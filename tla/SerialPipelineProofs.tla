------------------------ MODULE SerialPipelineProofs ------------------------
(***************************************************************************)
(* What holds of MediaPipeline when the clients that upload and delete wait *)
(* for each answer while others read, for any number of requests and       *)
(* whatever statements, system calls, transfers or processes fail. When     *)
(* nothing fails but transfers and file operations, table, volume, ledger   *)
(* and events agree; and when the clients that read wait too, all of them   *)
(* see a library.                                                           *)
(***************************************************************************)
EXTENDS RacingPipelineProofs

Writers == Uploads \cup Deletes

\* Uploads and deletions come one at a time, none of them is an FTP DELE or
\* RNTO, and no client gives a file a name with a hash suffix. Reads overlap
\* them and one another.
WritersWait == /\ Writers \subseteq Waiting /\ FtpFileOps = {}
               /\ \A q \in Requests : q.name.marks = <<>>

\* The clients that read wait as well.
ClientsWait == WritersWait /\ Reads \subseteq Waiting

USE DEF vars, stores, journal, history, locals, Goto

-----------------------------------------------------------------------------
(* The invariant.                                                          *)

OneAtATime(some) == \A o, p \in some : Active(o) /\ Active(p) => o = p

\* A row's path is made from its name, and is no other row's.
RowsNamed     == \A r \in rows : r.name.marks = <<>> /\ Fits(r.path.file, r.name, r.hash)
PathsDistinct == \A r, s \in rows : r.path = s.path => r = s

\* Whatever is at the path of a row has the hash of the row.
FilesHonest   == \A r \in rows, f \in disk : f.path = r.path => f.content = r.hash

Table == RowsNamed /\ PathsDistinct /\ OneRowPerContent /\ FilesHonest /\ RowsReadable

\* The row a deletion found stands until the deletion erases it.
FoundStands == \A d \in Deletes : pc[d] = "remove" => found[d] \in rows

\* From the lookup to the INSERT there is no row of the upload's name and
\* content, from the probe on none at its path, and then its file is there.
PlainRequest(u) == req[u] # None => req[u].name.marks = <<>>
NoRowYet(u) == pc[u] \in {"probe", "move", "copy", "install", "unlink", "insert"}
                 => \A r \in rows : ~Matches(r, u)
PathFree(u) == pc[u] \in {"move", "copy", "install", "unlink", "insert"}
                 => ~PathTaken(dest[u]) /\ Fits(dest[u].file, req[u].name, req[u].content)
Carried(u) ==
    pc[u] \in {"unlink", "insert"} =>
        /\ OnDisk(dest[u], req[u].content)
        /\ \A f \in disk : f.path = dest[u] => f.content = req[u].content

Work(u) == NoRowYet(u) /\ PathFree(u) /\ Carried(u)

SerialInv ==
    /\ OneAtATime(Writers) /\ Table /\ FoundStands
    /\ \A u \in Uploads : PlainRequest(u) /\ Work(u)

LEMMA SerialInit == Init => SerialInv
  BY OpsAssumption
     DEF Init, SerialInv, OneAtATime, Active, Ended, Table, RowsNamed, PathsDistinct,
         OneRowPerContent, FilesHonest, RowsReadable, FoundStands,
         PlainRequest, Work, NoRowYet, PathFree, Carried, Ops, Writers

-----------------------------------------------------------------------------
(* Of the operations that wait, only one takes steps.                      *)

LEMMA UploadBegins ==
    ASSUME NEW u \in Uploads, UploadStep(u)  PROVE MayBegin(u) \/ Active(u)
  BY DEF UploadStep, Receive, ReceiveAll, ReceiveFails, LookupHit, LookupMiss, Overwrite, Probe,
     MoveByRename, CreateStage, CopyToStage, InstallStage, UnlinkSource, MoveFails, Insert,
     InsertUnanswered, CallFails, LogStored, CleanupTemp, Announce, AnnouncePhoto, LogFailure,
     DropTemp, Active, Ended

LEMMA DeleteMoves ==
    ASSUME TypeInv, NEW d \in Deletes, DeleteStep(d)
    PROVE  /\ MayBegin(d) \/ Active(d)
           /\ \A o \in Ops \ {d} : pc'[o] = pc[o] /\ found'[o] = found[o]
  BY DEF DeleteStep, FindForDelete, RemoveFile, EraseRow, EraseFails, LogDelete, AnnounceDelete,
     Active, Ended, TypeInv, TypeOK, Ops

LEMMA ReadMoves ==
    ASSUME TypeInv, NEW r \in Reads, ReadStep(r)
    PROVE  /\ MayBegin(r) \/ Active(r)
           /\ \A o \in Ops \ {r} : pc'[o] = pc[o] /\ found'[o] = found[o]
           /\ UNCHANGED <<stores, journal, history, req, dest>>
  BY DEF ReadStep, FindForRead, ServeFile, Active, Ended, TypeInv, TypeOK, Ops

\* No other of these operations is active, or takes a step.
ActsAlone(o, some) == \A p \in some \ {o} : ~Active(p) /\ pc'[p] = pc[p]

LEMMA WaitingActsAlone ==
    ASSUME TypeInv, NEW some, some \subseteq Waiting, OneAtATime(some), NEW o \in some,
           MayBegin(o) \/ Active(o), \A p \in Ops \ {o} : pc'[p] = pc[p]
    PROVE  ActsAlone(o, some)
  BY SwitchAssumption DEF ActsAlone, OneAtATime, MayBegin

LEMMA OneAtATimeKept ==
    ASSUME TypeInv, NEW some, some \subseteq Waiting, OneAtATime(some), [Next]_vars
    PROVE  OneAtATime(some)'
  <1> USE SwitchAssumption DEF OneAtATime, Active
  <1>1. ASSUME NEW o \in Ops, MayBegin(o) \/ Active(o), \A p \in Ops \ {o} : pc'[p] = pc[p]
        PROVE  OneAtATime(some)'
    BY <1>1 DEF MayBegin
  <1>2. CASE \E u \in Uploads : UploadStep(u)
    BY <1>1, <1>2, UploadBegins, UploadLeavesOthers DEF Ops
  <1>3. CASE \E d \in Deletes : DeleteStep(d)
    BY <1>1, <1>3, DeleteMoves DEF Ops
  <1>4. CASE \E r \in Reads : ReadStep(r)
    BY <1>1, <1>4, ReadMoves DEF Ops
  <1>5. CASE Crash
    BY <1>5 DEF Crash, Ended
  <1>6. CASE UNCHANGED pc
    BY <1>6
  <1> QED BY <1>2, <1>3, <1>4, <1>5, <1>6 DEF Next, FtpDelete, FtpRename, Finished

\* A crash leaves no operation active.
CrashEndsAll == Crash /\ \A o \in Ops : pc'[o] \in Ended \cup {"idle"}

LEMMA WhoActs ==
    ASSUME TypeInv, WritersWait, OneAtATime(Writers), [Next]_vars
    PROVE  \/ \E u \in Uploads : UploadStep(u) /\ ActsAlone(u, Writers)
           \/ \E d \in Deletes : DeleteStep(d) /\ ActsAlone(d, Writers)
           \/ \E r \in Reads : ReadStep(r)
           \/ CrashEndsAll
           \/ UNCHANGED vars
  <1> USE DEF Ops, Writers
  <1>1. CASE Crash
    BY <1>1 DEF Crash, CrashEndsAll, Active, Ended, TypeInv, TypeOK
  <1>2. ~FtpDelete /\ ~FtpRename
    BY DEF FtpDelete, FtpRename, WritersWait
  <1>3. ASSUME NEW u \in Uploads, UploadStep(u)  PROVE ActsAlone(u, Writers)
    BY <1>3, UploadBegins, UploadLeavesOthers, WaitingActsAlone DEF WritersWait
  <1>4. ASSUME NEW d \in Deletes, DeleteStep(d)  PROVE ActsAlone(d, Writers)
    BY <1>4, DeleteMoves, WaitingActsAlone DEF WritersWait
  <1> QED BY <1>1, <1>2, <1>3, <1>4 DEF Next, Finished

-----------------------------------------------------------------------------
(* The upload's own steps keep what it relies on.                          *)

\* The path the probe chooses is free: a taken one is left for a suffixed one,
\* and a row at that path would have the upload's name and content.
LEMMA ProbeFindsFreePath ==
    ASSUME TypeInv, SerialInv, NEW u \in Uploads, Probe(u)
    PROVE  ~PathTaken(dest'[u]) /\ Fits(dest'[u].file, req[u].name, req[u].content)
  <1> DEFINE name == req[u].name
             hash == req[u].content
             Candidates(n) == StorageRelativePath(req[u].dir, n, hash)
  <1>1. /\ req[u] \in Request /\ req[u] # None
        /\ name \in FileName /\ hash \in Contents /\ name.marks = <<>>
        /\ dest \in [Uploads -> Path \cup {None}]
    BY NullAssumption DEF Probe, TypeInv, TypeOK, Locals, UploadLocals, HasRequest, UploadSteps,
       SerialInv, PlainRequest, Request
  <1>2. /\ \A p \in Candidates(name) : p.file \in {name, Once(name, hash)}
        /\ \A p \in Candidates(WithHashSuffix(name, hash)) :
              p.file \in {Once(name, hash), Twice(name, hash)}
    BY DEF StorageRelativePath, Once, Twice
  <1>3. ASSUME NEW p, p.file \in {Once(name, hash), Twice(name, hash)}
        PROVE  ~PathTaken(p)
    <2> SUFFICES ASSUME NEW r \in rows, r.path = p  PROVE FALSE
      BY DEF PathTaken
    <2>1. /\ r.name \in FileName /\ r.hash \in Contents /\ r.name.marks = <<>>
          /\ Fits(p.file, r.name, r.hash)
      BY DEF TypeInv, TypeOK, Row, SerialInv, Table, RowsNamed
    <2>2. r.name = name /\ r.hash = hash
      BY <1>1, <1>3, <2>1, SuffixTells
    <2>3. ~Matches(r, u)
      BY DEF Probe, SerialInv, Work, NoRowYet
    <2> QED BY <2>2, <2>3 DEF Matches
  <1>4. \/ dest'[u] \in Candidates(name) /\ ~PathTaken(dest'[u])
        \/ dest'[u] \in Candidates(WithHashSuffix(name, hash))
    BY <1>1 DEF Probe
  <1> HIDE DEF name, hash, Candidates
  <1>5. /\ ~PathTaken(dest'[u])
        /\ dest'[u].file \in {name, Once(name, hash), Twice(name, hash)}
    BY <1>2, <1>3, <1>4
  <1> QED BY <1>5 DEF Fits, name, hash

LEMMA UploadKeepsWork ==
    ASSUME TypeInv, HonestInv, SerialInv, NEW u \in Uploads, UploadStep(u)
    PROVE  Work(u)'
  <1> USE OpsAssumption DEF SerialInv, TypeInv, TypeOK, Ops
  <1>1. CASE Receive(u)
    BY <1>1 DEF Receive, Work, NoRowYet, PathFree, Carried
  <1>2. CASE ReceiveAll(u)
    <2> USE <1>2 DEF ReceiveAll
    <2>1. NoRowYet(u)'  BY DEF Work, NoRowYet, Matches
    <2>2. PathFree(u)'  BY DEF Work, PathFree, PathTaken
    <2>3. Carried(u)'   BY DEF Work, Carried
    <2> QED BY <2>1, <2>2, <2>3 DEF Work
  <1>3. CASE ReceiveFails(u)
    BY <1>3 DEF ReceiveFails, Work, NoRowYet, PathFree, Carried
  <1>4. CASE LookupHit(u)
    <2> USE <1>4 DEF LookupHit
    <2>1. NoRowYet(u)'  BY DEF Work, NoRowYet, Matches
    <2>2. PathFree(u)'  BY DEF Work, PathFree, PathTaken
    <2>3. Carried(u)'   BY DEF Work, Carried
    <2> QED BY <2>1, <2>2, <2>3 DEF Work
  <1>5. CASE LookupMiss(u)
    <2> USE <1>5 DEF LookupMiss
    <2>1. NoRowYet(u)'  BY DEF Work, NoRowYet, Matches
    <2>2. PathFree(u)'  BY DEF Work, PathFree, PathTaken
    <2>3. Carried(u)'   BY DEF Work, Carried
    <2> QED BY <2>1, <2>2, <2>3 DEF Work
  <1>6. CASE Overwrite(u)
    BY <1>6 DEF Overwrite, Work, NoRowYet, PathFree, Carried
  <1>7. CASE Probe(u)
    <2> USE <1>7 DEF Probe
    <2>1. NoRowYet(u)'  BY DEF Work, NoRowYet, Matches
    <2>2. PathFree(u)'  BY ProbeFindsFreePath DEF PathFree, PathTaken
    <2>3. Carried(u)'   BY DEF Work, Carried
    <2> QED BY <2>1, <2>2, <2>3 DEF Work
  <1>8. CASE MoveByRename(u)
    <2>0. disk' = Put(dest[u], req[u].content) /\ UNCHANGED <<req, dest>>
      BY <1>8, Installs
    <2> USE <1>8 DEF MoveByRename
    <2>1. NoRowYet(u)'  BY DEF Work, NoRowYet, Matches
    <2>2. PathFree(u)'  BY DEF Work, PathFree, PathTaken
    <2>3. Carried(u)'   BY <2>0 DEF Carried, Put, Without, OnDisk
    <2> QED BY <2>1, <2>2, <2>3 DEF Work
  <1>9. CASE CreateStage(u)
    <2> USE <1>9 DEF CreateStage
    <2>1. NoRowYet(u)'  BY DEF Work, NoRowYet, Matches
    <2>2. PathFree(u)'  BY DEF Work, PathFree, PathTaken
    <2>3. Carried(u)'   BY DEF Work, Carried
    <2> QED BY <2>1, <2>2, <2>3 DEF Work
  <1>10. CASE CopyToStage(u)
    <2> USE <1>10 DEF CopyToStage
    <2>1. NoRowYet(u)'  BY DEF Work, NoRowYet, Matches
    <2>2. PathFree(u)'  BY DEF Work, PathFree, PathTaken
    <2>3. Carried(u)'   BY DEF Work, Carried
    <2> QED BY <2>1, <2>2, <2>3 DEF Work
  <1>11. CASE InstallStage(u)
    <2>0. disk' = Put(dest[u], req[u].content) /\ UNCHANGED <<req, dest>>
      BY <1>11, Installs
    <2> USE <1>11 DEF InstallStage
    <2>1. NoRowYet(u)'  BY DEF Work, NoRowYet, Matches
    <2>2. PathFree(u)'  BY DEF Work, PathFree, PathTaken
    <2>3. Carried(u)'   BY <2>0 DEF Carried, Put, Without, OnDisk
    <2> QED BY <2>1, <2>2, <2>3 DEF Work
  <1>12. CASE UnlinkSource(u)
    <2> USE <1>12 DEF UnlinkSource
    <2>1. NoRowYet(u)'  BY DEF Work, NoRowYet, Matches
    <2>2. PathFree(u)'  BY DEF Work, PathFree, PathTaken
    <2>3. Carried(u)'   BY DEF Work, Carried, OnDisk
    <2> QED BY <2>1, <2>2, <2>3 DEF Work
  <1>13. CASE MoveFails(u)
    BY <1>13 DEF MoveFails, Work, NoRowYet, PathFree, Carried
  <1>14. CASE Insert(u)
    BY <1>14 DEF Insert, Work, NoRowYet, PathFree, Carried
  <1>15. CASE InsertUnanswered(u)
    BY <1>15 DEF InsertUnanswered, Work, NoRowYet, PathFree, Carried
  <1>16. CASE CallFails(u)
    BY <1>16 DEF CallFails, Work, NoRowYet, PathFree, Carried
  <1>17. CASE LogStored(u)
    BY <1>17 DEF LogStored, Work, NoRowYet, PathFree, Carried
  <1>18. CASE CleanupTemp(u)
    BY <1>18 DEF CleanupTemp, Work, NoRowYet, PathFree, Carried
  <1>19. CASE Announce(u)
    BY <1>19 DEF Announce, Work, NoRowYet, PathFree, Carried
  <1>20. CASE AnnouncePhoto(u)
    BY <1>20 DEF AnnouncePhoto, Work, NoRowYet, PathFree, Carried
  <1>21. CASE LogFailure(u)
    BY <1>21 DEF LogFailure, Work, NoRowYet, PathFree, Carried
  <1>22. CASE DropTemp(u)
    BY <1>22 DEF DropTemp, Work, NoRowYet, PathFree, Carried
  <1> QED BY <1>1, <1>2, <1>3, <1>4, <1>5, <1>6, <1>7, <1>8, <1>9, <1>10, <1>11, <1>12, <1>13,
           <1>14, <1>15, <1>16, <1>17, <1>18, <1>19, <1>20, <1>21, <1>22 DEF UploadStep

\* What is not active relies on nothing.
LEMMA IdleWork ==
    ASSUME NEW u \in Uploads, pc'[u] \in Ended \cup {"idle"}
    PROVE  Work(u)'
  BY DEF Work, NoRowYet, PathFree, Carried, Ended

-----------------------------------------------------------------------------
(* Each conjunct is preserved.                                             *)

LEMMA TableKept ==
    ASSUME TypeInv, HonestInv, SerialInv, WritersWait, [Next]_vars
    PROVE  Table'
  <1> USE DEF SerialInv
  <1>1. CASE \E u \in Uploads : Insert(u) \/ InsertUnanswered(u)
    <2>1. PICK u \in Uploads : Insert(u) \/ InsertUnanswered(u)
      BY <1>1
    <2>2. /\ req[u] # None /\ req[u].name.marks = <<>>
          /\ \A r \in rows : ~(r.name = req[u].name /\ r.hash = req[u].content)
          /\ \A r \in rows : r.path # dest[u]
          /\ Fits(dest[u].file, req[u].name, req[u].content)
          /\ OnDisk(dest[u], req[u].content)
          /\ \A f \in disk : f.path = dest[u] => f.content = req[u].content
      BY <2>1, NullAssumption
         DEF Insert, InsertUnanswered, Work, NoRowYet, PathFree, Carried, Matches, PathTaken,
             PlainRequest, TypeInv, Locals, UploadLocals, HasRequest, UploadSteps
    <2>3. /\ UNCHANGED <<disk, unlinked>>
          /\ rows' = rows \cup {[id |-> u, name |-> req[u].name, path |-> dest[u],
                                  hash |-> req[u].content]}
      BY <2>1, <2>2 DEF Insert, InsertUnanswered, NewRow, PathTaken
    <2>4. RowsNamed'         BY <2>2, <2>3 DEF Table, RowsNamed
    <2>5. PathsDistinct'     BY <2>2, <2>3 DEF Table, PathsDistinct
    <2>6. OneRowPerContent'  BY <2>2, <2>3 DEF Table, OneRowPerContent
    <2>7. FilesHonest'       BY <2>2, <2>3 DEF Table, FilesHonest
    <2>8. RowsReadable'      BY <2>2, <2>3 DEF Table, RowsReadable, OnDisk
    <2> QED BY <2>4, <2>5, <2>6, <2>7, <2>8 DEF Table
  <1>2. ASSUME rows' \subseteq rows, UNCHANGED disk  PROVE Table'
    BY <1>2, UnlinkedGrows
       DEF Table, RowsNamed, PathsDistinct, OneRowPerContent, FilesHonest, RowsReadable, OnDisk
  <1>3. CASE \E d \in Deletes : EraseRow(d)
    BY <1>2, <1>3 DEF EraseRow
  <1>4. CASE \E u \in Uploads : MoveByRename(u) \/ InstallStage(u)
    <2>1. PICK u \in Uploads : MoveByRename(u) \/ InstallStage(u)
      BY <1>4
    <2>2. /\ UNCHANGED <<rows, unlinked>>
          /\ \E c : disk' = Put(dest[u], c)
      BY <2>1 DEF MoveByRename, InstallStage
    <2>3. \A r \in rows : r.path # dest[u]
      BY <2>1 DEF MoveByRename, InstallStage, Work, PathFree, PathTaken
    <2> QED
      BY <2>2, <2>3
         DEF Put, Without, Table, RowsNamed, PathsDistinct, OneRowPerContent, FilesHonest,
             RowsReadable, OnDisk
  <1>5. CASE \E d \in Deletes : RemoveFile(d)
    <2>1. PICK d \in Deletes : RemoveFile(d)
      BY <1>5
    <2>2. found[d] \in rows
      BY <2>1 DEF RemoveFile, FoundStands
    <2>3. CASE UNCHANGED <<disk, unlinked>>
      BY <1>2, <2>1, <2>3 DEF RemoveFile
    <2>4. CASE disk' = Without(found[d].path) /\ unlinked' = unlinked \cup {found[d].id}
      <3>1. UNCHANGED rows
        BY <2>1 DEF RemoveFile
      <3>2. RowsNamed' /\ PathsDistinct' /\ OneRowPerContent'
        BY <3>1 DEF Table, RowsNamed, PathsDistinct, OneRowPerContent
      <3>3. FilesHonest'
        BY <2>4, <3>1 DEF Table, FilesHonest, Without
      <3>4. RowsReadable'
        BY <2>2, <2>4, <3>1 DEF Table, PathsDistinct, RowsReadable, Without, OnDisk
      <3> QED BY <3>2, <3>3, <3>4 DEF Table
    <2> QED BY <2>1, <2>3, <2>4 DEF RemoveFile
  <1>6. CASE UNCHANGED <<rows, disk>>
    BY <1>2, <1>6
  <1>7. ~FtpDelete /\ ~FtpRename
    BY DEF FtpDelete, FtpRename, WritersWait
  <1>8. ASSUME UNCHANGED rows  PROVE Table'
    BY <1>4, <1>5, <1>6, <1>7, <1>8, CopyKeepsDisk, DiskWriters
  <1> QED BY <1>1, <1>3, <1>8, RowWriters

LEMMA PlainRequestsKept ==
    ASSUME TypeInv, SerialInv, WritersWait, [Next]_vars, NEW u \in Uploads
    PROVE  PlainRequest(u)'
  <1> USE DEF SerialInv, PlainRequest
  <1>1. CASE \E v \in Uploads : Receive(v)
    BY <1>1 DEF Receive, WritersWait, TypeInv, TypeOK
  <1> QED BY <1>1, RequestWriters

LEMMA WorkKept ==
    ASSUME TypeInv, HonestInv, SerialInv, WritersWait, [Next]_vars, NEW u \in Uploads
    PROVE  Work(u)'
  <1> USE OpsAssumption DEF Ops, Writers
  <1>1. ASSUME NEW o \in Writers \ {u}, ActsAlone(o, Writers)  PROVE Work(u)'
    BY <1>1, IdleWork DEF ActsAlone, Active
  <1>2. CASE \E v \in Uploads : UploadStep(v) /\ ActsAlone(v, Writers)
    BY <1>1, <1>2, UploadKeepsWork
  <1>3. CASE \E d \in Deletes : DeleteStep(d) /\ ActsAlone(d, Writers)
    BY <1>1, <1>3
  <1>4. ASSUME pc'[u] = pc[u], UNCHANGED <<stores, req, dest>>  PROVE Work(u)'
    BY <1>4 DEF SerialInv, Work, NoRowYet, PathFree, Carried, Matches, PathTaken, OnDisk
  <1>5. CASE \E r \in Reads : ReadStep(r)
    BY <1>4, <1>5, ReadMoves
  <1>6. CASE CrashEndsAll
    BY <1>6, IdleWork DEF CrashEndsAll
  <1>7. CASE UNCHANGED vars
    BY <1>4, <1>7
  <1> QED BY <1>2, <1>3, <1>5, <1>6, <1>7, WhoActs DEF SerialInv

LEMMA FoundKept ==
    ASSUME TypeInv, SerialInv, WritersWait, [Next]_vars
    PROVE  FoundStands'
  <1> USE OpsAssumption DEF Ops, Writers, FoundStands, SerialInv, TypeInv, TypeOK
  <1>1. ASSUME NEW o \in Writers, ActsAlone(o, Writers),
               o \in Deletes => (pc'[o] = "remove" => found'[o] \in rows')
        PROVE  FoundStands'
    BY <1>1 DEF ActsAlone, Active, Ended
  <1>2. CASE \E u \in Uploads : UploadStep(u) /\ ActsAlone(u, Writers)
    BY <1>1, <1>2
  <1>3. CASE \E d \in Deletes : DeleteStep(d) /\ ActsAlone(d, Writers)
    <2>1. PICK d \in Deletes : DeleteStep(d) /\ ActsAlone(d, Writers)
      BY <1>3
    <2>2. pc'[d] = "remove" => found'[d] \in rows'
      BY <2>1 DEF DeleteStep, FindForDelete, RemoveFile, EraseRow, EraseFails, LogDelete,
         AnnounceDelete
    <2> QED BY <1>1, <2>1, <2>2
  <1>4. CASE \E r \in Reads : ReadStep(r)
    BY <1>4, ReadMoves
  <1>5. CASE CrashEndsAll
    BY <1>5 DEF CrashEndsAll, Ended
  <1>6. CASE UNCHANGED vars
    BY <1>6
  <1> QED BY <1>2, <1>3, <1>4, <1>5, <1>6, WhoActs

LEMMA SerialInvNext ==
    ASSUME TypeInv, HonestInv, SerialInv, WritersWait, [Next]_vars
    PROVE  SerialInv'
  <1>1. OneAtATime(Writers)'
    BY OneAtATimeKept DEF SerialInv, WritersWait
  <1> QED
    BY <1>1, TableKept, FoundKept, PlainRequestsKept, WorkKept DEF SerialInv

-----------------------------------------------------------------------------

\* Without FTP renames, what is under a final name is at a path made for it.
LEMMA HonestWriters == ASSUME WritersWait PROVE Spec => []HonestInv
  BY HonestInvHolds DEF WritersWait

LEMMA SerialInvHolds == ASSUME WritersWait PROVE Spec => []SerialInv
  <1>1. TypeInv /\ HonestInv /\ SerialInv /\ [Next]_vars => SerialInv'
    BY SerialInvNext
  <1> QED BY <1>1, SerialInit, TypeCorrect, HonestWriters, PTL DEF Spec

\* A client that waits for its answers never loses a stored file but to a
\* deletion, whichever statement, system call, transfer or process fails.
THEOREM RowsReadableHolds == ASSUME WritersWait PROVE Spec => []RowsReadable
  <1>1. SerialInv => RowsReadable
    BY DEF SerialInv, Table
  <1> QED BY <1>1, SerialInvHolds, PTL

\* A second upload of a name and content finds the first one's row, even when
\* the first was answered with an error or died after its INSERT.
THEOREM OneRowPerContentHolds == ASSUME WritersWait PROVE Spec => []OneRowPerContent
  <1>1. SerialInv => OneRowPerContent
    BY DEF SerialInv, Table
  <1> QED BY <1>1, SerialInvHolds, PTL

\* Whatever uploads, deletions and failures a read overlaps, it serves the
\* content its row was stored with, if that row stands when the file is opened:
\* no upload takes the path of a row, nor does one that fails half-way.
THEOREM StandingRowsServedHolds == ASSUME WritersWait PROVE Spec => StandingRowsServed
  <1>1. ASSUME TypeInv, SerialInv, [Next]_vars,
               NEW r \in Reads, pc[r] # "ok", pc'[r] = "ok", found[r] \in rows
        PROVE  body'[r] = found[r].hash
    <2>1. ServeFile(r)
      BY <1>1, ReadsRest DEF ReadStep, FindForRead, TypeInv, TypeOK, Ops
    <2>2. \A f \in disk : f.path = found[r].path => f.content = found[r].hash
      BY <1>1 DEF SerialInv, Table, FilesHonest
    <2> QED BY <1>1, <2>1, <2>2 DEF ServeFile, TypeInv, TypeOK, Ops
  <1>2. TypeInv /\ SerialInv /\ [Next]_vars
          => [\A r \in Reads : pc[r] # "ok" /\ pc'[r] = "ok" /\ found[r] \in rows
                 => body'[r] = found[r].hash]_vars
    BY <1>1
  <1> QED BY <1>2, TypeCorrect, SerialInvHolds, PTL DEF Spec, StandingRowsServed

-----------------------------------------------------------------------------
(* When the clients that read wait as well, the row a read found stands.   *)

ReadsInv == OneAtATime(Ops) /\ ReadsStand /\ ReadsAreHonest

LEMMA ReadsInvNext ==
    ASSUME TypeInv, SerialInv, ReadsInv, ClientsWait, [Next]_vars
    PROVE  ReadsInv'
  <1> USE OpsAssumption DEF Ops
  <1>1. OneAtATime(Ops)'
    BY OneAtATimeKept DEF ReadsInv, ClientsWait, WritersWait, Writers
  <1>2. ReadsStand'
    <2> SUFFICES ASSUME NEW g \in Reads, pc'[g] = "open"  PROVE found'[g] \in rows'
      BY DEF ReadsStand
    <2>1. CASE ReadStep(g)
      BY <2>1 DEF ReadStep, FindForRead, ServeFile, TypeInv, TypeOK
    <2>2. CASE pc[g] = "open" /\ found'[g] = found[g]
      <3>1. \A o \in Ops \ {g} : ~Active(o)
        BY <2>2 DEF ReadsInv, OneAtATime, Active, Ended
      <3>2. \A d \in Deletes : ~EraseRow(d)
        BY <3>1 DEF EraseRow, Active, Ended
      <3> QED BY <2>2, <3>2, RowWriters DEF Insert, InsertUnanswered, ReadsInv, ReadsStand
    <2> QED BY <2>1, <2>2, ReadsRest
  <1>3. ReadsAreHonest'
    <2> SUFFICES ASSUME NEW g \in Reads, pc'[g] = "ok"  PROVE body'[g] = found'[g].hash
      BY DEF ReadsAreHonest
    <2>1. CASE FindForRead(g)
      BY <2>1 DEF FindForRead, TypeInv, TypeOK
    <2>2. CASE ServeFile(g)
      <3>1. \A f \in disk : f.path = found[g].path => f.content = found[g].hash
        BY <2>2 DEF ServeFile, ReadsInv, ReadsStand, SerialInv, Table, FilesHonest
      <3> QED BY <2>2, <3>1 DEF ServeFile, TypeInv, TypeOK
    <2> QED BY <2>1, <2>2, ReadsRest DEF ReadStep, ReadsInv, ReadsAreHonest
  <1> QED BY <1>1, <1>2, <1>3 DEF ReadsInv

LEMMA ReadsInvHolds == ASSUME ClientsWait PROVE Spec => []ReadsInv
  <1>1. Init => ReadsInv
    BY OpsAssumption
       DEF Init, ReadsInv, OneAtATime, ReadsStand, ReadsAreHonest, Active, Ended, Ops
  <1>2. TypeInv /\ SerialInv /\ ReadsInv /\ [Next]_vars => ReadsInv'
    BY ReadsInvNext
  <1>3. Spec => []SerialInv
    BY SerialInvHolds DEF ClientsWait
  <1> QED BY <1>1, <1>2, <1>3, TypeCorrect, PTL DEF Spec

\* To clients that wait the API serves no other content than the one its row
\* was stored with, though deletions free paths and uploads that died leave
\* files under the paths later uploads choose.
THEOREM ReadsAreHonestHolds == ASSUME ClientsWait PROVE Spec => []ReadsAreHonest
  <1>1. ReadsInv => ReadsAreHonest
    BY DEF ReadsInv
  <1> QED BY <1>1, ReadsInvHolds, PTL

-----------------------------------------------------------------------------
(* When moreover nothing fails but transfers and file operations, requests *)
(* are atomic. An upload has inserted its row from the INSERT on; a row    *)
(* without its file is about to be erased, which nobody can observe.       *)

CallsAnswered == Faults \subseteq {"net", "fs"}

Inserted == {"logup", "announce", "announcephoto", "ok"}

IdsUsed     == \A u \in Uploads : HasRow(u) \/ u \in unlinked => pc[u] \in Inserted
GoneErased  == \A r \in rows : r.id \in unlinked =>
                  \E d \in Deletes : pc[d] = "erase" /\ found[d] = r
ErasedGone  == \A d \in Deletes : pc[d] = "erase" =>
                  found[d] \in rows /\ ~OnDisk(found[d].path, found[d].hash)

AtomicInv == IdsUsed /\ GoneErased /\ ErasedGone /\ FoundKnown

LEMMA AtomicInit == Init => AtomicInv
  BY OpsAssumption
     DEF Init, AtomicInv, IdsUsed, GoneErased, ErasedGone, FoundKnown, HasRow, Ops

\* No crash and no failed or unanswered statement.
LEMMA NoOtherFault ==
    ASSUME CallsAnswered
    PROVE  ~May({"db"}) /\ ~May({"reply"}) /\ ~May({"crash"})
  BY DEF May, CallsAnswered

\* What was inserted stays inserted: only LogStored and the announcements follow.
LEMMA UploadStaysInserted ==
    ASSUME TypeOK, NEW u \in Uploads, UploadStep(u), pc[u] \in Inserted
    PROVE  pc'[u] \in Inserted
  <1> USE DEF Inserted, TypeOK, Ops
  <1>1. CASE Receive(u)            BY <1>1 DEF Receive, MayBegin
  <1>2. CASE ReceiveAll(u)         BY <1>2 DEF ReceiveAll
  <1>3. CASE ReceiveFails(u)       BY <1>3 DEF ReceiveFails
  <1>4. CASE LookupHit(u)          BY <1>4 DEF LookupHit
  <1>5. CASE LookupMiss(u)         BY <1>5 DEF LookupMiss
  <1>6. CASE Overwrite(u)          BY <1>6 DEF Overwrite
  <1>7. CASE Probe(u)              BY <1>7 DEF Probe
  <1>8. CASE MoveByRename(u)       BY <1>8 DEF MoveByRename
  <1>9. CASE CreateStage(u)        BY <1>9 DEF CreateStage
  <1>10. CASE CopyToStage(u)       BY <1>10 DEF CopyToStage
  <1>11. CASE InstallStage(u)      BY <1>11 DEF InstallStage
  <1>12. CASE UnlinkSource(u)      BY <1>12 DEF UnlinkSource
  <1>13. CASE MoveFails(u)         BY <1>13 DEF MoveFails
  <1>14. CASE Insert(u)            BY <1>14 DEF Insert
  <1>15. CASE InsertUnanswered(u)  BY <1>15 DEF InsertUnanswered, May
  <1>16. CASE CallFails(u)         BY <1>16 DEF CallFails
  <1>17. CASE LogStored(u)         BY <1>17 DEF LogStored
  <1>18. CASE CleanupTemp(u)       BY <1>18 DEF CleanupTemp
  <1>19. CASE Announce(u)          BY <1>19 DEF Announce
  <1>20. CASE AnnouncePhoto(u)     BY <1>20 DEF AnnouncePhoto
  <1>21. CASE LogFailure(u)        BY <1>21 DEF LogFailure
  <1>22. CASE DropTemp(u)          BY <1>22 DEF DropTemp
  <1> QED BY <1>1, <1>2, <1>3, <1>4, <1>5, <1>6, <1>7, <1>8, <1>9, <1>10, <1>11, <1>12, <1>13,
           <1>14, <1>15, <1>16, <1>17, <1>18, <1>19, <1>20, <1>21, <1>22 DEF UploadStep

\* One that acts alone, and is not about to erase a row, sees none without file.
LEMMA AllReadable ==
    ASSUME SerialInv, AtomicInv, NEW o, ActsAlone(o, Writers), pc[o] # "erase"
    PROVE  \A r \in rows : r.id \notin unlinked /\ OnDisk(r.path, r.hash)
  <1>1. \A d \in Deletes : pc[d] # "erase"
    BY DEF ActsAlone, Active, Ended, Writers
  <1> QED
    BY <1>1 DEF AtomicInv, GoneErased, SerialInv, Table, RowsReadable

\* A step in which one of the writers acts alone; a read may be under way.
Alone == \/ \E u \in Uploads : UploadStep(u) /\ ActsAlone(u, Writers)
         \/ \E d \in Deletes : DeleteStep(d) /\ ActsAlone(d, Writers)

LEMMA AloneOrNot ==
    ASSUME TypeInv, SerialInv, WritersWait, CallsAnswered, [Next]_vars
    PROVE  Alone \/ (\E r \in Reads : ReadStep(r)) \/ UNCHANGED vars
  <1>1. ~Crash
    BY NoOtherFault DEF Crash
  <1> QED BY <1>1, WhoActs DEF Alone, CrashEndsAll, SerialInv

LEMMA InsertedStays ==
    ASSUME TypeInv, Alone, NEW u \in Uploads, pc[u] \in Inserted
    PROVE  pc'[u] \in Inserted
  <1> USE OpsAssumption DEF Writers, Alone
  <1>1. ASSUME NEW o \in Writers \ {u}, ActsAlone(o, Writers)  PROVE pc'[u] \in Inserted
    BY <1>1 DEF ActsAlone
  <1> QED BY <1>1, UploadStaysInserted DEF TypeInv

LEMMA AtomicUpload ==
    ASSUME TypeInv, SerialInv, AtomicInv, CallsAnswered,
           NEW u \in Uploads, UploadStep(u), ActsAlone(u, Writers)
    PROVE  AtomicInv'
  <1> USE OpsAssumption DEF TypeInv, TypeOK, AtomicInv, Ops
  <1>0. /\ pc[u] # "erase" /\ pc'[u] # "erase"
        /\ \A d \in Deletes : pc'[d] # "erase"
        /\ UNCHANGED unlinked
        /\ pc'[u] = "overwrite" => found'[u] \in rows
        /\ \A v \in Uploads \ {u} : pc'[v] # "overwrite"
        /\ rows' = rows \/ (Insert(u) /\ ~PathTaken(dest[u]) /\ rows' = rows \cup {NewRow(u)})
    <2>0. \A v \in Writers \ {u} : pc'[v] = pc[v] /\ pc[v] \in Ended \cup {"idle"}
      BY DEF ActsAlone, Active
    <2> USE DEF Ended, AtomicInv, Writers
    <2>1. CASE Receive(u)
      BY <2>1, <2>0 DEF Receive, MayBegin
    <2>2. CASE ReceiveAll(u)
      BY <2>2, <2>0 DEF ReceiveAll
    <2>3. CASE ReceiveFails(u)
      BY <2>3, <2>0 DEF ReceiveFails
    <2>4. CASE LookupHit(u)
      BY <2>4, <2>0 DEF LookupHit
    <2>5. CASE LookupMiss(u)
      BY <2>5, <2>0 DEF LookupMiss
    <2>6. CASE Overwrite(u)
      BY <2>6, <2>0 DEF Overwrite
    <2>7. CASE Probe(u)
      BY <2>7, <2>0 DEF Probe
    <2>8. CASE MoveByRename(u)
      BY <2>8, <2>0 DEF MoveByRename
    <2>9. CASE CreateStage(u)
      BY <2>9, <2>0 DEF CreateStage
    <2>10. CASE CopyToStage(u)
      BY <2>10, <2>0 DEF CopyToStage
    <2>11. CASE InstallStage(u)
      BY <2>11, <2>0 DEF InstallStage
    <2>12. CASE UnlinkSource(u)
      BY <2>12, <2>0 DEF UnlinkSource
    <2>13. CASE MoveFails(u)
      BY <2>13, <2>0 DEF MoveFails
    <2>14. CASE Insert(u)
      BY <2>14, <2>0 DEF Insert
    <2>15. CASE InsertUnanswered(u)
      BY <2>15, <2>0, NoOtherFault DEF InsertUnanswered
    <2>16. CASE CallFails(u)
      BY <2>16, <2>0 DEF CallFails
    <2>17. CASE LogStored(u)
      BY <2>17, <2>0 DEF LogStored
    <2>18. CASE CleanupTemp(u)
      BY <2>18, <2>0 DEF CleanupTemp
    <2>19. CASE Announce(u)
      BY <2>19, <2>0 DEF Announce
    <2>20. CASE AnnouncePhoto(u)
      BY <2>20, <2>0 DEF AnnouncePhoto
    <2>21. CASE LogFailure(u)
      BY <2>21, <2>0 DEF LogFailure
    <2>22. CASE DropTemp(u)
      BY <2>22, <2>0 DEF DropTemp
    <2> QED BY <2>1, <2>2, <2>3, <2>4, <2>5, <2>6, <2>7, <2>8, <2>9, <2>10, <2>11, <2>12, <2>13,
           <2>14, <2>15, <2>16, <2>17, <2>18, <2>19, <2>20, <2>21, <2>22 DEF UploadStep
  <1>1. \A r \in rows : r.id \notin unlinked
    BY <1>0, AllReadable
  <1>2. CASE rows' = rows
    <2>1. IdsUsed'
      BY <1>0, <1>2, InsertedStays DEF IdsUsed, HasRow, Alone
    <2>2. GoneErased' /\ ErasedGone' /\ FoundKnown'
      BY <1>0, <1>1, <1>2 DEF IdsDistinct, GoneErased, ErasedGone, FoundKnown
    <2> QED BY <2>1, <2>2
  <1>3. CASE Insert(u) /\ ~PathTaken(dest[u]) /\ rows' = rows \cup {NewRow(u)}
    <2>1. pc[u] = "insert" /\ pc'[u] = "logup"
      BY <1>3 DEF Insert
    <2>2. ~HasRow(u) /\ u \notin unlinked
      BY <2>1 DEF IdsUsed, Inserted
    <2>3. NewRow(u).id = u
      BY DEF NewRow
    <2>4. IdsUsed'
      BY <1>0, <1>3, <2>1, <2>3, InsertedStays DEF IdsUsed, HasRow, Alone, Inserted
    <2>5. GoneErased' /\ ErasedGone' /\ FoundKnown'
      BY <1>0, <1>1, <1>3, <2>1, <2>2, <2>3
         DEF GoneErased, ErasedGone, FoundKnown
    <2> QED BY <2>4, <2>5
  <1> QED BY <1>0, <1>2, <1>3

LEMMA AtomicDelete ==
    ASSUME TypeInv, IdsDistinct, SerialInv, AtomicInv, CallsAnswered,
           NEW d \in Deletes, DeleteStep(d), ActsAlone(d, Writers)
    PROVE  AtomicInv'
  <1> USE OpsAssumption DEF TypeInv, TypeOK, AtomicInv, Ops
  <1> USE DEF Writers
  <1>0. \A v \in Writers \ {d} : pc'[v] = pc[v] /\ pc[v] \in Ended \cup {"idle"}
    BY DEF ActsAlone, Active
  <1>1. CASE RemoveFile(d)
    <2>1. found[d] \in rows /\ found[d].id \in Uploads /\ UNCHANGED <<rows, found, req>>
      BY <1>1 DEF RemoveFile, SerialInv, FoundStands, Row
    <2>2. \A r \in rows : r.id \notin unlinked
      BY <1>1, AllReadable DEF RemoveFile
    <2>3. CASE pc'[d] = "erase"
      <3>1. unlinked' = unlinked \cup {found[d].id} /\ disk' = Without(found[d].path)
        BY <1>1, <2>3 DEF RemoveFile
      <3>2. IdsUsed'
        BY <2>1, <3>1, InsertedStays DEF IdsUsed, HasRow, Alone
      <3>3. GoneErased'
        BY <2>1, <2>2, <2>3, <3>1 DEF GoneErased, IdsDistinct
      <3>4. ErasedGone'
        BY <1>0, <2>1, <3>1 DEF ErasedGone, OnDisk, Without, Ended
      <3>5. FoundKnown'
        BY <1>0, <2>1 DEF FoundKnown, Ended
      <3> QED BY <3>2, <3>3, <3>4, <3>5
    <2>4. CASE pc'[d] = "err" /\ UNCHANGED unlinked
      <3>1. IdsUsed'
        BY <2>1, <2>4, InsertedStays DEF IdsUsed, HasRow, Alone
      <3>2. GoneErased' /\ ErasedGone' /\ FoundKnown'
        BY <1>0, <2>1, <2>2, <2>4
           DEF GoneErased, ErasedGone, FoundKnown, Ended
      <3> QED BY <3>1, <3>2
    <2> QED BY <1>1, <2>3, <2>4 DEF RemoveFile
  <1>2. CASE EraseRow(d)
    <2>1. /\ rows' = {r \in rows : r.id # found[d].id}
          /\ pc[d] = "erase" /\ pc'[d] # "erase"
          /\ UNCHANGED <<unlinked, found, req>>
      BY <1>2 DEF EraseRow
    <2>2. \A r \in rows' : r.id \notin unlinked
      <3> SUFFICES ASSUME NEW r \in rows', r.id \in unlinked  PROVE FALSE
        OBVIOUS
      <3>1. PICK e \in Deletes : pc[e] = "erase" /\ found[e] = r
        BY <2>1 DEF GoneErased
      <3>2. e = d
        BY <1>0, <3>1 DEF Ended
      <3> QED BY <2>1, <3>1, <3>2
    <2>3. IdsUsed'
      BY <2>1, InsertedStays DEF IdsUsed, HasRow, Alone
    <2>4. GoneErased' /\ ErasedGone' /\ FoundKnown'
      BY <1>0, <2>1, <2>2
         DEF GoneErased, ErasedGone, FoundKnown, Ended
    <2> QED BY <2>3, <2>4
  <1>3. ~EraseFails(d)
    BY NoOtherFault DEF EraseFails
  <1>4. CASE FindForDelete(d) \/ LogDelete(d) \/ AnnounceDelete(d)
    <2>1. /\ pc[d] # "erase" /\ pc'[d] # "erase"
          /\ UNCHANGED <<rows, disk, unlinked, req>>
          /\ \A u \in Uploads : found'[u] = found[u]
      BY <1>4 DEF FindForDelete, LogDelete, AnnounceDelete, MayBegin
    <2>2. \A r \in rows : r.id \notin unlinked
      BY <2>1, AllReadable
    <2>3. IdsUsed'
      BY <2>1, InsertedStays DEF IdsUsed, HasRow, Alone
    <2>4. GoneErased' /\ ErasedGone' /\ FoundKnown'
      BY <1>0, <2>1, <2>2
         DEF GoneErased, ErasedGone, FoundKnown, Ended
    <2> QED BY <2>3, <2>4
  <1> QED BY <1>1, <1>2, <1>3, <1>4 DEF DeleteStep

LEMMA StillAtomic ==
    ASSUME TypeInv, AtomicInv, UNCHANGED <<rows, disk, unlinked>>,
           \A o \in Writers : pc'[o] = pc[o] /\ found'[o] = found[o]
    PROVE  AtomicInv'
  BY DEF AtomicInv, IdsUsed, GoneErased, ErasedGone, FoundKnown, HasRow, OnDisk, Writers

\* A read changes nothing that a writer works on.
LEMMA ReadLeavesWriters ==
    ASSUME TypeInv, NEW g \in Reads, ReadStep(g)
    PROVE  \A o \in Writers : pc'[o] = pc[o] /\ found'[o] = found[o]
  BY OpsAssumption, ReadMoves DEF Writers, Ops

LEMMA AtomicInvNext ==
    ASSUME TypeInv, IdsDistinct, SerialInv, AtomicInv, WritersWait, CallsAnswered, [Next]_vars
    PROVE  AtomicInv'
  <1>1. CASE Alone
    BY <1>1, AtomicUpload, AtomicDelete DEF Alone
  <1>2. CASE \E g \in Reads : ReadStep(g)
    BY <1>2, ReadMoves, ReadLeavesWriters, StillAtomic
  <1>3. CASE UNCHANGED vars
    BY <1>3, StillAtomic
  <1> QED BY <1>1, <1>2, <1>3, AloneOrNot

LEMMA AtomicInvHolds == ASSUME WritersWait, CallsAnswered PROVE Spec => []AtomicInv
  <1>1. TypeInv /\ (IdsDistinct /\ RowsOwned) /\ SerialInv /\ AtomicInv /\ [Next]_vars => AtomicInv'
    BY AtomicInvNext
  <1> QED BY <1>1, AtomicInit, TypeCorrect, IdsDistinctHolds, SerialInvHolds, PTL DEF Spec

-----------------------------------------------------------------------------
(* The simulation.                                                         *)

USE DEF Kept, Phase, Asked

LEMMA UploadHonours ==
    ASSUME TypeInv, HonestInv, SerialInv, AtomicInv,
           NEW u \in Uploads, UploadStep(u), ActsAlone(u, Writers)
    PROVE  Honours(u)
  <1>1. ASSUME MoveByRename(u) \/ InstallStage(u), NEW r \in rows
        PROVE  OnDisk(r.path, r.hash)' <=> OnDisk(r.path, r.hash)
    <2>1. r.path # dest[u]
      BY <1>1 DEF MoveByRename, InstallStage, SerialInv, Work, PathFree, PathTaken
    <2> QED BY <1>1, <2>1 DEF MoveByRename, InstallStage, OnDisk, Put, Without
  <1>2. CopyToStage(u) => \A r \in rows : OnDisk(r.path, r.hash)' <=> OnDisk(r.path, r.hash)
    BY CopyKeepsDisk DEF OnDisk
  <1>3. Overwrite(u) => found[u] \in Readable
    BY AllReadable DEF Overwrite, AtomicInv, FoundKnown, Readable
  <1>4. Insert(u) => OnDisk(dest[u], req[u].content)
    BY DEF Insert, SerialInv, Work, Carried
  <1> QED BY <1>1, <1>2, <1>3, <1>4 DEF Honours

LEMMA DeleteSimulates ==
    ASSUME TypeInv, AckInv, IdsDistinct, HonestInv, SerialInv, AtomicInv,
           CallsAnswered, NEW d \in Deletes, DeleteStep(d), ActsAlone(d, Writers)
    PROVE  Promise!Next \/ Stays
  <1> USE OpsAssumption DEF Ops
  <1>1. CASE FindForDelete(d)
    <2>1. pc[d] = "idle" /\ UNCHANGED <<rows, disk, req, body>>
      BY <1>1 DEF FindForDelete, MayBegin
    <2>2. ASSUME NEW r \in rows, found' = [found EXCEPT ![d] = r], Goto(d, "remove")
          PROVE  Promise!Next
      BY <2>1, <2>2, AllReadable, LookupAsks, RowsAreAssets
         DEF PhaseAt, AfterEffect, Ended, Readable, HonestInv
    <2>3. CASE UNCHANGED found /\ Goto(d, "err")
      BY <2>1, <2>3, OtherMoves DEF PhaseAt, Ended, OnDisk
    <2> QED BY <1>1, <2>2, <2>3 DEF FindForDelete
  <1>2. CASE RemoveFile(d)
    <2>1. /\ pc[d] = "remove" /\ found[d] \in rows /\ found[d] # None
          /\ UNCHANGED <<rows, req, found, body>>
      BY <1>2, NullAssumption DEF RemoveFile, SerialInv, FoundStands, TypeInv, TypeOK
    <2>2. CASE disk' = Without(found[d].path) /\ Goto(d, "erase")
      <3>1. AssetAsked(d) = AssetAt(found[d])
        BY <2>1 DEF AssetAsked
      <3>2. \A r \in rows : r \in Readable
        BY <2>1, AllReadable DEF Readable
      <3>3. Readable' = Readable \ {found[d]}
        BY <2>1, <2>2, <3>2
           DEF Readable, OnDisk, Without, SerialInv, Table, PathsDistinct
      <3>4. \A r \in Readable : AssetAt(r) = AssetAt(found[d]) => r = found[d]
        BY <2>1 DEF Readable, AssetAt, SerialInv, Table, OneRowPerContent
      <3>5. Kept' = Kept \ {AssetAsked(d)} /\ AssetAsked(d) \in Kept
        BY <2>1, <3>1, <3>2, <3>3, <3>4
      <3>6. Asked' = Asked
        BY <2>1 DEF AssetAsked
      <3>7. Phase[d] = "asked" /\ Phase' = [Phase EXCEPT ![d] = "done"]
        BY <2>1, <2>2, PhaseMoves DEF PhaseAt, AfterEffect, Ended, TypeInv
      <3>8. Promise!Remove(d)
        BY <2>1, <3>5, <3>6, <3>7 DEF Promise!Remove, Promise!Goto
      <3> QED BY <3>8 DEF Promise!Next
    <2>3. CASE UNCHANGED disk /\ Goto(d, "err")
      BY <2>1, <2>3, OtherMoves DEF PhaseAt, AfterEffect, Ended, OnDisk
    <2> QED BY <1>2, <2>2, <2>3 DEF RemoveFile
  <1>3. CASE EraseRow(d)
    <2>1. /\ pc[d] = "erase" /\ found[d] \in rows
          /\ ~OnDisk(found[d].path, found[d].hash)
          /\ rows' = {r \in rows : r.id # found[d].id}
          /\ UNCHANGED <<disk, req, found, body>>
      BY <1>3 DEF EraseRow, AtomicInv, ErasedGone
    <2>2. Goto(d, "logdel")
      BY <1>3, <2>1, NoOtherFault DEF EraseRow, HasRow
    <2>3. Readable' = Readable
      BY <2>1 DEF Readable, OnDisk, IdsDistinct
    <2>4. Kept' = Kept /\ Asked' = Asked
      BY <2>1, <2>3 DEF AssetAsked
    <2>5. Phase' = Phase
      BY <2>1, <2>2, PhaseStays DEF PhaseAt, AfterEffect, Ended, TypeInv
    <2> QED BY <2>1, <2>4, <2>5 DEF Stays
  <1>4. ~EraseFails(d)
    BY NoOtherFault DEF EraseFails
  <1>5. CASE LogDelete(d)
    BY <1>5, OtherMoves DEF LogDelete, PhaseAt, AfterEffect, Ended, OnDisk
  <1>6. CASE AnnounceDelete(d)
    BY <1>6, OtherMoves DEF AnnounceDelete, PhaseAt, AfterEffect, Ended, OnDisk
  <1> QED BY <1>1, <1>2, <1>3, <1>4, <1>5, <1>6 DEF DeleteStep

LEMMA StepSimulates ==
    ASSUME TypeInv, AckInv, IdsDistinct, HonestInv, SerialInv, ReadsInv, AtomicInv,
           ClientsWait, CallsAnswered, [Next]_vars
    PROVE  [Promise!Next]_Promise!vars
  <1>1. Stays => UNCHANGED Promise!vars
    BY DEF Stays, Promise!vars
  <1>2. ASSUME NEW u \in Uploads, UploadStep(u), ActsAlone(u, Writers)
        PROVE  Promise!Next \/ Stays
    BY <1>2, NoOtherFault, UploadHonours, UploadSimulates
  <1>3. ASSUME NEW g \in Reads, ReadStep(g)  PROVE Promise!Next \/ Stays
    <2>1. ActsAlone(g, Ops)
      BY <1>3, ReadMoves, WaitingActsAlone
         DEF ReadsInv, ClientsWait, WritersWait, Writers, Ops
    <2>2. \A d \in Deletes : pc[d] # "erase"
      BY <2>1, OpsAssumption DEF ActsAlone, Active, Ended, Ops
    <2>3. \A r \in rows : r \in Readable
      BY <2>2 DEF Readable, AtomicInv, GoneErased, SerialInv, Table, RowsReadable
    <2>4. pc[g] = "open" => found[g] \in rows
      BY DEF ReadsInv, ReadsStand
    <2>5. \A f \in disk : pc[g] = "open" /\ f.path = found[g].path => f.content = found[g].hash
      BY <2>4 DEF SerialInv, Table, FilesHonest
    <2> QED BY <1>3, <2>3, <2>4, <2>5, ReadSimulates DEF HonestInv
  <1>4. ASSUME UNCHANGED vars  PROVE Stays
    BY <1>4 DEF Stays, Readable, OnDisk, AssetAsked
  <1> QED
    BY <1>1, <1>2, <1>3, <1>4, DeleteSimulates, AloneOrNot DEF Alone, ClientsWait

\* Though its files, rows and events are written one after the other, with no
\* transaction around them, the pipeline is the library it promises to clients
\* that wait for their answers, as long as nothing fails but transfers and
\* file operations.
THEOREM LibraryKeptHolds == ASSUME ClientsWait, CallsAnswered PROVE Spec => LibraryKept
  <1>1. TypeInv /\ AckInv /\ (IdsDistinct /\ RowsOwned) /\ HonestInv /\ SerialInv /\ ReadsInv
          /\ AtomicInv /\ [Next]_vars => [Promise!Next]_Promise!vars
    BY StepSimulates
  <1>2. Spec => []HonestInv /\ []SerialInv /\ []AtomicInv
    BY HonestWriters, SerialInvHolds, AtomicInvHolds DEF ClientsWait
  <1> QED
    BY <1>1, <1>2, InitSimulates, TypeCorrect, AckInvHolds, IdsDistinctHolds, ReadsInvHolds, PTL
       DEF Spec, LibraryKept, Promise!Spec

-----------------------------------------------------------------------------
(* What the volume, transfer_events and the broadcast events say of        *)
(* media_assets. From the moment an upload has installed its file until it *)
(* is refused or has a row, that file has none.                            *)

Moved == {"unlink", "insert", "failing", "drop", "err"}

Named(f)      == \E r \in rows : f = [path |-> r.path, content |-> r.hash]
Leftover(f)   == \E u \in Uploads : dest[u] = f.path /\ pc[u] \in Moved
VolumeTells   == \A f \in disk : Named(f) \/ Leftover(f)

JournalInv == RowsStand /\ LedgerTells /\ VolumeTells /\ FeedTells

LEMMA JournalInit == Init => JournalInv
  BY OpsAssumption
     DEF Init, JournalInv, RowsStand, Owing, LedgerTells, VolumeTells,
         FeedTells, HasRow, Ops

-----------------------------------------------------------------------------
(* The steps of an upload.                                                 *)

\* Only a probe chooses where an upload goes.
LEMMA UploadKeepsDest ==
    ASSUME TypeInv, NEW u \in Uploads, UploadStep(u)
    PROVE  pc[u] \notin {"idle", "probe"} => dest'[u] = dest[u]
  <1> USE OpsAssumption DEF TypeInv, TypeOK, Ops
  <1>1. CASE Receive(u)           BY <1>1 DEF Receive, MayBegin
  <1>2. CASE ReceiveAll(u)        BY <1>2 DEF ReceiveAll
  <1>3. CASE ReceiveFails(u)      BY <1>3 DEF ReceiveFails
  <1>4. CASE LookupHit(u)         BY <1>4 DEF LookupHit
  <1>5. CASE LookupMiss(u)        BY <1>5 DEF LookupMiss
  <1>6. CASE Overwrite(u)         BY <1>6 DEF Overwrite
  <1>7. CASE Probe(u)             BY <1>7 DEF Probe
  <1>8. CASE MoveByRename(u)      BY <1>8 DEF MoveByRename
  <1>9. CASE CreateStage(u)       BY <1>9 DEF CreateStage
  <1>10. CASE CopyToStage(u)      BY <1>10 DEF CopyToStage
  <1>11. CASE InstallStage(u)     BY <1>11 DEF InstallStage
  <1>12. CASE UnlinkSource(u)     BY <1>12 DEF UnlinkSource
  <1>13. CASE MoveFails(u)        BY <1>13 DEF MoveFails
  <1>14. CASE Insert(u)           BY <1>14 DEF Insert
  <1>15. CASE InsertUnanswered(u) BY <1>15 DEF InsertUnanswered
  <1>16. CASE CallFails(u)        BY <1>16 DEF CallFails
  <1>17. CASE LogStored(u)        BY <1>17 DEF LogStored
  <1>18. CASE CleanupTemp(u)      BY <1>18 DEF CleanupTemp
  <1>19. CASE Announce(u)         BY <1>19 DEF Announce
  <1>20. CASE AnnouncePhoto(u)    BY <1>20 DEF AnnouncePhoto
  <1>21. CASE LogFailure(u)       BY <1>21 DEF LogFailure
  <1>22. CASE DropTemp(u)         BY <1>22 DEF DropTemp
  <1> QED BY <1>1, <1>2, <1>3, <1>4, <1>5, <1>6, <1>7, <1>8, <1>9, <1>10, <1>11, <1>12, <1>13,
           <1>14, <1>15, <1>16, <1>17, <1>18, <1>19, <1>20, <1>21, <1>22 DEF UploadStep

\* Only a move writes the volume.
LEMMA UploadWrites ==
    ASSUME TypeInv, HonestInv, NEW u \in Uploads, UploadStep(u)
    PROVE  \/ disk' = disk
           \/ /\ pc[u] \in {"move", "install"} /\ pc'[u] \in {"unlink", "insert"}
              /\ \E c \in Contents : disk' = Put(dest[u], c)
  <1> USE OpsAssumption DEF TypeInv, TypeOK, Locals, UploadLocals, HasTemp, HasStage, Ops
  <1>1. CASE Receive(u)           BY <1>1 DEF Receive, MayBegin
  <1>2. CASE ReceiveAll(u)        BY <1>2 DEF ReceiveAll
  <1>3. CASE ReceiveFails(u)      BY <1>3 DEF ReceiveFails
  <1>4. CASE LookupHit(u)         BY <1>4 DEF LookupHit
  <1>5. CASE LookupMiss(u)        BY <1>5 DEF LookupMiss
  <1>6. CASE Overwrite(u)         BY <1>6 DEF Overwrite
  <1>7. CASE Probe(u)             BY <1>7 DEF Probe
  <1>8. CASE MoveByRename(u)      BY <1>8 DEF MoveByRename
  <1>9. CASE CreateStage(u)       BY <1>9 DEF CreateStage
  <1>10. CASE CopyToStage(u)      BY <1>10, CopyKeepsDisk
  <1>11. CASE InstallStage(u)     BY <1>11 DEF InstallStage
  <1>12. CASE UnlinkSource(u)     BY <1>12 DEF UnlinkSource
  <1>13. CASE MoveFails(u)        BY <1>13 DEF MoveFails
  <1>14. CASE Insert(u)           BY <1>14 DEF Insert
  <1>15. CASE InsertUnanswered(u) BY <1>15 DEF InsertUnanswered
  <1>16. CASE CallFails(u)        BY <1>16 DEF CallFails
  <1>17. CASE LogStored(u)        BY <1>17 DEF LogStored
  <1>18. CASE CleanupTemp(u)      BY <1>18 DEF CleanupTemp
  <1>19. CASE Announce(u)         BY <1>19 DEF Announce
  <1>20. CASE AnnouncePhoto(u)    BY <1>20 DEF AnnouncePhoto
  <1>21. CASE LogFailure(u)       BY <1>21 DEF LogFailure
  <1>22. CASE DropTemp(u)         BY <1>22 DEF DropTemp
  <1> QED BY <1>1, <1>2, <1>3, <1>4, <1>5, <1>6, <1>7, <1>8, <1>9, <1>10, <1>11, <1>12, <1>13,
           <1>14, <1>15, <1>16, <1>17, <1>18, <1>19, <1>20, <1>21, <1>22 DEF UploadStep

\* An upload whose file was moved keeps it until it has a row or is refused.
LEMMA UploadStaysMoved ==
    ASSUME TypeInv, NEW u \in Uploads, UploadStep(u), pc[u] \in Moved
    PROVE  pc'[u] \in Moved \/ Enters(u)
  <1> USE OpsAssumption DEF TypeInv, TypeOK, Moved, Ops
  <1>1. CASE Receive(u)           BY <1>1 DEF Receive, MayBegin
  <1>2. CASE ReceiveAll(u)        BY <1>2 DEF ReceiveAll
  <1>3. CASE ReceiveFails(u)      BY <1>3 DEF ReceiveFails
  <1>4. CASE LookupHit(u)         BY <1>4 DEF LookupHit
  <1>5. CASE LookupMiss(u)        BY <1>5 DEF LookupMiss
  <1>6. CASE Overwrite(u)         BY <1>6 DEF Overwrite
  <1>7. CASE Probe(u)             BY <1>7 DEF Probe
  <1>8. CASE MoveByRename(u)      BY <1>8 DEF MoveByRename
  <1>9. CASE CreateStage(u)       BY <1>9 DEF CreateStage
  <1>10. CASE CopyToStage(u)      BY <1>10 DEF CopyToStage
  <1>11. CASE InstallStage(u)     BY <1>11 DEF InstallStage
  <1>12. CASE UnlinkSource(u)     BY <1>12 DEF UnlinkSource
  <1>13. CASE MoveFails(u)        BY <1>13 DEF MoveFails
  <1>14. CASE Insert(u)           BY <1>14 DEF Insert, Enters
  <1>15. CASE InsertUnanswered(u) BY <1>15 DEF InsertUnanswered
  <1>16. CASE CallFails(u)        BY <1>16 DEF CallFails
  <1>17. CASE LogStored(u)        BY <1>17 DEF LogStored
  <1>18. CASE CleanupTemp(u)      BY <1>18 DEF CleanupTemp
  <1>19. CASE Announce(u)         BY <1>19 DEF Announce
  <1>20. CASE AnnouncePhoto(u)    BY <1>20 DEF AnnouncePhoto
  <1>21. CASE LogFailure(u)       BY <1>21 DEF LogFailure
  <1>22. CASE DropTemp(u)         BY <1>22 DEF DropTemp
  <1> QED BY <1>1, <1>2, <1>3, <1>4, <1>5, <1>6, <1>7, <1>8, <1>9, <1>10, <1>11, <1>12, <1>13,
           <1>14, <1>15, <1>16, <1>17, <1>18, <1>19, <1>20, <1>21, <1>22 DEF UploadStep

LEMMA UploadVolumeTells ==
    ASSUME TypeInv, HonestInv, SerialInv, VolumeTells,
           NEW u \in Uploads, UploadStep(u), ActsAlone(u, Writers)
    PROVE  VolumeTells'
  <1> USE OpsAssumption DEF Ops
  <1>1. rows \subseteq rows'
    BY UploadAdds
  <1>2. ASSUME NEW f \in disk, Leftover(f)  PROVE Named(f)' \/ Leftover(f)'
    <2>1. PICK v \in Uploads : dest[v] = f.path /\ pc[v] \in Moved
      BY <1>2 DEF Leftover
    <2>2. CASE v # u
      BY <2>1, <2>2, UploadLeavesOthers DEF Rests, Leftover, ActsAlone, Ops
    <2>3. CASE v = u /\ ~Enters(u)
      BY <2>1, <2>3, UploadStaysMoved, UploadKeepsDest DEF Leftover, Moved
    <2>4. CASE v = u /\ Enters(u)
      <3>1. f.content = req[u].content /\ NewRow(u) \in rows'
        BY <2>1, <2>4 DEF Enters, Insert, SerialInv, Work, Carried
      <3>2. f = [path |-> f.path, content |-> f.content]
        BY DEF TypeInv, TypeOK
      <3> QED BY <2>1, <2>4, <3>1, <3>2 DEF Named, NewRow
    <2> QED BY <2>2, <2>3, <2>4
  <1>3. ASSUME NEW f \in disk, Named(f)  PROVE Named(f)'
    BY <1>1, <1>3 DEF Named
  <1>4. CASE disk' = disk
    BY <1>2, <1>3, <1>4 DEF VolumeTells
  <1>5. CASE /\ pc[u] \in {"move", "install"} /\ pc'[u] \in {"unlink", "insert"}
             /\ \E c \in Contents : disk' = Put(dest[u], c)
    <2>1. \A f \in disk' : f \in disk \/ f.path = dest[u]
      BY <1>5 DEF Put, Without
    <2>2. dest'[u] = dest[u]
      BY <1>5, UploadKeepsDest
    <2> QED BY <1>2, <1>3, <1>5, <2>1, <2>2 DEF VolumeTells, Leftover, Moved
  <1> QED BY <1>4, <1>5, UploadWrites

-----------------------------------------------------------------------------
(* The steps of a deletion and of a read.                                  *)

LEMMA DeleteJournal ==
    ASSUME TypeInv, IdsDistinct, SerialInv, AtomicInv, JournalInv, CallsAnswered,
           NEW d \in Deletes, DeleteStep(d), ActsAlone(d, Writers)
    PROVE  JournalInv'
  <1> USE OpsAssumption DEF Ops
  <1> USE DEF Writers
  <1>0. /\ \A o \in Writers \ {d} : pc'[o] = pc[o] /\ pc[o] \in Ended \cup {"idle"}
        /\ \A i : ~NewsOwed(i)
    BY DEF ActsAlone, Active, NewsOwed, Owing, Ended
  <1>1. /\ UNCHANGED <<req, dest>> /\ ledger \subseteq ledger'
        /\ \A u \in Uploads : found'[u] = found[u] /\ AssetOf(u)' = AssetOf(u)
    BY DEF DeleteStep, FindForDelete, RemoveFile, EraseRow, EraseFails, LogDelete,
           AnnounceDelete, Record, AssetOf, TypeInv, TypeOK
  <1>2. RowsStand'
    BY <1>0, <1>1 DEF JournalInv, RowsStand, Owing, Ended
  <1>3. LedgerTells'
    <2>1. pc'[d] \in {"announcedel", "ok"} => <<"deleted", d>> \in ledger'
      <3> USE DEF TypeInv, TypeOK
      <3>1. CASE FindForDelete(d)  BY <3>1 DEF FindForDelete
      <3>2. CASE RemoveFile(d)     BY <3>2 DEF RemoveFile
      <3>3. CASE EraseRow(d)       BY <3>3 DEF EraseRow
      <3>4. CASE EraseFails(d)     BY <3>4 DEF EraseFails
      <3>5. CASE LogDelete(d)      BY <3>5, NoOtherFault DEF LogDelete, Record
      <3>6. CASE AnnounceDelete(d) BY <3>6 DEF AnnounceDelete, JournalInv, LedgerTells
      <3> QED BY <3>1, <3>2, <3>3, <3>4, <3>5, <3>6 DEF DeleteStep
    <2> QED BY <1>0, <1>1, <2>1 DEF JournalInv, LedgerTells, Outcome
  <1>4. VolumeTells'
    <2>1. disk' \subseteq disk
      BY DEF DeleteStep, FindForDelete, RemoveFile, EraseRow, EraseFails, LogDelete,
             AnnounceDelete, Without
    <2>2. ASSUME NEW f \in disk', Leftover(f)  PROVE Leftover(f)'
      BY <1>0, <1>1, <2>2 DEF Leftover
    <2>3. ASSUME NEW f \in disk', Named(f)  PROVE Named(f)'
      <3>1. CASE rows' = rows
        BY <2>3, <3>1 DEF Named
      <3>2. CASE EraseRow(d)
        <4>1. PICK r \in rows : f = [path |-> r.path, content |-> r.hash]
          BY <2>3 DEF Named
        <4>2. found[d] \in rows /\ ~OnDisk(found[d].path, found[d].hash)
          BY <3>2 DEF EraseRow, AtomicInv, ErasedGone
        <4>3. r.id # found[d].id
          BY <2>1, <4>1, <4>2 DEF IdsDistinct, OnDisk
        <4> QED BY <3>2, <4>1, <4>3 DEF EraseRow, Named
      <3> QED
        BY <3>1, <3>2 DEF DeleteStep, FindForDelete, RemoveFile, EraseFails, LogDelete,
                          AnnounceDelete
    <2> QED BY <2>1, <2>2, <2>3 DEF JournalInv, VolumeTells
  <1>5. FeedTells'
    <2> USE DEF JournalInv, FeedTells
    <2>0. /\ \A e \in Deletes \ {d} : pc'[e] \notin {"logdel", "announcedel"}
                                      /\ pc[e] \notin {"logdel", "announcedel"}
          /\ \A u \in Uploads : pc'[u] # "announcephoto"
      BY <1>0 DEF Ended
    <2>1. CASE FindForDelete(d) \/ RemoveFile(d)
      <3>1. /\ UNCHANGED <<rows, lastEvent>> /\ pc[d] \notin {"logdel", "announcedel"}
            /\ pc'[d] \notin {"logdel", "announcedel"}
        BY <2>1 DEF FindForDelete, RemoveFile, MayBegin, TypeInv, TypeOK
      <3> QED BY <1>0, <2>0, <3>1 DEF EventTells, IsPhoto, HasRow, LossOwed
    <2>2. CASE EraseRow(d)
      <3>1. /\ rows' = {r \in rows : r.id # found[d].id} /\ UNCHANGED <<lastEvent, found>>
            /\ pc'[d] = "logdel" /\ pc[d] = "erase"
        BY <2>2, NoOtherFault DEF EraseRow, AtomicInv, ErasedGone, HasRow, TypeInv, TypeOK
      <3>2. \A i \in Uploads : ~HasRow(i)' /\ HasRow(i) => LossOwed(i)'
        BY <3>1 DEF HasRow, LossOwed
      <3>3. \A i \in Uploads : ~LossOwed(i)
        BY <2>0, <3>1 DEF LossOwed
      <3>4. ~HasRow(found[d].id)'
        BY <3>1 DEF HasRow
      <3> QED BY <1>0, <2>0, <3>1, <3>2, <3>3, <3>4 DEF EventTells, IsPhoto
    <2>3. CASE LogDelete(d)
      <3>1. /\ UNCHANGED <<rows, lastEvent, found>>
            /\ pc[d] = "logdel" /\ pc'[d] = "announcedel"
        BY <2>3 DEF LogDelete, TypeInv, TypeOK
      <3>2. \A i \in Uploads : LossOwed(i) => LossOwed(i)'
        BY <2>0, <3>1 DEF LossOwed
      <3> QED BY <1>0, <2>0, <3>1, <3>2 DEF EventTells, IsPhoto, HasRow
    <2>4. CASE AnnounceDelete(d)
      <3>1. /\ UNCHANGED <<rows, found>> /\ pc[d] = "announcedel" /\ pc'[d] = "ok"
            /\ lastEvent' = [lastEvent EXCEPT ![found[d].id] = "photo-deleted"]
        BY <2>4 DEF AnnounceDelete, TypeInv, TypeOK
      <3>2. \A i \in Uploads : LossOwed(i) => i = found[d].id
        BY <2>0 DEF LossOwed
      <3>3. \A r \in rows : r.id # found[d].id /\ r.id \in Uploads
        BY <3>1 DEF HasRow, TypeInv, TypeOK, Row
      <3> QED
        BY <1>0, <2>0, <3>1, <3>2, <3>3 DEF EventTells, IsPhoto, HasRow, TypeInv, TypeOK
    <2>5. ~EraseFails(d)
      BY NoOtherFault DEF EraseFails
    <2> QED BY <2>1, <2>2, <2>3, <2>4, <2>5 DEF DeleteStep
  <1> QED BY <1>2, <1>3, <1>4, <1>5 DEF JournalInv

LEMMA StillJournal ==
    ASSUME TypeInv, JournalInv,
           UNCHANGED <<rows, disk, ledger, lastEvent, req, dest>>,
           \A o \in Writers : pc'[o] = pc[o] /\ found'[o] = found[o]
    PROVE  JournalInv'
  <1> USE DEF Writers
  <1>1. \A u \in Uploads : AssetOf(u)' = AssetOf(u) /\ Outcome(u)' = Outcome(u)
    BY DEF AssetOf, Outcome
  <1>2. RowsStand' /\ LedgerTells' /\ VolumeTells'
    BY <1>1
       DEF JournalInv, RowsStand, RowStands, Matches, LedgerTells, VolumeTells,
           Named, Leftover
  <1>3. FeedTells'
    BY <1>1
       DEF JournalInv, FeedTells, EventTells, IsPhoto, HasRow, NewsOwed, LossOwed, PhotoSent
  <1> QED BY <1>2, <1>3 DEF JournalInv

LEMMA JournalInvNext ==
    ASSUME TypeInv, AckInv, IdsDistinct, FoundTells, HonestInv, SerialInv, AtomicInv, JournalInv,
           WritersWait, CallsAnswered, [Next]_vars
    PROVE  JournalInv'
  <1>1. ASSUME NEW u \in Uploads, UploadStep(u), ActsAlone(u, Writers)  PROVE JournalInv'
    <2>1. RowsStand' /\ LedgerTells'
      BY <1>1, NoOtherFault, UploadRowsStand, UploadLedgerTells DEF JournalInv, AtomicInv
    <2>2. VolumeTells'
      BY <1>1, UploadVolumeTells DEF JournalInv
    <2>3. \A d \in Deletes : pc[d] \notin {"logdel", "announcedel"}
      BY <1>1, OpsAssumption DEF ActsAlone, Active, Ended, Writers
    <2>4. FeedTells'
      BY <1>1, <2>3, NoOtherFault, UploadFeedTells DEF JournalInv
    <2> QED BY <2>1, <2>2, <2>4 DEF JournalInv
  <1>2. CASE \E g \in Reads : ReadStep(g)
    BY <1>2, ReadMoves, ReadLeavesWriters, StillJournal
  <1>3. CASE UNCHANGED vars
    BY <1>3, StillJournal
  <1> QED BY <1>1, <1>2, <1>3, DeleteJournal, AloneOrNot DEF Alone

LEMMA JournalInvHolds == ASSUME WritersWait, CallsAnswered PROVE Spec => []JournalInv
  <1>1. TypeInv /\ AckInv /\ (IdsDistinct /\ RowsOwned) /\ FoundTells /\ HonestInv /\ SerialInv
          /\ AtomicInv /\ JournalInv /\ [Next]_vars => JournalInv'
    BY JournalInvNext
  <1> QED
    BY <1>1, JournalInit, TypeCorrect, AckInvHolds, IdsDistinctHolds, FoundTellsHolds,
       HonestWriters, SerialInvHolds, AtomicInvHolds, PTL DEF Spec

-----------------------------------------------------------------------------
\* transfer_events tells the outcome of every answered upload and deletion.
THEOREM LedgerCompleteHolds ==
    ASSUME WritersWait, CallsAnswered PROVE Spec => []LedgerComplete
  <1>1. JournalInv => LedgerComplete
    BY DEF JournalInv, LedgerTells, LedgerComplete, Outcome
  <1> QED BY <1>1, JournalInvHolds, PTL

\* At rest, a listener that heard every event knows what the table says.
THEOREM FeedMatchesRowsHolds ==
    ASSUME WritersWait, CallsAnswered PROVE Spec => []FeedMatchesRows
  <1>1. ASSUME TypeInv, JournalInv, Quiet  PROVE \A i \in Uploads : ~NewsOwed(i) /\ ~LossOwed(i)
    BY <1>1 DEF Quiet, Active, Ended, NewsOwed, LossOwed, Owing, Ops
  <1>2. TypeInv /\ JournalInv => FeedMatchesRows
    BY <1>1 DEF FeedMatchesRows, JournalInv, FeedTells, EventTells, TypeInv, TypeOK, Row
  <1> QED BY <1>2, TypeCorrect, JournalInvHolds, PTL

\* At rest, the volume holds the file of every row, and besides only what
\* refused uploads had moved there.
THEOREM VolumeMatchesTableHolds ==
    ASSUME WritersWait, CallsAnswered PROVE Spec => []VolumeMatchesTable
  <1>1. ASSUME TypeInv, SerialInv, AtomicInv, JournalInv, Quiet
        PROVE  /\ \A r \in rows : OnDisk(r.path, r.hash)
               /\ \A f \in disk : Leftover(f) =>
                     \E u \in Uploads : pc[u] = "err" /\ dest[u] = f.path
    <2>1. \A d \in Deletes : pc[d] # "erase"
      BY <1>1 DEF Quiet, Active, Ended, Ops
    <2>2. \A r \in rows : OnDisk(r.path, r.hash)
      BY <1>1, <2>1 DEF AtomicInv, GoneErased, SerialInv, Table, RowsReadable
    <2>3. \A u \in Uploads : pc[u] \in Moved => pc[u] = "err"
      BY <1>1 DEF Quiet, Active, Ended, Moved, Ops
    <2> QED BY <2>2, <2>3 DEF Leftover
  <1>2. TypeInv /\ SerialInv /\ AtomicInv /\ JournalInv => VolumeMatchesTable
    BY <1>1 DEF VolumeMatchesTable, JournalInv, VolumeTells, Named, OnDisk
  <1> QED BY <1>2, TypeCorrect, SerialInvHolds, AtomicInvHolds, JournalInvHolds, PTL

\* When an upload is acknowledged its content is on the volume, at the path of
\* the row it inserted or overwrote.
THEOREM AckedStoredHolds ==
    ASSUME WritersWait, CallsAnswered PROVE Spec => AckedStored
  <1>1. ASSUME TypeInv, AckInv, SerialInv, AtomicInv, JournalInv, [Next]_vars,
               NEW u \in Uploads, pc[u] # "ok", pc'[u] = "ok"
        PROVE  \E r \in rows : r.id = AssetOf(u) /\ OnDisk(r.path, req[u].content)
    <2>1. UploadStep(u) /\ ActsAlone(u, Writers)
      BY <1>1, AloneOrNot, ReadLeavesWriters, OpsAssumption DEF Alone, ActsAlone, Writers
    <2>2. pc[u] \in Owing
      BY <1>1, <2>1, UploadSorts
         DEF Preparing, InsertUnanswered, Stands, Enters, Insert, LogStored, CleanupTemp,
             Announce, AnnouncePhoto, Owing, TypeInv, TypeOK, Ops
    <2>3. PICK r \in rows : r.id = AssetOf(u) /\ Matches(r, u)
      BY <1>1, <2>2 DEF JournalInv, RowsStand, RowStands
    <2>4. OnDisk(r.path, r.hash)
      BY <1>1, <2>1, <2>2, AllReadable DEF Owing
    <2> QED BY <2>3, <2>4 DEF Matches
  <1>2. TypeInv /\ AckInv /\ SerialInv /\ AtomicInv /\ JournalInv /\ [Next]_vars
          => [\A u \in Uploads : pc[u] # "ok" /\ pc'[u] = "ok" =>
                 \E r \in rows : r.id = AssetOf(u) /\ OnDisk(r.path, req[u].content)]_vars
    BY <1>1
  <1> QED
    BY <1>2, TypeCorrect, AckInvHolds, SerialInvHolds, AtomicInvHolds, JournalInvHolds, PTL
       DEF Spec, AckedStored
=============================================================================
