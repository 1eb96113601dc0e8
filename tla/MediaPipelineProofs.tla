------------------------ MODULE MediaPipelineProofs ------------------------
(***************************************************************************)
(* What holds of MediaPipeline for every set of operations, every fault    *)
(* and every interleaving.                                                 *)
(***************************************************************************)
EXTENDS MediaPipeline, TLAPS

-----------------------------------------------------------------------------
(* The values an operation at a given step relies on.                      *)

\* An upload that started has a request.
HasRequest(u) == pc[u] \in UploadSteps \cup {"ok"} => req[u] \in Request

\* From the end of the reception to the move, the temporary file is whole.
HasTemp(u) == pc[u] \in {"lookup", "overwrite", "probe", "move", "copy"}
                => tmp[u] \in Contents

\* The staged file is whole when it is installed, or an FTP client took it.
HasStage(u) == pc[u] = "install" => stage[u] \in Contents \cup {None}

HasDest(u) == pc[u] \in {"move", "copy", "install", "unlink", "insert"} => dest[u] \in Path

\* Labels belong to one kind of operation; its lookup returned a row.
UploadLocals(u) ==
    /\ HasRequest(u) /\ HasTemp(u) /\ HasStage(u) /\ HasDest(u)
    /\ pc[u] \in {"overwrite", "logover"} => found[u] \in Row
DeleteLocals(d) == pc[d] \in DeleteSteps => found[d] \in Row
ReadLocals(r)   == pc[r] = "open" => found[r] \in Row

Locals ==
    /\ \A u \in Uploads : UploadLocals(u)
    /\ \A d \in Deletes : DeleteLocals(d)
    /\ \A r \in Reads : ReadLocals(r)

TypeInv == TypeOK /\ Locals

-----------------------------------------------------------------------------

LEMMA SuffixType ==
    ASSUME NEW name \in FileName, NEW hash \in Contents
    PROVE  WithHashSuffix(name, hash) \in FileName
  BY DEF WithHashSuffix, FileName

LEMMA PathType ==
    ASSUME NEW dir \in Dirs, NEW name \in FileName, NEW hash \in Contents
    PROVE  StorageRelativePath(dir, name, hash) \subseteq Path
  BY SuffixType, RequestAssumption DEF StorageRelativePath, Path

-----------------------------------------------------------------------------
(* TypeInv is inductive.                                                   *)

USE DEF vars, stores, journal, history, locals, Goto, Data

LEMMA TypeInvInit == Init => TypeInv
  BY OpsAssumption DEF Init, TypeInv, TypeOK, Locals, Ops, Labels, UploadLocals, DeleteLocals,
     ReadLocals, HasRequest, HasTemp, HasStage, HasDest, UploadSteps, DeleteSteps, Ended

LEMMA UploadTypeInv ==
    ASSUME TypeInv, NEW u \in Uploads, UploadStep(u)
    PROVE  TypeInv'
  <1> USE OpsAssumption, RequestAssumption
          DEF TypeInv, TypeOK, Locals, Ops, Labels, UploadSteps, DeleteSteps, ReadSteps, Ended,
              UploadLocals, DeleteLocals, ReadLocals, HasRequest, HasTemp, HasStage, HasDest
  <1>1. CASE Receive(u)
    <2> USE <1>1 DEF Receive
    <2>1. TypeOK'  OBVIOUS
    <2>2. Locals'  OBVIOUS
    <2> QED BY <2>1, <2>2
  <1>2. CASE ReceiveAll(u)
    <2> USE <1>2 DEF ReceiveAll, Request
    <2>1. TypeOK'  OBVIOUS
    <2>2. Locals'  OBVIOUS
    <2> QED BY <2>1, <2>2
  <1>3. CASE ReceiveFails(u)
    <2> USE <1>3 DEF ReceiveFails, RemoveTemp, May
    <2>1. TypeOK'  OBVIOUS
    <2>2. Locals'  OBVIOUS
    <2> QED BY <2>1, <2>2
  <1>4. CASE LookupHit(u)
    <2> USE <1>4 DEF LookupHit
    <2>1. TypeOK'  OBVIOUS
    <2>2. Locals'  OBVIOUS
    <2> QED BY <2>1, <2>2
  <1>5. CASE LookupMiss(u)
    <2> USE <1>5 DEF LookupMiss
    <2>1. TypeOK'  OBVIOUS
    <2>2. Locals'  OBVIOUS
    <2> QED BY <2>1, <2>2
  <1>6. CASE Overwrite(u)
    <2> USE <1>6 DEF Overwrite
    <2>1. TypeOK'  OBVIOUS
    <2>2. Locals'  OBVIOUS
    <2> QED BY <2>1, <2>2
  <1>7. CASE Probe(u)
    <2> USE <1>7 DEF Probe
    <2>1. /\ req[u].dir \in Dirs /\ req[u].name \in FileName
          /\ req[u].content \in Contents
      BY DEF Request
    <2>2. /\ StorageRelativePath(req[u].dir, req[u].name, req[u].content) \subseteq Path
          /\ StorageRelativePath(req[u].dir, WithHashSuffix(req[u].name, req[u].content),
                                 req[u].content) \subseteq Path
      BY <2>1, PathType, SuffixType
    <2>3. \E p \in Path : dest' = [dest EXCEPT ![u] = p]
      BY <2>2
    <2>4. TypeOK'  BY <2>3
    <2>5. Locals'  BY <2>3
    <2> QED BY <2>4, <2>5
  <1>8. CASE MoveByRename(u)
    <2> USE <1>8 DEF MoveByRename, Put, Without
    <2>1. TypeOK'  OBVIOUS
    <2>2. Locals'  OBVIOUS
    <2> QED BY <2>1, <2>2
  <1>9. CASE CreateStage(u)
    <2> USE <1>9 DEF CreateStage
    <2>1. TypeOK'  OBVIOUS
    <2>2. Locals'  OBVIOUS
    <2> QED BY <2>1, <2>2
  <1>10. CASE CopyToStage(u)
    <2> USE <1>10 DEF CopyToStage
    <2>1. disk' \subseteq [path : Path, content : Data]  OBVIOUS
    <2>3. TypeOK'  BY <2>1
    <2>2. Locals'  OBVIOUS
    <2> QED BY <2>2, <2>3
  <1>11. CASE InstallStage(u)
    <2> USE <1>11 DEF InstallStage, Put, Without
    <2>1. TypeOK'  OBVIOUS
    <2>2. Locals'  OBVIOUS
    <2> QED BY <2>1, <2>2
  <1>12. CASE UnlinkSource(u)
    <2> USE <1>12 DEF UnlinkSource
    <2>1. TypeOK'  OBVIOUS
    <2>2. Locals'  OBVIOUS
    <2> QED BY <2>1, <2>2
  <1>13. CASE MoveFails(u)
    <2> USE <1>13 DEF MoveFails
    <2>1. TypeOK'  OBVIOUS
    <2>2. Locals'  OBVIOUS
    <2> QED BY <2>1, <2>2
  <1>14. CASE Insert(u)
    <2> USE <1>14 DEF Insert, NewRow, Request, Row
    <2>1. TypeOK'  OBVIOUS
    <2>2. Locals'  OBVIOUS
    <2> QED BY <2>1, <2>2
  <1>15. CASE InsertUnanswered(u)
    <2> USE <1>15 DEF InsertUnanswered, NewRow, Request, Row
    <2>1. TypeOK'  OBVIOUS
    <2>2. Locals'  OBVIOUS
    <2> QED BY <2>1, <2>2
  <1>16. CASE CallFails(u)
    <2> USE <1>16 DEF CallFails
    <2>1. TypeOK'  OBVIOUS
    <2>2. Locals'  OBVIOUS
    <2> QED BY <2>1, <2>2
  <1>17. CASE LogStored(u)
    <2> USE <1>17 DEF LogStored, Record
    <2>1. TypeOK'  OBVIOUS
    <2>2. Locals'  OBVIOUS
    <2> QED BY <2>1, <2>2
  <1>18. CASE CleanupTemp(u)
    <2> USE <1>18 DEF CleanupTemp, RemoveTemp
    <2>1. TypeOK'  OBVIOUS
    <2>2. Locals'  OBVIOUS
    <2> QED BY <2>1, <2>2
  <1>19. CASE Announce(u)
    <2> USE <1>19 DEF Announce, AssetOf, FeedEvents, Row
    <2>1. TypeOK'  OBVIOUS
    <2>2. Locals'  OBVIOUS
    <2> QED BY <2>1, <2>2
  <1>20. CASE AnnouncePhoto(u)
    <2> USE <1>20 DEF AnnouncePhoto, AssetOf, FeedEvents, Row
    <2>1. TypeOK'  OBVIOUS
    <2>2. Locals'  OBVIOUS
    <2> QED BY <2>1, <2>2
  <1>21. CASE LogFailure(u)
    <2> USE <1>21 DEF LogFailure, Record
    <2>1. TypeOK'  OBVIOUS
    <2>2. Locals'  OBVIOUS
    <2> QED BY <2>1, <2>2
  <1>22. CASE DropTemp(u)
    <2> USE <1>22 DEF DropTemp, RemoveTemp
    <2>1. TypeOK'  OBVIOUS
    <2>2. Locals'  OBVIOUS
    <2> QED BY <2>1, <2>2
  <1> QED BY <1>1, <1>2, <1>3, <1>4, <1>5, <1>6, <1>7, <1>8, <1>9, <1>10, <1>11, <1>12, <1>13, <1>14, <1>15, <1>16, <1>17, <1>18, <1>19, <1>20, <1>21, <1>22 DEF UploadStep

LEMMA DeleteTypeInv ==
    ASSUME TypeInv, NEW d \in Deletes, DeleteStep(d)
    PROVE  TypeInv'
  <1> USE OpsAssumption, RequestAssumption
          DEF TypeInv, TypeOK, Locals, Ops, Labels, UploadSteps, DeleteSteps, ReadSteps, Ended,
              UploadLocals, DeleteLocals, ReadLocals, HasRequest, HasTemp, HasStage, HasDest
  <1>1. CASE FindForDelete(d)
    <2> USE <1>1 DEF FindForDelete
    <2>1. TypeOK'  OBVIOUS
    <2>2. Locals'  OBVIOUS
    <2> QED BY <2>1, <2>2
  <1>2. CASE RemoveFile(d)
    <2> USE <1>2 DEF RemoveFile, Without, Row
    <2>1. TypeOK'  OBVIOUS
    <2>2. Locals'  OBVIOUS
    <2> QED BY <2>1, <2>2
  <1>3. CASE EraseRow(d)
    <2> USE <1>3 DEF EraseRow
    <2>1. TypeOK'  OBVIOUS
    <2>2. Locals'  OBVIOUS
    <2> QED BY <2>1, <2>2
  <1>4. CASE EraseFails(d)
    <2> USE <1>4 DEF EraseFails
    <2>1. TypeOK'  OBVIOUS
    <2>2. Locals'  OBVIOUS
    <2> QED BY <2>1, <2>2
  <1>5. CASE LogDelete(d)
    <2> USE <1>5 DEF LogDelete, Record
    <2>1. TypeOK'  OBVIOUS
    <2>2. Locals'  OBVIOUS
    <2> QED BY <2>1, <2>2
  <1>6. CASE AnnounceDelete(d)
    <2> USE <1>6 DEF AnnounceDelete, FeedEvents, Row
    <2>1. TypeOK'  OBVIOUS
    <2>2. Locals'  OBVIOUS
    <2> QED BY <2>1, <2>2
  <1> QED BY <1>1, <1>2, <1>3, <1>4, <1>5, <1>6 DEF DeleteStep

LEMMA ReadTypeInv ==
    ASSUME TypeInv, NEW r \in Reads, ReadStep(r)
    PROVE  TypeInv'
  <1> USE OpsAssumption, RequestAssumption
          DEF TypeInv, TypeOK, Locals, Ops, Labels, UploadSteps, DeleteSteps, ReadSteps, Ended,
              UploadLocals, DeleteLocals, ReadLocals, HasRequest, HasTemp, HasStage, HasDest
  <1>1. CASE FindForRead(r)
    <2> USE <1>1 DEF FindForRead
    <2>1. TypeOK'  OBVIOUS
    <2>2. Locals'  OBVIOUS
    <2> QED BY <2>1, <2>2
  <1>2. CASE ServeFile(r)
    <2> USE <1>2 DEF ServeFile
    <2>1. TypeOK'  OBVIOUS
    <2>2. Locals'  OBVIOUS
    <2> QED BY <2>1, <2>2
  <1> QED BY <1>1, <1>2 DEF ReadStep

LEMMA TypeInvNext == TypeInv /\ [Next]_vars => TypeInv'
  <1> SUFFICES ASSUME TypeInv, [Next]_vars  PROVE TypeInv'
    OBVIOUS
  <1> USE DEF TypeInv, TypeOK, Locals, Ops, Labels, UploadSteps, DeleteSteps, ReadSteps, Ended,
              UploadLocals, DeleteLocals, ReadLocals, HasRequest, HasTemp, HasStage, HasDest
  <1>1. CASE \E u \in Uploads : UploadStep(u)
    BY <1>1, UploadTypeInv
  <1>2. CASE \E d \in Deletes : DeleteStep(d)
    BY <1>2, DeleteTypeInv
  <1>3. CASE \E r \in Reads : ReadStep(r)
    BY <1>3, ReadTypeInv
  <1>4. CASE FtpDelete
    <2> USE <1>4 DEF FtpDelete, Without
    <2>1. TypeOK'  OBVIOUS
    <2>2. Locals'  OBVIOUS
    <2> QED BY <2>1, <2>2
  <1>5. CASE FtpRename
    <2> USE <1>5 DEF FtpRename
    <2>1. PICK p \in Path, c \in Data :
            disk' \subseteq disk \cup {[path |-> p, content |-> c]}
      <3>1. \A q \in Requests : [dir |-> q.dir, file |-> q.name] \in Path
        BY RequestAssumption DEF Request, Path
      <3> QED BY <3>1 DEF Put, Without
    <2>2. stage' \in [Uploads -> Data \cup {None}] /\ taken' \subseteq Uploads
      OBVIOUS
    <2>3. UNCHANGED <<rows, tmp, journal, unlinked, pc, locals>>
      OBVIOUS
    <2>4. TypeOK'  BY <2>1, <2>2, <2>3
    <2>5. \A u \in Uploads : stage'[u] \in {stage[u], None}
      OBVIOUS
    <2>6. Locals'  BY <2>3, <2>5
    <2> QED BY <2>4, <2>6
  <1>6. CASE Crash
    <2> USE <1>6 DEF Crash
    <2>1. TypeOK'  OBVIOUS
    <2>2. Locals'  BY DEF Active
    <2> QED BY <2>1, <2>2
  <1>7. CASE UNCHANGED vars
    BY <1>7
  <1> QED
    BY <1>1, <1>2, <1>3, <1>4, <1>5, <1>6, <1>7 DEF Next, Finished

\* Every variable keeps its type, and an operation that reached a step has the
\* request, the whole temporary file, the path or the row that step works on.
THEOREM TypeCorrect == Spec => []TypeInv
  <1> QED BY TypeInvInit, TypeInvNext, PTL DEF Spec

THEOREM TypeSafety == Spec => []TypeOK
  <1>1. TypeInv => TypeOK
    BY DEF TypeInv
  <1> QED BY <1>1, TypeCorrect, PTL

-----------------------------------------------------------------------------
(* Who writes the volume and the table of assets.                          *)

LEMMA DiskWriters ==
    ASSUME [Next]_vars
    PROVE  \/ \E u \in Uploads : MoveByRename(u) \/ CopyToStage(u) \/ InstallStage(u)
           \/ \E d \in Deletes : RemoveFile(d)
           \/ FtpDelete \/ FtpRename
           \/ UNCHANGED disk
  <1>1. ASSUME NEW u \in Uploads, UploadStep(u)
        PROVE  MoveByRename(u) \/ CopyToStage(u) \/ InstallStage(u) \/ UNCHANGED disk
    BY <1>1 DEF UploadStep, Receive, ReceiveAll, ReceiveFails, LookupHit, LookupMiss, Overwrite,
       Probe, CreateStage, UnlinkSource, MoveFails, Insert, InsertUnanswered, CallFails,
       LogStored, CleanupTemp, Announce, AnnouncePhoto, LogFailure, DropTemp
  <1>2. ASSUME NEW d \in Deletes, DeleteStep(d)
        PROVE  RemoveFile(d) \/ UNCHANGED disk
    BY <1>2 DEF DeleteStep, FindForDelete, EraseRow, EraseFails, LogDelete, AnnounceDelete
  <1>3. ASSUME NEW r \in Reads, ReadStep(r)
        PROVE  UNCHANGED disk
    BY <1>3 DEF ReadStep, FindForRead, ServeFile
  <1> QED
    BY <1>1, <1>2, <1>3 DEF Next, Crash, Finished

-----------------------------------------------------------------------------
(* No torn file.                                                           *)

\* Where an upload is while what it wrote is a part of the content.
TornSteps == {"copy", "failing", "drop", "err", "lost"}

\* A part that an upload wrote is in its staged file, unless a client renamed
\* that file; the upload copies the rest or never gets past its failure.
TornInv ==
    /\ \A f \in disk : f.content \in Uploads =>
          f.content \in taken /\ pc[f.content] \in TornSteps
    /\ \A u \in Uploads : stage[u] \in Uploads => stage[u] = u /\ pc[u] \in TornSteps

LEMMA UploadKeepsTornInv ==
    ASSUME TypeInv, TornInv, NEW u \in Uploads, UploadStep(u)
    PROVE  TornInv'
  <1> USE OpsAssumption, NullAssumption DEF TornInv, TornSteps, TypeOK, TypeInv, Ops
  <1>a. Locals
    OBVIOUS
  <1>1. CASE Receive(u)            BY <1>1 DEF Receive, MayBegin
  <1>2. CASE ReceiveAll(u)         BY <1>2 DEF ReceiveAll
  <1>3. CASE ReceiveFails(u)       BY <1>3 DEF ReceiveFails
  <1>4. CASE LookupHit(u)          BY <1>4 DEF LookupHit
  <1>5. CASE LookupMiss(u)         BY <1>5 DEF LookupMiss
  <1>6. CASE Overwrite(u)          BY <1>6 DEF Overwrite
  <1>7. CASE Probe(u)              BY <1>7 DEF Probe
  <1>8. CASE MoveByRename(u)
    BY <1>8 DEF MoveByRename, Put, Without, Locals, UploadLocals, HasTemp
  <1>9. CASE CreateStage(u)        BY <1>9 DEF CreateStage
  <1>10. CASE CopyToStage(u)
    <2>1. tmp[u] \in Contents
      BY <1>10 DEF CopyToStage, Locals, UploadLocals, HasTemp
    <2>2. \A f \in disk' : f.content \in Uploads => f.content # u /\ \E g \in disk : g.content = f.content
      BY <1>10, <2>1 DEF CopyToStage
    <2>3. \A v \in Uploads : stage'[v] \in Uploads => v # u /\ stage'[v] = stage[v]
      BY <1>10, <2>1 DEF CopyToStage
    <2>4. \A v \in Uploads \ {u} : pc'[v] = pc[v]
      BY <1>10 DEF CopyToStage
    <2>5. taken' = taken
      BY <1>10 DEF CopyToStage
    <2> QED BY <2>2, <2>3, <2>4, <2>5
  <1>11. CASE InstallStage(u)
    BY <1>11 DEF InstallStage, Put, Without, Locals, UploadLocals, HasStage
  <1>12. CASE UnlinkSource(u)      BY <1>12 DEF UnlinkSource
  <1>13. CASE MoveFails(u)         BY <1>13 DEF MoveFails
  <1>14. CASE Insert(u)            BY <1>14 DEF Insert
  <1>15. CASE InsertUnanswered(u)  BY <1>15 DEF InsertUnanswered
  <1>16. CASE CallFails(u)         BY <1>16 DEF CallFails
  <1>17. CASE LogStored(u)         BY <1>17 DEF LogStored
  <1>18. CASE CleanupTemp(u)       BY <1>18 DEF CleanupTemp
  <1>19. CASE Announce(u)          BY <1>19 DEF Announce
  <1>20. CASE AnnouncePhoto(u)     BY <1>20 DEF AnnouncePhoto
  <1>21. CASE LogFailure(u)        BY <1>21 DEF LogFailure
  <1>22. CASE DropTemp(u)          BY <1>22 DEF DropTemp
  <1> QED BY <1>1, <1>2, <1>3, <1>4, <1>5, <1>6, <1>7, <1>8, <1>9, <1>10, <1>11, <1>12, <1>13,
           <1>14, <1>15, <1>16, <1>17, <1>18, <1>19, <1>20, <1>21, <1>22 DEF UploadStep

LEMMA TornInvNext ==
    ASSUME TypeInv, TornInv, [Next]_vars
    PROVE  TornInv'
  <1> USE OpsAssumption, NullAssumption DEF TornInv, TornSteps, TypeOK, TypeInv, Ops
  <1>1. CASE \E u \in Uploads : UploadStep(u)
    BY <1>1, UploadKeepsTornInv
  <1>2. ASSUME NEW o \in Deletes \cup Reads, \A p \in Ops \ {o} : pc'[p] = pc[p],
               disk' \subseteq disk, UNCHANGED <<stage, taken>>
        PROVE  TornInv'
    BY <1>2
  <1>3. CASE \E d \in Deletes : DeleteStep(d)
    BY <1>2, <1>3
       DEF DeleteStep, FindForDelete, RemoveFile, Without, EraseRow, EraseFails, LogDelete,
           AnnounceDelete
  <1>4. CASE \E r \in Reads : ReadStep(r)
    BY <1>2, <1>4 DEF ReadStep, FindForRead, ServeFile
  <1>5. CASE FtpDelete
    BY <1>5 DEF FtpDelete, Without
  <1>6. CASE FtpRename
    <2> USE <1>6 DEF FtpRename
    <2>1. \A f \in disk' : \/ \E g \in disk : g.content = f.content
                           \/ \E u \in Uploads : f.content = stage[u] /\ u \in taken'
      BY DEF Put, Without
    <2>2. \A u \in Uploads : stage'[u] \in {stage[u], None}
      OBVIOUS
    <2>3. taken \subseteq taken' /\ UNCHANGED pc
      OBVIOUS
    <2> QED BY <2>1, <2>2, <2>3
  <1>7. CASE Crash
    BY <1>7 DEF Crash
  <1>8. CASE UNCHANGED vars
    BY <1>8
  <1> QED BY <1>1, <1>3, <1>4, <1>5, <1>6, <1>7, <1>8 DEF Next, Finished

\* Whatever fails, races or crashes, a file under its final name is whole,
\* unless an FTP client gave that name to the staged file of an upload; and
\* that upload is never acknowledged.
THEOREM NoTornFileHolds == Spec => []NoTornFile
  <1>1. Init => TornInv
    BY NullAssumption DEF Init, TornInv
  <1>2. TypeInv /\ TornInv /\ [Next]_vars => TornInv'
    BY TornInvNext
  <1>3. TornInv => NoTornFile
    BY DEF TornInv, TornSteps, NoTornFile
  <1> QED BY <1>1, <1>2, <1>3, TypeCorrect, PTL DEF Spec

-----------------------------------------------------------------------------
(* Acknowledged uploads are recorded.                                      *)

\* A row, present or looked up, describes what the upload of its id stored.
Describes(r) ==
    /\ req[r.id] \in Request
    /\ r.name = req[r.id].name /\ r.hash = req[r.id].content

\* Some asset with u's name and content stands, or lost its file to a deletion.
Recorded(u) ==
    \E i \in Uploads :
        /\ req[i] # None
        /\ req[i].name = req[u].name /\ req[i].content = req[u].content
        /\ HasRow(i) \/ i \in unlinked

StoredSteps == {"logup", "logover", "cleanup", "announce", "announcephoto", "ok"}

\* AckedRecorded alone is not inductive: what is recorded at the moment of the
\* INSERT or of the UPDATE has to survive until the answer. Rows disappear
\* only after their file did, and requests never change.
AckInv ==
    /\ \A u \in Uploads : req[u] # None => req[u] \in Request
    /\ \A u \in Uploads : pc[u] = "idle" => req[u] = None
    /\ \A r \in rows : Describes(r)
    /\ \A u \in Uploads : pc[u] = "overwrite" => Describes(found[u]) /\ Matches(found[u], u)
    /\ \A d \in Deletes : pc[d] = "erase" => found[d].id \in unlinked
    /\ \A u \in Uploads : pc[u] \in StoredSteps => Recorded(u)

\* Where an operation can have come from to be at a step.
Origins ==
    /\ \A o \in Ops : pc'[o] = "idle" => pc[o] = "idle"
    /\ \A u \in Uploads : pc'[u] = "overwrite" =>
          LookupHit(u) \/ (pc[u] = "overwrite" /\ found'[u] = found[u])
    /\ \A d \in Deletes : pc'[d] = "erase" =>
          RemoveFile(d) \/ (pc[d] = "erase" /\ found'[d] = found[d])
    /\ \A u \in Uploads : pc'[u] \in StoredSteps =>
          Insert(u) \/ Overwrite(u) \/ pc[u] \in StoredSteps

LEMMA StepOrigins ==
    ASSUME TypeOK, [Next]_vars  PROVE Origins
  <1> USE OpsAssumption DEF TypeOK, Origins, Ops, StoredSteps
  <1>1. CASE \E u \in Uploads : UploadStep(u)
    <2>1. PICK u \in Uploads : UploadStep(u)
      BY <1>1
    <2>2. CASE Receive(u) \/ ReceiveAll(u) \/ ReceiveFails(u)
      BY <2>2 DEF Receive, ReceiveAll, ReceiveFails, MayBegin
    <2>3. CASE LookupHit(u)
      BY <2>3 DEF LookupHit
    <2>4. CASE LookupMiss(u) \/ Probe(u)
      BY <2>4 DEF LookupMiss, Probe
    <2>5. CASE Overwrite(u)
      BY <2>5 DEF Overwrite
    <2>6. CASE MoveByRename(u) \/ CreateStage(u) \/ CopyToStage(u) \/ InstallStage(u)
      BY <2>6 DEF MoveByRename, CreateStage, CopyToStage, InstallStage
    <2>7. CASE UnlinkSource(u) \/ MoveFails(u) \/ CallFails(u) \/ InsertUnanswered(u)
      BY <2>7 DEF UnlinkSource, MoveFails, CallFails, InsertUnanswered
    <2>8. CASE Insert(u)
      BY <2>8 DEF Insert
    <2>9. CASE LogStored(u) \/ CleanupTemp(u)
      BY <2>9 DEF LogStored, CleanupTemp
    <2>10. CASE Announce(u) \/ AnnouncePhoto(u)
      BY <2>10 DEF Announce, AnnouncePhoto
    <2>11. CASE LogFailure(u) \/ DropTemp(u)
      BY <2>11 DEF LogFailure, DropTemp
    <2> QED
      BY <2>1, <2>2, <2>3, <2>4, <2>5, <2>6, <2>7, <2>8, <2>9, <2>10, <2>11 DEF UploadStep
  <1>2. CASE \E d \in Deletes : DeleteStep(d)
    <2>1. PICK d \in Deletes : DeleteStep(d)
      BY <1>2
    <2> QED
      BY <2>1 DEF DeleteStep, FindForDelete, MayBegin, RemoveFile, EraseRow, EraseFails,
         LogDelete, AnnounceDelete
  <1>3. CASE \E r \in Reads : ReadStep(r)
    <2>1. PICK r \in Reads : ReadStep(r)
      BY <1>3
    <2> QED
      BY <2>1 DEF ReadStep, FindForRead, MayBegin, ServeFile
  <1>4. CASE FtpDelete \/ FtpRename
    BY <1>4 DEF FtpDelete, FtpRename
  <1>5. CASE Crash
    BY <1>5 DEF Crash
  <1>6. CASE UNCHANGED vars
    BY <1>6
  <1> QED BY <1>1, <1>2, <1>3, <1>4, <1>5, <1>6 DEF Next, Finished

LEMMA RowWriters ==
    ASSUME [Next]_vars
    PROVE  \/ \E u \in Uploads : Insert(u) \/ InsertUnanswered(u)
           \/ \E d \in Deletes : EraseRow(d)
           \/ UNCHANGED rows
  <1>1. ASSUME NEW u \in Uploads, UploadStep(u)
        PROVE  Insert(u) \/ InsertUnanswered(u) \/ UNCHANGED rows
    BY <1>1 DEF UploadStep, Receive, ReceiveAll, ReceiveFails, LookupHit, LookupMiss, Overwrite,
       Probe, MoveByRename, CreateStage, CopyToStage, InstallStage, UnlinkSource, MoveFails,
       CallFails, LogStored, CleanupTemp, Announce, AnnouncePhoto, LogFailure, DropTemp
  <1>2. ASSUME NEW d \in Deletes, DeleteStep(d)
        PROVE  EraseRow(d) \/ UNCHANGED rows
    BY <1>2 DEF DeleteStep, FindForDelete, RemoveFile, EraseFails, LogDelete, AnnounceDelete
  <1>3. ASSUME NEW r \in Reads, ReadStep(r)
        PROVE  UNCHANGED rows
    BY <1>3 DEF ReadStep, FindForRead, ServeFile
  <1> QED
    BY <1>1, <1>2, <1>3 DEF Next, FtpDelete, FtpRename, Crash, Finished

LEMMA RequestWriters ==
    ASSUME [Next]_vars
    PROVE  (\E u \in Uploads : Receive(u)) \/ UNCHANGED req
  <1>1. ASSUME NEW u \in Uploads, UploadStep(u)
        PROVE  Receive(u) \/ UNCHANGED req
    BY <1>1 DEF UploadStep, ReceiveAll, ReceiveFails, LookupHit, LookupMiss, Overwrite,
       Probe, MoveByRename, CreateStage, CopyToStage, InstallStage, UnlinkSource, MoveFails,
       Insert, InsertUnanswered, CallFails, LogStored, CleanupTemp, Announce, AnnouncePhoto,
       LogFailure, DropTemp
  <1>2. ASSUME NEW d \in Deletes, DeleteStep(d)
        PROVE  UNCHANGED req
    BY <1>2 DEF DeleteStep, FindForDelete, RemoveFile, EraseRow, EraseFails, LogDelete,
       AnnounceDelete
  <1>3. ASSUME NEW r \in Reads, ReadStep(r)
        PROVE  UNCHANGED req
    BY <1>3 DEF ReadStep, FindForRead, ServeFile
  <1> QED
    BY <1>1, <1>2, <1>3 DEF Next, FtpDelete, FtpRename, Crash, Finished

LEMMA UnlinkedGrows ==
    ASSUME [Next]_vars
    PROVE  unlinked \subseteq unlinked'
  <1>1. ASSUME NEW u \in Uploads, UploadStep(u)
        PROVE  UNCHANGED unlinked
    BY <1>1 DEF UploadStep, Receive, ReceiveAll, ReceiveFails, LookupHit, LookupMiss, Overwrite,
       Probe, MoveByRename, CreateStage, CopyToStage, InstallStage, UnlinkSource, MoveFails,
       Insert, InsertUnanswered, CallFails, LogStored, CleanupTemp, Announce, AnnouncePhoto,
       LogFailure, DropTemp
  <1>2. ASSUME NEW d \in Deletes, DeleteStep(d)
        PROVE  unlinked \subseteq unlinked'
    BY <1>2 DEF DeleteStep, FindForDelete, RemoveFile, EraseRow, EraseFails, LogDelete,
       AnnounceDelete
  <1>3. ASSUME NEW r \in Reads, ReadStep(r)
        PROVE  UNCHANGED unlinked
    BY <1>3 DEF ReadStep, FindForRead, ServeFile
  <1> QED
    BY <1>1, <1>2, <1>3 DEF Next, FtpDelete, FtpRename, Crash, Finished

\* A request, once made, does not change.
LEMMA RequestsKept ==
    ASSUME AckInv, [Next]_vars, TypeInv, NEW i \in Uploads, req[i] # None
    PROVE  req'[i] = req[i]
  <1>1. CASE \E u \in Uploads : Receive(u)
    BY <1>1 DEF Receive, MayBegin, AckInv, TypeInv, TypeOK
  <1> QED BY <1>1, RequestWriters

\* An asset stands until DeletePhoto has removed its file.
LEMMA AssetsKept ==
    ASSUME AckInv, [Next]_vars, TypeInv, NEW i \in Uploads, HasRow(i) \/ i \in unlinked
    PROVE  (HasRow(i) \/ i \in unlinked)'
  <1> USE DEF HasRow
  <1>1. CASE \E u \in Uploads : Insert(u) \/ InsertUnanswered(u)
    BY <1>1, UnlinkedGrows DEF Insert, InsertUnanswered
  <1>2. CASE \E d \in Deletes : EraseRow(d)
    <2>1. PICK d \in Deletes : EraseRow(d)
      BY <1>2
    <2>2. found[d].id \in unlinked
      BY <2>1 DEF EraseRow, AckInv
    <2> QED BY <2>1, <2>2, UnlinkedGrows DEF EraseRow
  <1> QED BY <1>1, <1>2, RowWriters, UnlinkedGrows

LEMMA RecordedKept ==
    ASSUME AckInv, [Next]_vars, TypeInv, NEW u \in Uploads, req[u] # None, Recorded(u)
    PROVE  Recorded(u)'
  <1>1. PICK i \in Uploads :
          /\ req[i] # None
          /\ req[i].name = req[u].name /\ req[i].content = req[u].content
          /\ HasRow(i) \/ i \in unlinked
    BY DEF Recorded
  <1>2. req'[i] = req[i] /\ req'[u] = req[u]
    BY <1>1, RequestsKept
  <1>3. (HasRow(i) \/ i \in unlinked)'
    BY <1>1, AssetsKept
  <1> QED BY <1>1, <1>2, <1>3 DEF Recorded

LEMMA DescribesKept ==
    ASSUME AckInv, [Next]_vars, TypeInv, NEW r \in Row, Describes(r)
    PROVE  Describes(r)' /\ req'[r.id] = req[r.id]
  BY RequestsKept, NullAssumption DEF Describes, Row

LEMMA AckInvNext ==
    ASSUME AckInv, [Next]_vars, TypeInv  PROVE AckInv'
  <1> USE DEF AckInv
  <1>0. Origins
    BY StepOrigins DEF TypeInv
  <1>1. \A u \in Uploads : req'[u] # None => req'[u] \in Request
    <2>1. CASE \E u \in Uploads : Receive(u)
      BY <2>1, RequestAssumption DEF Receive, TypeInv, TypeOK
    <2> QED BY <2>1, RequestWriters
  <1>2. \A u \in Uploads : pc'[u] = "idle" => req'[u] = None
    <2>1. CASE \E u \in Uploads : Receive(u)
      BY <2>1, <1>0 DEF Receive, TypeInv, TypeOK, Origins, Ops
    <2> QED BY <2>1, <1>0, RequestWriters DEF Origins, Ops
  <1>3. \A r \in rows' : Describes(r)'
    <2>1. CASE \E u \in Uploads : Insert(u) \/ InsertUnanswered(u)
      <3>1. PICK u \in Uploads : Insert(u) \/ InsertUnanswered(u)
        BY <2>1
      <3>2. req[u] \in Request /\ UNCHANGED req
        BY <3>1 DEF Insert, InsertUnanswered, TypeInv, Locals, UploadLocals, HasRequest, UploadSteps
      <3>3. rows' \subseteq rows \cup {NewRow(u)}
        BY <3>1 DEF Insert, InsertUnanswered
      <3>4. ASSUME NEW r, r = NewRow(u)  PROVE Describes(r)'
        BY <3>2, <3>4 DEF Describes, NewRow
      <3> QED BY <3>2, <3>3, <3>4 DEF Describes
    <2>2. CASE rows' \subseteq rows
      BY <2>2, DescribesKept DEF TypeInv, TypeOK
    <2>3. CASE \E d \in Deletes : EraseRow(d)
      BY <2>2, <2>3 DEF EraseRow
    <2> QED BY <2>1, <2>2, <2>3, RowWriters
  <1>4. ASSUME NEW u \in Uploads, pc'[u] = "overwrite"
        PROVE  Describes(found[u])' /\ Matches(found[u], u)'
    <2>1. CASE LookupHit(u)
      BY <2>1 DEF LookupHit, Describes, Matches, TypeInv, TypeOK, Ops
    <2>2. CASE pc[u] = "overwrite" /\ found'[u] = found[u]
      <3>1. found[u] \in Row /\ req[u] \in Request
        BY <2>2 DEF TypeInv, Locals, UploadLocals, HasRequest, UploadSteps
      <3>2. req'[u] = req[u]
        BY <3>1, RequestsKept, NullAssumption
      <3>3. Describes(found[u]) /\ req'[found[u].id] = req[found[u].id]
        BY <2>2, <3>1, DescribesKept
      <3> QED BY <2>2, <3>2, <3>3 DEF Matches, Describes
    <2> QED BY <2>1, <2>2, <1>0, <1>4 DEF Origins
  <1>5. ASSUME NEW d \in Deletes, pc'[d] = "erase"
        PROVE  found'[d].id \in unlinked'
    <2>1. CASE RemoveFile(d)
      BY <2>1, <1>5 DEF RemoveFile, TypeInv, TypeOK, Ops
    <2>2. CASE pc[d] = "erase" /\ found'[d] = found[d]
      BY <2>2, UnlinkedGrows
    <2> QED BY <2>1, <2>2, <1>0, <1>5 DEF Origins
  <1>6. ASSUME NEW u \in Uploads, pc'[u] \in StoredSteps
        PROVE  Recorded(u)'
    <2>1. CASE pc[u] \in StoredSteps
      <3>1. req[u] # None
        BY <2>1, NullAssumption
           DEF StoredSteps, TypeInv, Locals, UploadLocals, HasRequest, UploadSteps
      <3> QED BY <2>1, <3>1, RecordedKept
    <2>2. CASE Insert(u) /\ pc[u] \notin StoredSteps
      <3>1. NewRow(u) \in rows' /\ UNCHANGED req
        BY <2>2, <1>6 DEF Insert, StoredSteps, TypeInv, TypeOK, Ops
      <3>2. req[u] # None
        BY <2>2, NullAssumption DEF Insert, TypeInv, Locals, UploadLocals, HasRequest, UploadSteps
      <3> QED BY <3>1, <3>2 DEF Recorded, HasRow, NewRow
    <2>3. CASE Overwrite(u) /\ pc[u] \notin StoredSteps
      <3>1. /\ HasRow(found[u].id) /\ Describes(found[u]) /\ Matches(found[u], u)
            /\ found[u] \in Row
        BY <2>3, <1>6
           DEF Overwrite, StoredSteps, TypeInv, TypeOK, Ops, Locals, UploadLocals
      <3>2. UNCHANGED <<rows, req, unlinked>>
        BY <2>3 DEF Overwrite
      <3>3. req[found[u].id] # None
        BY <3>1, NullAssumption DEF Describes
      <3>4. Recorded(u)
        BY <3>1, <3>3 DEF Recorded, Describes, Matches, Row
      <3> QED BY <3>4, <3>2 DEF Recorded, HasRow
    <2> QED BY <2>1, <2>2, <2>3, <1>0, <1>6 DEF Origins
  <1> QED BY <1>1, <1>2, <1>3, <1>4, <1>5, <1>6

LEMMA AckInvHolds == Spec => []AckInv
  <1>1. Init => AckInv
    BY OpsAssumption DEF Init, AckInv, StoredSteps, Ops
  <1>2. TypeInv /\ AckInv /\ [Next]_vars => AckInv'
    BY AckInvNext
  <1> QED BY <1>1, <1>2, TypeCorrect, PTL DEF Spec

\* No interleaving, fault or restart has the server acknowledge an upload it
\* neither recorded nor found recorded.
THEOREM AckedRecordedHolds == Spec => []AckedRecorded
  <1>1. AckInv => AckedRecorded
    BY DEF AckInv, AckedRecorded, Recorded, StoredSteps
  <1> QED BY <1>1, AckInvHolds, PTL

-----------------------------------------------------------------------------
(* A refused upload leaves nothing.                                        *)

\* The steps at which an upload can own a row, and a staged file. A crash
\* leaves both behind.
MayOwnRow   == {"logup", "announce", "announcephoto", "ok", "lost"}
MayOwnStage == {"copy", "install", "lost"}

CleanInv == \A u \in Uploads :
    /\ HasRow(u) => pc[u] \in MayOwnRow
    /\ stage[u] # None => pc[u] \in MayOwnStage
    /\ pc[u] \in {"idle", "err"} => tmp[u] = None

\* File operations do not fail and statements are answered.
FilesAnswered == ~May({"fs"}) /\ ~May({"reply"})

LEMMA UploadKeepsClean ==
    ASSUME TypeOK, CleanInv, FilesAnswered, NEW u \in Uploads, UploadStep(u)
    PROVE  CleanInv'
  <1> USE OpsAssumption DEF CleanInv, MayOwnRow, MayOwnStage, HasRow, FilesAnswered, TypeOK, Ops
  <1>1. CASE Receive(u)            BY <1>1 DEF Receive, MayBegin
  <1>2. CASE ReceiveAll(u)         BY <1>2 DEF ReceiveAll
  <1>3. CASE ReceiveFails(u)       BY <1>3 DEF ReceiveFails, RemoveTemp
  <1>4. CASE LookupHit(u)          BY <1>4 DEF LookupHit
  <1>5. CASE LookupMiss(u)         BY <1>5 DEF LookupMiss
  <1>6. CASE Overwrite(u)          BY <1>6 DEF Overwrite
  <1>7. CASE Probe(u)              BY <1>7 DEF Probe
  <1>8. CASE MoveByRename(u)       BY <1>8 DEF MoveByRename
  <1>9. CASE CreateStage(u)        BY <1>9 DEF CreateStage
  <1>10. CASE CopyToStage(u)       BY <1>10 DEF CopyToStage
  <1>11. CASE InstallStage(u)      BY <1>11 DEF InstallStage
  <1>12. CASE UnlinkSource(u)      BY <1>12 DEF UnlinkSource
  <1>13. CASE MoveFails(u)         BY <1>13 DEF MoveFails
  <1>14. CASE Insert(u)            BY <1>14 DEF Insert, NewRow
  <1>15. ~InsertUnanswered(u)      BY DEF InsertUnanswered
  <1>16. CASE CallFails(u)         BY <1>16 DEF CallFails
  <1>17. CASE LogStored(u)         BY <1>17 DEF LogStored
  <1>18. CASE CleanupTemp(u)       BY <1>18 DEF CleanupTemp, RemoveTemp
  <1>19. CASE Announce(u)          BY <1>19 DEF Announce
  <1>20. CASE AnnouncePhoto(u)     BY <1>20 DEF AnnouncePhoto
  <1>21. CASE LogFailure(u)        BY <1>21 DEF LogFailure
  <1>22. CASE DropTemp(u)          BY <1>22 DEF DropTemp, RemoveTemp
  <1> QED BY <1>1, <1>2, <1>3, <1>4, <1>5, <1>6, <1>7, <1>8, <1>9, <1>10, <1>11, <1>12, <1>13,
           <1>14, <1>15, <1>16, <1>17, <1>18, <1>19, <1>20, <1>21, <1>22 DEF UploadStep

LEMMA CleanInvNext ==
    ASSUME TypeOK, CleanInv, FilesAnswered, [Next]_vars
    PROVE  CleanInv'
  <1> USE OpsAssumption DEF CleanInv, MayOwnRow, MayOwnStage, HasRow, TypeOK, Ops
  <1>1. CASE \E u \in Uploads : UploadStep(u)
    BY <1>1, UploadKeepsClean
  <1>2. ASSUME NEW o \in Deletes \cup Reads, \A p \in Ops \ {o} : pc'[p] = pc[p],
               rows' \subseteq rows, UNCHANGED <<tmp, stage>>
        PROVE  CleanInv'
    BY <1>2
  <1>3. CASE \E d \in Deletes : DeleteStep(d)
    BY <1>2, <1>3
       DEF DeleteStep, FindForDelete, RemoveFile, EraseRow, EraseFails, LogDelete, AnnounceDelete
  <1>4. CASE \E r \in Reads : ReadStep(r)
    BY <1>2, <1>4 DEF ReadStep, FindForRead, ServeFile
  <1>5. CASE FtpDelete \/ FtpRename
    <2>1. /\ \A u \in Uploads : stage'[u] \in {stage[u], None}
          /\ UNCHANGED <<rows, tmp, pc>>
      BY <1>5 DEF FtpDelete, FtpRename
    <2> QED BY <2>1
  <1>6. CASE Crash
    BY <1>6 DEF Crash, Active, Ended
  <1>7. CASE UNCHANGED vars
    BY <1>7
  <1> QED BY <1>1, <1>3, <1>4, <1>5, <1>6, <1>7 DEF Next, Finished

\* Whatever races it, a refused upload leaves no row, no temporary and no staged
\* file, as long as files can be removed and statements are answered.
THEOREM RefusedLeavesNothingHolds ==
    ASSUME FilesAnswered PROVE Spec => []RefusedLeavesNothing
  <1>1. Init => CleanInv
    BY OpsAssumption DEF Init, CleanInv, HasRow, Ops
  <1>2. TypeInv /\ CleanInv /\ [Next]_vars => CleanInv'
    BY CleanInvNext DEF TypeInv
  <1>3. CleanInv => RefusedLeavesNothing
    BY DEF CleanInv, RefusedLeavesNothing, MayOwnRow, MayOwnStage
  <1> QED BY <1>1, <1>2, <1>3, TypeCorrect, PTL DEF Spec
=============================================================================
