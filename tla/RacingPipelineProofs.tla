------------------------ MODULE RacingPipelineProofs ------------------------
(***************************************************************************)
(* What holds of MediaPipeline when its operations overlap in any way: for *)
(* any number of uploads and reads, with deletions and files that FTP      *)
(* clients remove or rename where the theorem does not exclude them.       *)
(***************************************************************************)
EXTENDS MediaPipelineProofs, PipelineRefinement

USE DEF vars, stores, journal, history, locals, Goto

-----------------------------------------------------------------------------
(* What a step leaves alone.                                               *)

\* Nothing happens to an upload but that the process dies, or that an FTP
\* client takes its staged file.
Rests(u) ==
    /\ pc'[u] \in {pc[u], "lost"}
    /\ tmp'[u] = tmp[u] /\ stage'[u] \in {stage[u], None}
    /\ req'[u] = req[u] /\ found'[u] = found[u] /\ dest'[u] = dest[u]

LEMMA UploadLeavesOthers ==
    ASSUME TypeInv, NEW u \in Uploads, UploadStep(u)
    PROVE  /\ \A v \in Uploads \ {u} : Rests(v)
           /\ \A o \in Ops \ {u} : pc'[o] = pc[o] /\ found'[o] = found[o]
           /\ UNCHANGED <<unlinked, body>>
  <1> USE OpsAssumption DEF TypeInv, TypeOK, Rests, Ops
  <1>1. CASE Receive(u)           BY <1>1 DEF Receive, MayBegin
  <1>2. CASE ReceiveAll(u)        BY <1>2 DEF ReceiveAll
  <1>3. CASE ReceiveFails(u)      BY <1>3 DEF ReceiveFails, RemoveTemp
  <1>4. CASE LookupHit(u)         BY <1>4 DEF LookupHit
  <1>5. CASE LookupMiss(u)        BY <1>5 DEF LookupMiss
  <1>6. CASE Overwrite(u)         BY <1>6 DEF Overwrite
  <1>7. CASE Probe(u)             BY <1>7 DEF Probe
  <1>8. CASE MoveByRename(u)      BY <1>8 DEF MoveByRename
  <1>9. CASE CreateStage(u)       BY <1>9 DEF CreateStage
  <1>10. CASE CopyToStage(u)      BY <1>10 DEF CopyToStage
  <1>11. CASE InstallStage(u)     BY <1>11 DEF InstallStage
  <1>12. CASE UnlinkSource(u)     BY <1>12 DEF UnlinkSource
  <1>13. CASE MoveFails(u)        BY <1>13 DEF MoveFails
  <1>14. CASE Insert(u)           BY <1>14 DEF Insert
  <1>15. CASE InsertUnanswered(u) BY <1>15 DEF InsertUnanswered
  <1>16. CASE CallFails(u)        BY <1>16 DEF CallFails
  <1>17. CASE LogStored(u)        BY <1>17 DEF LogStored
  <1>18. CASE CleanupTemp(u)      BY <1>18 DEF CleanupTemp, RemoveTemp
  <1>19. CASE Announce(u)         BY <1>19 DEF Announce
  <1>20. CASE AnnouncePhoto(u)    BY <1>20 DEF AnnouncePhoto
  <1>21. CASE LogFailure(u)       BY <1>21 DEF LogFailure
  <1>22. CASE DropTemp(u)         BY <1>22 DEF DropTemp, RemoveTemp
  <1> QED BY <1>1, <1>2, <1>3, <1>4, <1>5, <1>6, <1>7, <1>8, <1>9, <1>10, <1>11, <1>12, <1>13,
           <1>14, <1>15, <1>16, <1>17, <1>18, <1>19, <1>20, <1>21, <1>22 DEF UploadStep

LEMMA UploadsRest ==
    ASSUME TypeInv, [Next]_vars, NEW u \in Uploads
    PROVE  UploadStep(u) \/ Rests(u)
  <1> USE OpsAssumption DEF TypeInv, TypeOK, Rests, Ops
  <1>1. CASE \E v \in Uploads : UploadStep(v)
    BY <1>1, UploadLeavesOthers
  <1>2. CASE \E d \in Deletes : DeleteStep(d)
    BY <1>2 DEF DeleteStep, FindForDelete, RemoveFile, EraseRow, EraseFails, LogDelete,
       AnnounceDelete
  <1>3. CASE \E r \in Reads : ReadStep(r)
    BY <1>3 DEF ReadStep, FindForRead, ServeFile
  <1>4. CASE FtpDelete \/ FtpRename
    BY <1>4 DEF FtpDelete, FtpRename
  <1>5. CASE Crash
    BY <1>5 DEF Crash
  <1>6. CASE UNCHANGED vars
    BY <1>6
  <1> QED BY <1>1, <1>2, <1>3, <1>4, <1>5, <1>6 DEF Next, Finished

\* Reads look a row up, then open its file.
LEMMA ReadsRest ==
    ASSUME TypeInv, [Next]_vars, NEW g \in Reads
    PROVE  \/ ReadStep(g)
           \/ /\ pc'[g] \in {pc[g], "lost"}
              /\ found'[g] = found[g] /\ body'[g] = body[g]
  <1> USE OpsAssumption DEF TypeInv, TypeOK, Ops
  <1>1. CASE \E v \in Uploads : UploadStep(v)
    BY <1>1, UploadLeavesOthers
  <1>2. CASE \E d \in Deletes : DeleteStep(d)
    BY <1>2 DEF DeleteStep, FindForDelete, RemoveFile, EraseRow, EraseFails, LogDelete,
       AnnounceDelete
  <1>3. CASE \E r \in Reads : ReadStep(r)
    BY <1>3 DEF ReadStep, FindForRead, ServeFile
  <1>4. CASE FtpDelete \/ FtpRename
    BY <1>4 DEF FtpDelete, FtpRename
  <1>5. CASE Crash
    BY <1>5 DEF Crash
  <1>6. CASE UNCHANGED vars
    BY <1>6
  <1> QED BY <1>1, <1>2, <1>3, <1>4, <1>5, <1>6 DEF Next, Finished

-----------------------------------------------------------------------------
(* Names and paths. A path holds the name, with no suffix, one or two; with *)
(* a suffix it tells for which name and hash it was made.                  *)

Once(name, hash)  == WithHashSuffix(name, hash)
Twice(name, hash) == WithHashSuffix(WithHashSuffix(name, hash), hash)
Fits(file, name, hash) == file \in {name, Once(name, hash), Twice(name, hash)}

LEMMA MarksTell ==
    ASSUME NEW h \in Contents, NEW k \in Contents
    PROVE  /\ Append(<<>>, h) # <<>>
           /\ Append(Append(<<>>, h), h) # <<>>
           /\ Append(<<>>, h) = Append(<<>>, k) => h = k
           /\ Append(Append(<<>>, h), h) = Append(Append(<<>>, k), k) => h = k
           /\ Append(Append(<<>>, h), h) # Append(<<>>, k)
  <1> DEFINE one(c) == Append(<<>>, c)
             two(c) == Append(one(c), c)
  <1>1. \A c \in Contents : /\ one(c) \in Seq(Contents) /\ Len(one(c)) = 1 /\ one(c)[1] = c
    OBVIOUS
  <1>2. \A c \in Contents : Len(two(c)) = 2 /\ two(c)[1] = c
    BY <1>1
  <1>3. Len(<<>>) = 0
    OBVIOUS
  <1> HIDE DEF one, two
  <1>4. /\ Len(one(h)) = 1 /\ one(h)[1] = h /\ Len(one(k)) = 1 /\ one(k)[1] = k
        /\ Len(two(h)) = 2 /\ two(h)[1] = h /\ two(k)[1] = k
    BY <1>1, <1>2
  <1>5. one(h) # <<>> /\ two(h) # <<>> /\ two(h) # one(k)
    BY <1>3, <1>4
  <1>6. (one(h) = one(k) => h = k) /\ (two(h) = two(k) => h = k)
    BY <1>4
  <1> QED BY <1>5, <1>6 DEF one, two

LEMMA SuffixTells ==
    ASSUME NEW n \in FileName, NEW h \in Contents, n.marks = <<>>,
           NEW m \in FileName, NEW k \in Contents, m.marks = <<>>,
           NEW file, Fits(file, n, h), file \in {Once(m, k), Twice(m, k)}
    PROVE  n = m /\ h = k
  <1>1. /\ n = [stem |-> n.stem, marks |-> <<>>] /\ m = [stem |-> m.stem, marks |-> <<>>]
    BY DEF FileName
  <1>2. /\ Once(n, h) = [stem |-> n.stem, marks |-> Append(<<>>, h)]
        /\ Once(m, k) = [stem |-> m.stem, marks |-> Append(<<>>, k)]
        /\ Twice(n, h) = [stem |-> n.stem, marks |-> Append(Append(<<>>, h), h)]
        /\ Twice(m, k) = [stem |-> m.stem, marks |-> Append(Append(<<>>, k), k)]
    BY DEF Once, Twice, WithHashSuffix
  <1>3. file.marks # <<>> /\ file.stem = m.stem
    BY <1>2, MarksTell
  <1>4. file \in {Once(n, h), Twice(n, h)} /\ file.stem = n.stem
    BY <1>1, <1>2, <1>3 DEF Fits
  <1>5. h = k
    BY <1>2, <1>4, MarksTell
  <1> QED BY <1>1, <1>3, <1>4, <1>5

\* In every directory but the root a name stands for one content: an upload
\* may be sent again, at the same time even, but not changed. And no client
\* gives a file a name with a hash suffix.
OneContentPerPath ==
    /\ \A q \in Requests : q.name.marks = <<>>
    /\ \A p, q \in Requests :
          p.dir # Root /\ p.dir = q.dir /\ p.name = q.name => p.content = q.content

\* The paths an upload may choose, and what that says of a path.
PathsOf(q) == StorageRelativePath(q.dir, q.name, q.content)
                \cup StorageRelativePath(q.dir, WithHashSuffix(q.name, q.content), q.content)
Placed(p, c) == \E q \in Requests : q.content = c /\ p \in PathsOf(q)

LEMMA PathsFit ==
    ASSUME NEW q \in Requests, NEW p \in PathsOf(q)
    PROVE  /\ Fits(p.file, q.name, q.content)
           /\ q.dir = Root => p.file \in {Once(q.name, q.content), Twice(q.name, q.content)}
           /\ q.dir # Root => p.dir = q.dir
  BY DEF PathsOf, StorageRelativePath, Fits, Once, Twice

LEMMA PathTells ==
    ASSUME OneContentPerPath, NEW p, NEW c, NEW k, Placed(p, c), Placed(p, k)
    PROVE  c = k
  <1>1. PICK a \in Requests : a.content = c /\ p \in PathsOf(a)
    BY DEF Placed
  <1>2. PICK b \in Requests : b.content = k /\ p \in PathsOf(b)
    BY DEF Placed
  <1>3. /\ a.name \in FileName /\ a.content \in Contents /\ a.name.marks = <<>>
        /\ b.name \in FileName /\ b.content \in Contents /\ b.name.marks = <<>>
    BY RequestAssumption DEF OneContentPerPath, Request
  <1>4. Fits(p.file, a.name, c) /\ Fits(p.file, b.name, k)
    BY <1>1, <1>2, PathsFit
  <1>5. CASE p.file \in {Once(a.name, c), Twice(a.name, c)}
    BY <1>1, <1>2, <1>3, <1>4, <1>5, SuffixTells
  <1>6. CASE p.file \in {Once(b.name, k), Twice(b.name, k)}
    BY <1>1, <1>2, <1>3, <1>4, <1>6, SuffixTells
  <1>7. CASE p.file = a.name /\ p.file = b.name /\ a.dir # Root /\ b.dir # Root
    <2>1. a.dir = b.dir
      BY <1>1, <1>2, <1>7, PathsFit
    <2> QED BY <1>1, <1>2, <1>7, <2>1 DEF OneContentPerPath
  <1> QED BY <1>1, <1>2, <1>4, <1>5, <1>6, <1>7, PathsFit DEF Fits

-----------------------------------------------------------------------------
(* Whatever races, what is at a path is what the path tells.               *)

\* What an upload carries is the content it was asked to store, and where it
\* takes it is a path of that content.
Carries(u) ==
    /\ req[u] # None => req[u] \in Requests
    /\ pc[u] \in {"lookup", "overwrite", "probe", "move", "copy"} => tmp[u] = req[u].content
    /\ pc[u] = "install" => stage[u] \in {req[u].content, None}
    /\ pc[u] \in {"move", "copy", "install", "unlink", "insert"} => dest[u] \in PathsOf(req[u])

HonestInv ==
    /\ \A u \in Uploads : Carries(u)
    /\ \A r \in rows : Placed(r.path, r.hash)
    /\ \A f \in disk : Placed(f.path, f.content)

LEMMA HonestInit == Init => HonestInv
  BY OpsAssumption DEF Init, HonestInv, Carries, Ops

LEMMA UploadCarries ==
    ASSUME TypeInv, NEW u \in Uploads, Carries(u), UploadStep(u)
    PROVE  Carries(u)'
  <1> USE OpsAssumption, NullAssumption DEF TypeInv, TypeOK, Ops, Carries
  <1>1. CASE Receive(u)           BY <1>1 DEF Receive, MayBegin
  <1>2. CASE ReceiveAll(u)        BY <1>2 DEF ReceiveAll
  <1>3. CASE ReceiveFails(u)      BY <1>3 DEF ReceiveFails, RemoveTemp
  <1>4. CASE LookupHit(u)         BY <1>4 DEF LookupHit
  <1>5. CASE LookupMiss(u)        BY <1>5 DEF LookupMiss
  <1>6. CASE Overwrite(u)         BY <1>6 DEF Overwrite
  <1>7. CASE Probe(u)             BY <1>7 DEF Probe, PathsOf
  <1>8. CASE MoveByRename(u)      BY <1>8 DEF MoveByRename
  <1>9. CASE CreateStage(u)       BY <1>9 DEF CreateStage
  <1>10. CASE CopyToStage(u)      BY <1>10 DEF CopyToStage
  <1>11. CASE InstallStage(u)     BY <1>11 DEF InstallStage
  <1>12. CASE UnlinkSource(u)     BY <1>12 DEF UnlinkSource
  <1>13. CASE MoveFails(u)        BY <1>13 DEF MoveFails
  <1>14. CASE Insert(u)           BY <1>14 DEF Insert
  <1>15. CASE InsertUnanswered(u) BY <1>15 DEF InsertUnanswered
  <1>16. CASE CallFails(u)        BY <1>16 DEF CallFails
  <1>17. CASE LogStored(u)        BY <1>17 DEF LogStored
  <1>18. CASE CleanupTemp(u)      BY <1>18 DEF CleanupTemp, RemoveTemp
  <1>19. CASE Announce(u)         BY <1>19 DEF Announce
  <1>20. CASE AnnouncePhoto(u)    BY <1>20 DEF AnnouncePhoto
  <1>21. CASE LogFailure(u)       BY <1>21 DEF LogFailure
  <1>22. CASE DropTemp(u)         BY <1>22 DEF DropTemp, RemoveTemp
  <1> QED BY <1>1, <1>2, <1>3, <1>4, <1>5, <1>6, <1>7, <1>8, <1>9, <1>10, <1>11, <1>12, <1>13,
           <1>14, <1>15, <1>16, <1>17, <1>18, <1>19, <1>20, <1>21, <1>22 DEF UploadStep

LEMMA CarriesKept ==
    ASSUME TypeInv, NEW u \in Uploads, Carries(u), [Next]_vars
    PROVE  Carries(u)'
  <1>1. CASE Rests(u)
    BY <1>1 DEF Rests, Carries
  <1> QED BY <1>1, UploadsRest, UploadCarries

\* As long as no client renames a staged file, the rest of a content is written
\* to none but the staged one.
LEMMA CopyKeepsDisk ==
    ASSUME TypeInv, HonestInv, NEW u \in Uploads, CopyToStage(u)
    PROVE  disk' = disk
  <1>1. \A f \in disk : f.content # u
    BY RequestAssumption, NullAssumption DEF HonestInv, Placed, Request
  <1>2. \A f \in disk : f = [path |-> f.path, content |-> f.content]
    BY DEF TypeInv, TypeOK
  <1> QED BY <1>1, <1>2 DEF CopyToStage

LEMMA HonestInvNext ==
    ASSUME TypeInv, HonestInv, "RNTO" \notin FtpFileOps, [Next]_vars
    PROVE  HonestInv'
  <1> USE DEF HonestInv
  <1>0. ASSUME NEW u \in Uploads, pc[u] \in {"move", "copy", "install", "unlink", "insert"}
        PROVE  req[u] \in Requests /\ Placed(dest[u], req[u].content)
    BY <1>0, NullAssumption
       DEF Carries, Placed, TypeInv, Locals, UploadLocals, HasRequest, UploadSteps, Request
  <1>1. \A u \in Uploads : Carries(u)'
    BY CarriesKept
  <1>2. \A r \in rows' : Placed(r.path, r.hash)
    <2>1. CASE \E u \in Uploads : Insert(u) \/ InsertUnanswered(u)
      <3>1. PICK u \in Uploads : Insert(u) \/ InsertUnanswered(u)
        BY <2>1
      <3>2. Placed(NewRow(u).path, NewRow(u).hash)
        BY <1>0, <3>1 DEF Insert, InsertUnanswered, NewRow
      <3> QED BY <3>1, <3>2 DEF Insert, InsertUnanswered
    <2>2. CASE \E d \in Deletes : EraseRow(d)
      BY <2>2 DEF EraseRow
    <2> QED BY <2>1, <2>2, RowWriters
  <1>3. \A f \in disk' : Placed(f.path, f.content)
    <2>1. CASE \E u \in Uploads : MoveByRename(u) \/ InstallStage(u)
      <3>1. PICK u \in Uploads : MoveByRename(u) \/ InstallStage(u)
        BY <2>1
      <3>2. disk' = Put(dest[u], req[u].content)
        BY <3>1 DEF MoveByRename, InstallStage, Carries
      <3>3. Placed(dest[u], req[u].content)
        BY <1>0, <3>1 DEF MoveByRename, InstallStage
      <3> QED BY <3>2, <3>3 DEF Put, Without
    <2>2. CASE (\E d \in Deletes : RemoveFile(d)) \/ FtpDelete
      BY <2>2 DEF RemoveFile, FtpDelete, Without
    <2>3. ~FtpRename
      BY DEF FtpRename
    <2> QED BY <2>1, <2>2, <2>3, CopyKeepsDisk, DiskWriters
  <1> QED BY <1>1, <1>2, <1>3

LEMMA HonestInvHolds == ASSUME "RNTO" \notin FtpFileOps PROVE Spec => []HonestInv
  <1>1. TypeInv /\ HonestInv /\ [Next]_vars => HonestInv'
    BY HonestInvNext
  <1> QED BY <1>1, HonestInit, TypeCorrect, PTL DEF Spec

-----------------------------------------------------------------------------
(* What an upload has found, stored and announced. At these steps its row  *)
(* stands and events may be owed; up to the INSERT its lookup has found    *)
(* nothing.                                                                *)

Owing == {"logup", "logover", "cleanup", "announce", "announcephoto"}
Fresh == {"idle", "receiving", "lookup", "probe", "move", "copy", "install", "unlink",
          "insert", "logup"}

FoundTells == \A u \in Uploads :
    /\ pc[u] \in Fresh => found[u] = None
    /\ pc[u] \in {"overwrite", "logover", "cleanup"} => found[u] # None

LEMMA UploadFoundTells ==
    ASSUME TypeInv, FoundTells, NEW u \in Uploads, UploadStep(u)
    PROVE  /\ pc'[u] \in Fresh => found'[u] = None
           /\ pc'[u] \in {"overwrite", "logover", "cleanup"} => found'[u] # None
  <1> USE OpsAssumption DEF TypeInv, TypeOK, FoundTells, Fresh, Ops
  <1>1. CASE Receive(u)           BY <1>1 DEF Receive, MayBegin
  <1>2. CASE ReceiveAll(u)        BY <1>2 DEF ReceiveAll
  <1>3. CASE ReceiveFails(u)      BY <1>3 DEF ReceiveFails
  <1>4. CASE LookupHit(u)         BY <1>4, NullAssumption DEF LookupHit
  <1>5. CASE LookupMiss(u)        BY <1>5 DEF LookupMiss
  <1>6. CASE Overwrite(u)         BY <1>6 DEF Overwrite
  <1>7. CASE Probe(u)             BY <1>7 DEF Probe
  <1>8. CASE MoveByRename(u)      BY <1>8 DEF MoveByRename
  <1>9. CASE CreateStage(u)       BY <1>9 DEF CreateStage
  <1>10. CASE CopyToStage(u)      BY <1>10 DEF CopyToStage
  <1>11. CASE InstallStage(u)     BY <1>11 DEF InstallStage
  <1>12. CASE UnlinkSource(u)     BY <1>12 DEF UnlinkSource
  <1>13. CASE MoveFails(u)        BY <1>13 DEF MoveFails
  <1>14. CASE Insert(u)           BY <1>14 DEF Insert
  <1>15. CASE InsertUnanswered(u) BY <1>15 DEF InsertUnanswered
  <1>16. CASE CallFails(u)        BY <1>16 DEF CallFails
  <1>17. CASE LogStored(u)        BY <1>17 DEF LogStored
  <1>18. CASE CleanupTemp(u)      BY <1>18 DEF CleanupTemp
  <1>19. CASE Announce(u)         BY <1>19 DEF Announce
  <1>20. CASE AnnouncePhoto(u)    BY <1>20 DEF AnnouncePhoto
  <1>21. CASE LogFailure(u)       BY <1>21 DEF LogFailure
  <1>22. CASE DropTemp(u)         BY <1>22 DEF DropTemp
  <1> QED BY <1>1, <1>2, <1>3, <1>4, <1>5, <1>6, <1>7, <1>8, <1>9, <1>10, <1>11, <1>12, <1>13,
           <1>14, <1>15, <1>16, <1>17, <1>18, <1>19, <1>20, <1>21, <1>22 DEF UploadStep

LEMMA FoundTellsHolds == Spec => []FoundTells
  <1>1. Init => FoundTells
    BY OpsAssumption DEF Init, FoundTells, Ops
  <1>2. ASSUME TypeInv, FoundTells, [Next]_vars, NEW u \in Uploads
        PROVE  /\ pc'[u] \in Fresh => found'[u] = None
               /\ pc'[u] \in {"overwrite", "logover", "cleanup"} => found'[u] # None
    <2>1. CASE Rests(u)
      BY <1>2, <2>1 DEF Rests, FoundTells, Fresh
    <2> QED BY <1>2, <2>1, UploadsRest, UploadFoundTells
  <1>3. TypeInv /\ FoundTells /\ [Next]_vars => FoundTells'
    BY <1>2 DEF FoundTells
  <1> QED BY <1>1, <1>3, TypeCorrect, PTL DEF Spec

\* The steps of an upload. Those before its row stands change neither rows
\* nor events and only add to the ledger.
Preparing(u) ==
    /\ pc[u] \notin Owing /\ pc'[u] \notin Owing \cup {"ok"}
    /\ UNCHANGED <<rows, lastEvent>> /\ ledger \subseteq ledger'

Stands(u) == Overwrite(u) /\ pc'[u] = "logover"
Enters(u) == Insert(u) /\ ~PathTaken(dest[u])

LEMMA UploadSorts ==
    ASSUME TypeInv, NEW u \in Uploads, UploadStep(u)
    PROVE  \/ Preparing(u) \/ InsertUnanswered(u) \/ Stands(u) \/ Enters(u)
           \/ LogStored(u) \/ CleanupTemp(u) \/ Announce(u) \/ AnnouncePhoto(u)
  <1> USE OpsAssumption DEF TypeInv, TypeOK, Preparing, Owing, Ops
  <1>1. CASE Receive(u)           BY <1>1 DEF Receive, MayBegin
  <1>2. CASE ReceiveAll(u)        BY <1>2 DEF ReceiveAll
  <1>3. CASE ReceiveFails(u)      BY <1>3 DEF ReceiveFails
  <1>4. CASE LookupHit(u)         BY <1>4 DEF LookupHit
  <1>5. CASE LookupMiss(u)        BY <1>5 DEF LookupMiss
  <1>6. CASE Overwrite(u)         BY <1>6 DEF Overwrite, Stands
  <1>7. CASE Probe(u)             BY <1>7 DEF Probe
  <1>8. CASE MoveByRename(u)      BY <1>8 DEF MoveByRename
  <1>9. CASE CreateStage(u)       BY <1>9 DEF CreateStage
  <1>10. CASE CopyToStage(u)      BY <1>10 DEF CopyToStage
  <1>11. CASE InstallStage(u)     BY <1>11 DEF InstallStage
  <1>12. CASE UnlinkSource(u)     BY <1>12 DEF UnlinkSource
  <1>13. CASE MoveFails(u)        BY <1>13 DEF MoveFails
  <1>14. CASE Insert(u)           BY <1>14 DEF Insert, Enters
  <1>15. CASE InsertUnanswered(u) BY <1>15 DEF InsertUnanswered
  <1>16. CASE CallFails(u)        BY <1>16 DEF CallFails
  <1>17. CASE LogStored(u)        BY <1>17 DEF LogStored
  <1>18. CASE CleanupTemp(u)      BY <1>18 DEF CleanupTemp
  <1>19. CASE Announce(u)         BY <1>19 DEF Announce
  <1>20. CASE AnnouncePhoto(u)    BY <1>20 DEF AnnouncePhoto
  <1>21. CASE LogFailure(u)       BY <1>21 DEF LogFailure, Record
  <1>22. CASE DropTemp(u)         BY <1>22 DEF DropTemp
  <1> QED BY <1>1, <1>2, <1>3, <1>4, <1>5, <1>6, <1>7, <1>8, <1>9, <1>10, <1>11, <1>12, <1>13,
           <1>14, <1>15, <1>16, <1>17, <1>18, <1>19, <1>20, <1>21, <1>22 DEF UploadStep

\* Uploads erase nothing, and change no locals but their own.
LEMMA UploadAdds ==
    ASSUME TypeInv, NEW u \in Uploads, UploadStep(u)
    PROVE  rows \subseteq rows' /\ ledger \subseteq ledger'
  BY UploadSorts
     DEF Preparing, InsertUnanswered, Stands, Overwrite, Enters, Insert, LogStored, Record,
         CleanupTemp, Announce, AnnouncePhoto

\* A primary key: the row an upload inserts is the only one of its id.
IdsDistinct == \A r, s \in rows : r.id = s.id => r = s
RowsOwned   == \A u \in Uploads : HasRow(u) =>
                  pc[u] \in {"logup", "announce", "announcephoto", "ok", "failing", "drop",
                             "err", "lost"}

LEMMA UploadKeepsOwned ==
    ASSUME TypeInv, RowsOwned, NEW u \in Uploads, UploadStep(u)
    PROVE  RowsOwned'
  <1> USE OpsAssumption DEF TypeInv, TypeOK, RowsOwned, HasRow, Ops
  <1>1. CASE Receive(u)           BY <1>1 DEF Receive, MayBegin
  <1>2. CASE ReceiveAll(u)        BY <1>2 DEF ReceiveAll
  <1>3. CASE ReceiveFails(u)      BY <1>3 DEF ReceiveFails
  <1>4. CASE LookupHit(u)         BY <1>4 DEF LookupHit
  <1>5. CASE LookupMiss(u)        BY <1>5 DEF LookupMiss
  <1>6. CASE Overwrite(u)         BY <1>6 DEF Overwrite
  <1>7. CASE Probe(u)             BY <1>7 DEF Probe
  <1>8. CASE MoveByRename(u)      BY <1>8 DEF MoveByRename
  <1>9. CASE CreateStage(u)       BY <1>9 DEF CreateStage
  <1>10. CASE CopyToStage(u)      BY <1>10 DEF CopyToStage
  <1>11. CASE InstallStage(u)     BY <1>11 DEF InstallStage
  <1>12. CASE UnlinkSource(u)     BY <1>12 DEF UnlinkSource
  <1>13. CASE MoveFails(u)        BY <1>13 DEF MoveFails
  <1>14. CASE Insert(u)           BY <1>14 DEF Insert, NewRow
  <1>15. CASE InsertUnanswered(u) BY <1>15 DEF InsertUnanswered, NewRow
  <1>16. CASE CallFails(u)        BY <1>16 DEF CallFails
  <1>17. CASE LogStored(u)        BY <1>17 DEF LogStored
  <1>18. CASE CleanupTemp(u)      BY <1>18 DEF CleanupTemp
  <1>19. CASE Announce(u)         BY <1>19 DEF Announce
  <1>20. CASE AnnouncePhoto(u)    BY <1>20 DEF AnnouncePhoto
  <1>21. CASE LogFailure(u)       BY <1>21 DEF LogFailure
  <1>22. CASE DropTemp(u)         BY <1>22 DEF DropTemp
  <1> QED BY <1>1, <1>2, <1>3, <1>4, <1>5, <1>6, <1>7, <1>8, <1>9, <1>10, <1>11, <1>12, <1>13,
           <1>14, <1>15, <1>16, <1>17, <1>18, <1>19, <1>20, <1>21, <1>22 DEF UploadStep

LEMMA IdsDistinctHolds == Spec => [](IdsDistinct /\ RowsOwned)
  <1> USE OpsAssumption DEF RowsOwned, HasRow, Ops
  <1>1. Init => IdsDistinct /\ RowsOwned
    BY DEF Init, IdsDistinct
  <1>2. ASSUME TypeInv, RowsOwned, [Next]_vars  PROVE RowsOwned'
    <2>1. ASSUME NEW u \in Uploads, UploadStep(u)  PROVE RowsOwned'
      BY <1>2, <2>1, UploadKeepsOwned
    <2>2. ASSUME \A u \in Uploads : Rests(u), rows' \subseteq rows  PROVE RowsOwned'
      BY <1>2, <2>2 DEF Rests
    <2>3. (\A u \in Uploads : ~UploadStep(u)) => rows' \subseteq rows
      BY <1>2, RowWriters DEF UploadStep, EraseRow
    <2> QED BY <1>2, <2>1, <2>2, <2>3, UploadsRest
  <1>3. ASSUME TypeInv, IdsDistinct, RowsOwned, [Next]_vars  PROVE IdsDistinct'
    <2>1. CASE \E u \in Uploads : Insert(u) \/ InsertUnanswered(u)
      <3>1. PICK u \in Uploads : Insert(u) \/ InsertUnanswered(u)
        BY <2>1
      <3>2. ~HasRow(u) /\ rows' \subseteq rows \cup {NewRow(u)} /\ NewRow(u).id = u
        BY <1>3, <3>1 DEF Insert, InsertUnanswered, NewRow
      <3> QED BY <1>3, <3>2 DEF IdsDistinct
    <2>2. CASE rows' \subseteq rows
      BY <1>3, <2>2 DEF IdsDistinct
    <2> QED BY <1>3, <2>1, <2>2, RowWriters DEF EraseRow
  <1>4. TypeInv /\ IdsDistinct /\ RowsOwned /\ [Next]_vars => (IdsDistinct /\ RowsOwned)'
    BY <1>2, <1>3
  <1> QED BY <1>1, <1>4, TypeCorrect, PTL DEF Spec

\* The row an upload inserted or overwrote stands until it is answered.
FoundKnown    == \A u \in Uploads : pc[u] = "overwrite" => found[u] \in rows
RowStands(u)  == \E r \in rows : r.id = AssetOf(u) /\ Matches(r, u)
RowsStand     == \A u \in Uploads : pc[u] \in Owing => RowStands(u)

LEMMA UploadRowsStand ==
    ASSUME TypeInv, AckInv, FoundTells, FoundKnown, RowsStand, NEW u \in Uploads, UploadStep(u)
    PROVE  RowsStand'
  <1> USE OpsAssumption DEF Ops
  <1>0. ASSUME NEW v \in Uploads \ {u}, pc'[v] \in Owing  PROVE RowStands(v)'
    <2>1. pc[v] \in Owing /\ found'[v] = found[v] /\ req'[v] = req[v] /\ rows \subseteq rows'
      BY <1>0, UploadLeavesOthers, UploadAdds DEF Rests, Owing
    <2> QED BY <2>1 DEF RowsStand, RowStands, AssetOf, Matches
  <1>1. CASE Preparing(u)
    BY <1>0, <1>1 DEF Preparing, RowsStand
  <1>2. CASE InsertUnanswered(u)
    BY <1>0, <1>2 DEF InsertUnanswered, RowsStand, Owing, TypeInv, TypeOK
  <1>3. CASE Stands(u)
    <2>1. found[u] \in rows /\ Matches(found[u], u) /\ found[u] # None
      BY <1>3 DEF Stands, Overwrite, FoundKnown, AckInv, FoundTells
    <2>2. RowStands(u)'
      BY <1>3, <2>1 DEF Stands, Overwrite, RowStands, AssetOf, Matches
    <2> QED BY <1>0, <2>2 DEF RowsStand
  <1>4. CASE Enters(u)
    <2>1. found[u] = None /\ NewRow(u) \in rows' /\ UNCHANGED <<found, req>>
      BY <1>4 DEF Enters, Insert, FoundTells, Fresh
    <2>2. RowStands(u)'
      BY <2>1 DEF RowStands, AssetOf, Matches, NewRow
    <2> QED BY <1>0, <2>2 DEF RowsStand
  <1>5. CASE LogStored(u) \/ CleanupTemp(u) \/ Announce(u) \/ AnnouncePhoto(u)
    <2>1. pc[u] \in Owing /\ UNCHANGED <<rows, found, req>>
      BY <1>5 DEF LogStored, CleanupTemp, Announce, AnnouncePhoto, Owing
    <2>2. RowStands(u)'
      BY <2>1 DEF RowsStand, RowStands, AssetOf, Matches
    <2> QED BY <1>0, <2>2 DEF RowsStand
  <1> QED BY <1>1, <1>2, <1>3, <1>4, <1>5, UploadSorts

Outcome(u)    == IF found[u] = None THEN "uploaded" ELSE "overwritten"
LedgerTells   ==
    /\ \A u \in Uploads : pc[u] \in {"cleanup", "announce", "announcephoto", "ok"}
                            => <<Outcome(u), u>> \in ledger
    /\ \A d \in Deletes : pc[d] \in {"announcedel", "ok"} => <<"deleted", d>> \in ledger

LEMMA UploadLedgerTells ==
    ASSUME TypeInv, ~May({"db"}), FoundTells, RowsStand, LedgerTells,
           NEW u \in Uploads, UploadStep(u)
    PROVE  LedgerTells'
  <1> USE OpsAssumption DEF Ops
  <1>1. pc'[u] \in {"cleanup", "announce", "announcephoto", "ok"}
          => <<Outcome(u), u>> \in ledger' /\ found'[u] = found[u]
    <2> USE DEF TypeInv, TypeOK
    <2>1. CASE Preparing(u)
      BY <2>1 DEF Preparing, Owing
    <2>2. CASE InsertUnanswered(u)
      BY <2>2 DEF InsertUnanswered
    <2>3. CASE Stands(u)
      BY <2>3 DEF Stands
    <2>4. CASE Enters(u)
      BY <2>4 DEF Enters, Insert
    <2>5. CASE LogStored(u)
      <3>1. HasRow(AssetOf(u))
        BY <2>5 DEF LogStored, RowsStand, RowStands, Owing, HasRow
      <3>2. ledger' = ledger \cup {<<Outcome(u), u>>}
        BY <2>5, <3>1 DEF LogStored, Record, FoundTells, Fresh, Outcome
      <3> QED BY <2>5, <3>2 DEF LogStored
    <2>6. CASE CleanupTemp(u)
      BY <2>6 DEF CleanupTemp, LedgerTells
    <2>7. CASE Announce(u)
      BY <2>7 DEF Announce, LedgerTells
    <2>8. CASE AnnouncePhoto(u)
      BY <2>8 DEF AnnouncePhoto, LedgerTells
    <2> QED BY <2>1, <2>2, <2>3, <2>4, <2>5, <2>6, <2>7, <2>8, UploadSorts
  <1> QED BY <1>1, UploadAdds, UploadLeavesOthers DEF LedgerTells, Outcome

-----------------------------------------------------------------------------
(* What listeners were told. Between the INSERT or the UPDATE and the last *)
(* broadcast of an upload, news are owed about its asset.                  *)

EventTells(r) ==
    IF IsPhoto(r) THEN lastEvent[r.id] = "photo-added"
    ELSE lastEvent[r.id] \in {"asset-uploaded", "asset-overwritten"}
NewsOwed(i)   == \E u \in Uploads : pc[u] \in Owing /\ AssetOf(u) = i
LossOwed(i)   == \E d \in Deletes : pc[d] \in {"logdel", "announcedel"} /\ found[d].id = i
PhotoSent(u)  == <<req[u].name.stem, req[u].content>> \in Photos

FeedTells ==
    /\ \A r \in rows : NewsOwed(r.id) \/ EventTells(r)
    /\ \A i \in Uploads : ~HasRow(i) =>
          lastEvent[i] \in {None, "photo-deleted"} \/ LossOwed(i)
    /\ \A d \in Deletes : pc[d] \in {"logdel", "announcedel"} => ~HasRow(found[d].id)
    /\ \A u \in Uploads : pc[u] = "announcephoto" => PhotoSent(u)

\* An upload tells the truth last, in whatever order others' news about the
\* same asset come in between.
LEMMA UploadFeedTells ==
    ASSUME TypeInv, IdsDistinct, ~May({"reply"}), FoundTells, RowsStand, FeedTells,
           \A d \in Deletes : pc[d] \notin {"logdel", "announcedel"},
           NEW u \in Uploads, UploadStep(u)
    PROVE  FeedTells'
  <1> USE OpsAssumption DEF Ops
  <1>0. /\ \A v \in Uploads \ {u} :
              /\ pc'[v] = pc[v]
              /\ AssetOf(v)' = AssetOf(v) /\ PhotoSent(v)' = PhotoSent(v)
        /\ \A d \in Deletes : pc'[d] \notin {"logdel", "announcedel"}
        /\ \A i : ~LossOwed(i)
    BY UploadLeavesOthers DEF Rests, AssetOf, PhotoSent, LossOwed
  <1>a. \A i \in Uploads : NewsOwed(i) /\ (pc[u] \in Owing => AssetOf(u) # i) => NewsOwed(i)'
    BY <1>0 DEF NewsOwed
  <1>1. CASE Preparing(u)
    <2>1. \A r \in rows : NewsOwed(r.id) => NewsOwed(r.id)'
      BY <1>a, <1>1 DEF Preparing, TypeInv, TypeOK, Row
    <2> QED BY <1>0, <1>1, <2>1 DEF Preparing, FeedTells, EventTells, IsPhoto, HasRow, Owing
  <1>2. CASE Stands(u)
    <2>1. UNCHANGED <<rows, lastEvent>> /\ pc[u] \notin Owing /\ pc'[u] = "logover"
      BY <1>2 DEF Stands, Overwrite, Owing
    <2>2. \A r \in rows : NewsOwed(r.id) => NewsOwed(r.id)'
      BY <1>a, <2>1 DEF TypeInv, TypeOK, Row
    <2> QED BY <1>0, <2>1, <2>2 DEF FeedTells, EventTells, IsPhoto, HasRow
  <1>3. CASE Enters(u)
    <2>1. /\ rows' = rows \cup {NewRow(u)} /\ UNCHANGED <<lastEvent, found>>
          /\ pc[u] = "insert" /\ pc'[u] = "logup" /\ found[u] = None
      BY <1>3 DEF Enters, Insert, FoundTells, Fresh, TypeInv, TypeOK
    <2>2. NewsOwed(u)' /\ NewRow(u).id = u
      BY <2>1 DEF NewsOwed, AssetOf, Owing, NewRow
    <2>3. \A r \in rows : NewsOwed(r.id) => NewsOwed(r.id)'
      BY <1>a, <2>1 DEF TypeInv, TypeOK, Row, Owing
    <2> QED BY <1>0, <2>1, <2>2, <2>3 DEF FeedTells, EventTells, IsPhoto, HasRow
  <1>4. ASSUME pc[u] \in Owing, UNCHANGED <<rows, found, req>>
        PROVE  /\ HasRow(AssetOf(u)) /\ AssetOf(u)' = AssetOf(u)
               /\ \A r \in rows : r.id = AssetOf(u) => (IsPhoto(r) <=> PhotoSent(u))
               /\ \A r \in rows : r.id # AssetOf(u) => NewsOwed(r.id)' \/ EventTells(r)
    <2>1. PICK r \in rows : r.id = AssetOf(u) /\ Matches(r, u)
      BY <1>4 DEF RowsStand, RowStands
    <2>2. \A s \in rows : s.id = AssetOf(u) => s = r
      BY <2>1 DEF IdsDistinct
    <2>3. \A s \in rows : s.id # AssetOf(u) => NewsOwed(s.id)' \/ EventTells(s)
      BY <1>a DEF FeedTells, TypeInv, TypeOK, Row
    <2> QED
      BY <1>4, <2>1, <2>2, <2>3 DEF HasRow, AssetOf, IsPhoto, Matches, PhotoSent
  <1>5. CASE LogStored(u) \/ CleanupTemp(u)
    <2>1. /\ pc[u] \in Owing /\ UNCHANGED <<rows, found, req, lastEvent>>
          /\ pc'[u] \in Owing \ {"announcephoto"}
      BY <1>5 DEF LogStored, CleanupTemp, Owing, TypeInv, TypeOK
    <2>2. NewsOwed(AssetOf(u))'
      BY <1>4, <2>1 DEF NewsOwed
    <2> QED
      BY <1>0, <1>4, <2>1, <2>2 DEF FeedTells, EventTells, IsPhoto, HasRow
  <1>6. CASE Announce(u)
    <2>1. /\ pc[u] \in Owing /\ UNCHANGED <<rows, found, req>>
          /\ lastEvent' = [lastEvent EXCEPT ![AssetOf(u)] =
                 IF found[u] = None THEN "asset-uploaded" ELSE "asset-overwritten"]
          /\ pc'[u] = IF PhotoSent(u) THEN "announcephoto" ELSE "ok"
      BY <1>6 DEF Announce, Owing, TypeInv, TypeOK, PhotoSent
    <2>2. PhotoSent(u) => NewsOwed(AssetOf(u))'
      BY <1>4, <2>1 DEF NewsOwed, Owing
    <2>3. \A r \in rows' : (NewsOwed(r.id) \/ EventTells(r))'
      <3> SUFFICES ASSUME NEW r \in rows  PROVE (NewsOwed(r.id) \/ EventTells(r))'
        BY <2>1
      <3>1. r.id \in Uploads
        BY DEF TypeInv, TypeOK, Row
      <3>2. CASE r.id # AssetOf(u)
        BY <1>4, <2>1, <3>1, <3>2 DEF EventTells, IsPhoto, TypeInv, TypeOK
      <3>3. CASE r.id = AssetOf(u)
        BY <1>4, <2>1, <2>2, <3>1, <3>3 DEF EventTells, IsPhoto, TypeInv, TypeOK
      <3> QED BY <3>2, <3>3
    <2>4. \A i \in Uploads : ~HasRow(i)' => lastEvent'[i] = lastEvent[i]
      BY <1>4, <2>1 DEF HasRow, TypeInv, TypeOK
    <2>5. pc'[u] = "announcephoto" => PhotoSent(u)'
      BY <2>1 DEF PhotoSent
    <2> QED BY <1>0, <2>1, <2>3, <2>4, <2>5 DEF FeedTells, HasRow
  <1>7. CASE AnnouncePhoto(u)
    <2>1. /\ pc[u] = "announcephoto" /\ UNCHANGED <<rows, found, req>>
          /\ lastEvent' = [lastEvent EXCEPT ![AssetOf(u)] = "photo-added"]
          /\ pc'[u] = "ok" /\ PhotoSent(u) /\ pc[u] \in Owing
      BY <1>7 DEF AnnouncePhoto, TypeInv, TypeOK, FeedTells, Owing
    <2>2. \A r \in rows' : (NewsOwed(r.id) \/ EventTells(r))'
      <3> SUFFICES ASSUME NEW r \in rows  PROVE (NewsOwed(r.id) \/ EventTells(r))'
        BY <2>1
      <3>1. r.id \in Uploads
        BY DEF TypeInv, TypeOK, Row
      <3> QED BY <1>4, <2>1, <3>1 DEF EventTells, IsPhoto, TypeInv, TypeOK
    <2>3. \A i \in Uploads : ~HasRow(i)' => lastEvent'[i] = lastEvent[i]
      BY <1>4, <2>1 DEF HasRow, TypeInv, TypeOK
    <2> QED BY <1>0, <2>1, <2>2, <2>3 DEF FeedTells, HasRow
  <1>8. ~InsertUnanswered(u)
    BY DEF InsertUnanswered
  <1> QED BY <1>1, <1>2, <1>3, <1>5, <1>6, <1>7, <1>8, UploadSorts

-----------------------------------------------------------------------------
(* Without deletions, rows stay, so what an operation found or stored holds *)
(* until it is answered, whatever races it.                                *)

ReadsStand == \A r \in Reads : pc[r] = "open" => found[r] \in rows

GrowInv == FoundKnown /\ ReadsStand /\ RowsStand

LEMMA OthersAddNothing ==
    ASSUME TypeInv, Deletes = {}, [Next]_vars, \A u \in Uploads : ~UploadStep(u)
    PROVE  /\ \A u \in Uploads : Rests(u)
           /\ UNCHANGED <<rows, ledger, lastEvent>>
           /\ \A u \in Uploads : pc'[u] # pc[u] => May({"crash"})
  <1>1. \A u \in Uploads : Rests(u)
    BY UploadsRest
  <1>2. CASE \E r \in Reads : ReadStep(r)
    BY <1>1, <1>2, OpsAssumption DEF ReadStep, FindForRead, ServeFile, TypeInv, TypeOK, Ops
  <1> QED BY <1>1, <1>2 DEF Next, FtpDelete, FtpRename, Crash, Finished

LEMMA RowsGrow ==
    ASSUME TypeInv, Deletes = {}, [Next]_vars
    PROVE  rows \subseteq rows' /\ ledger \subseteq ledger'
  BY UploadAdds, OthersAddNothing

LEMMA GrowInvNext ==
    ASSUME TypeInv, AckInv, FoundTells, GrowInv, Deletes = {}, [Next]_vars
    PROVE  GrowInv'
  <1> USE DEF GrowInv
  <1>1. FoundKnown'
    BY StepOrigins, RowsGrow DEF Origins, FoundKnown, LookupHit, TypeInv, TypeOK, Ops
  <1>2. ReadsStand'
    <2> SUFFICES ASSUME NEW g \in Reads, pc'[g] = "open"  PROVE found'[g] \in rows'
      BY DEF ReadsStand
    <2>1. CASE ReadStep(g)
      BY <2>1 DEF ReadStep, FindForRead, ServeFile, TypeInv, TypeOK, Ops
    <2> QED BY <2>1, ReadsRest, RowsGrow DEF ReadsStand
  <1>3. RowsStand'
    <2>1. CASE \A u \in Uploads : Rests(u)
      BY <2>1, RowsGrow DEF Rests, RowsStand, RowStands, AssetOf, Matches, Owing
    <2> QED BY <2>1, UploadRowsStand, OthersAddNothing
  <1> QED BY <1>1, <1>2, <1>3

LEMMA GrowInvHolds == ASSUME Deletes = {} PROVE Spec => []GrowInv
  <1>1. Init => GrowInv
    BY OpsAssumption DEF Init, GrowInv, FoundKnown, ReadsStand, RowsStand, Owing, Ops
  <1>2. TypeInv /\ AckInv /\ FoundTells /\ GrowInv /\ [Next]_vars => GrowInv'
    BY GrowInvNext
  <1> QED BY <1>1, <1>2, TypeCorrect, AckInvHolds, FoundTellsHolds, PTL DEF Spec

\* When uploads that raced have all been answered, the last event about each
\* asset says what the table says, though broadcasts of several uploads about
\* one asset interleave: as long as nothing is deleted, the process lives and
\* statements that took effect are answered.
THEOREM RacingFeedMatchesRows ==
    ASSUME Deletes = {}, ~May({"reply"}), ~May({"crash"})  PROVE Spec => []FeedMatchesRows
  <1>1. Init => FeedTells
    BY OpsAssumption DEF Init, FeedTells, HasRow, Ops
  <1>2. ASSUME TypeInv, IdsDistinct, FoundTells, GrowInv, FeedTells, [Next]_vars
        PROVE  FeedTells'
    <2>1. CASE \E u \in Uploads : UploadStep(u)
      BY <1>2, <2>1, UploadFeedTells DEF GrowInv
    <2>2. CASE \A u \in Uploads : ~UploadStep(u)
      <3>1. /\ \A u \in Uploads : pc'[u] = pc[u] /\ AssetOf(u)' = AssetOf(u)
                                  /\ PhotoSent(u)' = PhotoSent(u)
            /\ UNCHANGED <<rows, lastEvent>>
        BY <1>2, <2>2, OthersAddNothing DEF Rests, AssetOf, PhotoSent
      <3> QED BY <1>2, <3>1 DEF FeedTells, NewsOwed, LossOwed, EventTells, IsPhoto, HasRow
    <2> QED BY <2>1, <2>2
  <1>3. TypeInv /\ IdsDistinct /\ FoundTells /\ GrowInv /\ FeedTells /\ [Next]_vars => FeedTells'
    BY <1>2
  <1>4. TypeInv /\ FeedTells => FeedMatchesRows
    BY DEF Quiet, Active, Ended, Ops, NewsOwed, LossOwed, Owing, FeedTells, EventTells,
           FeedMatchesRows, TypeInv, TypeOK, Row
  <1> QED
    BY <1>1, <1>3, <1>4, TypeCorrect, IdsDistinctHolds, FoundTellsHolds, GrowInvHolds, PTL
       DEF Spec

-----------------------------------------------------------------------------
(* Without deletions a file, once under its final name, stays: an upload   *)
(* that takes the same path brings the same content.                       *)

NothingTaken == Deletes = {} /\ FtpFileOps = {}

StoredInv ==
    /\ \A r \in rows : OnDisk(r.path, r.hash)
    /\ \A u \in Uploads : pc[u] \in {"unlink", "insert"} => OnDisk(dest[u], req[u].content)

LEMMA Installs ==
    ASSUME TypeInv, HonestInv, NEW u \in Uploads, MoveByRename(u) \/ InstallStage(u)
    PROVE  /\ disk' = Put(dest[u], req[u].content)
           /\ Placed(dest[u], req[u].content)
           /\ UNCHANGED <<rows, req, dest>>
  <1>1. Carries(u) /\ req[u] # None /\ req[u] \in Request
    BY NullAssumption
       DEF MoveByRename, InstallStage, HonestInv, TypeInv, Locals, UploadLocals, HasRequest,
           UploadSteps
  <1> QED BY <1>1 DEF MoveByRename, InstallStage, Carries, Placed

LEMMA FilesStay ==
    ASSUME TypeInv, HonestInv, OneContentPerPath, NothingTaken, [Next]_vars,
           NEW p, NEW c, OnDisk(p, c)
    PROVE  OnDisk(p, c)'
  <1>1. ASSUME NEW u \in Uploads, MoveByRename(u) \/ InstallStage(u)  PROVE OnDisk(p, c)'
    <2>1. Placed(p, c)
      BY DEF OnDisk, HonestInv
    <2>2. p = dest[u] => c = req[u].content
      BY <1>1, <2>1, Installs, PathTells
    <2> QED BY <1>1, <2>2, Installs DEF OnDisk, Put, Without
  <1> QED
    BY <1>1, CopyKeepsDisk, DiskWriters DEF NothingTaken, FtpDelete, FtpRename, OnDisk

LEMMA StoredInvNext ==
    ASSUME TypeInv, HonestInv, StoredInv, OneContentPerPath, NothingTaken, [Next]_vars
    PROVE  StoredInv'
  <1> USE DEF StoredInv
  <1>1. ASSUME NEW u \in Uploads, pc'[u] \in {"unlink", "insert"}
        PROVE  OnDisk(dest[u], req[u].content)'
    <2>1. CASE Rests(u)
      BY <1>1, <2>1, FilesStay DEF Rests
    <2>2. CASE MoveByRename(u) \/ InstallStage(u)
      BY <2>2, Installs DEF OnDisk, Put
    <2>3. CASE UnlinkSource(u)
      BY <2>3, FilesStay DEF UnlinkSource
    <2> USE DEF TypeInv, TypeOK, Ops
    <2>4. CASE UploadStep(u) /\ ~MoveByRename(u) /\ ~InstallStage(u) /\ ~UnlinkSource(u)
      BY <1>1, <2>4
         DEF UploadStep, Receive, ReceiveAll, ReceiveFails, LookupHit, LookupMiss, Overwrite,
             Probe, CreateStage, CopyToStage, MoveFails, Insert, InsertUnanswered, CallFails,
             LogStored, CleanupTemp, Announce, AnnouncePhoto, LogFailure, DropTemp
    <2> QED BY <2>1, <2>2, <2>3, <2>4, UploadsRest
  <1>2. ASSUME NEW r \in rows'  PROVE OnDisk(r.path, r.hash)'
    <2>1. CASE r \in rows
      BY <2>1, FilesStay
    <2>2. ASSUME NEW u \in Uploads, Insert(u) \/ InsertUnanswered(u), r \notin rows
          PROVE  OnDisk(r.path, r.hash)'
      <3>1. r = NewRow(u) /\ OnDisk(dest[u], req[u].content) /\ UNCHANGED disk
        BY <2>2 DEF Insert, InsertUnanswered
      <3> QED BY <3>1 DEF NewRow, OnDisk
    <2> QED BY <2>1, <2>2, RowWriters DEF EraseRow
  <1> QED BY <1>1, <1>2

LEMMA StoredInvHolds == ASSUME OneContentPerPath, NothingTaken PROVE Spec => []StoredInv
  <1>1. Init => StoredInv
    BY OpsAssumption DEF Init, StoredInv, Ops
  <1>2. TypeInv /\ HonestInv /\ StoredInv /\ [Next]_vars => StoredInv'
    BY StoredInvNext
  <1>3. Spec => []HonestInv
    BY HonestInvHolds DEF NothingTaken
  <1> QED BY <1>1, <1>2, <1>3, TypeCorrect, PTL DEF Spec

\* Retries of an upload race each other and uploads of other files, transfers
\* break, statements and system calls fail, the process dies: no row is left
\* without its file, as long as a name stands for one content.
THEOREM RacingRowsReadable ==
    ASSUME OneContentPerPath, NothingTaken  PROVE Spec => []RowsReadable
  <1>1. StoredInv => RowsReadable
    BY DEF StoredInv, RowsReadable
  <1> QED BY <1>1, StoredInvHolds, PTL

\* Under the same races and faults, an upload is acknowledged only when its
\* content is on the volume, at the path of the row it inserted or overwrote.
THEOREM RacingAckedStored ==
    ASSUME OneContentPerPath, NothingTaken  PROVE Spec => AckedStored
  <1>1. ASSUME TypeInv, GrowInv, StoredInv, [Next]_vars,
               NEW u \in Uploads, pc[u] # "ok", pc'[u] = "ok"
        PROVE  \E r \in rows : r.id = AssetOf(u) /\ OnDisk(r.path, req[u].content)
    <2>1. UploadStep(u)
      BY <1>1, UploadsRest DEF Rests
    <2>2. pc[u] \in Owing
      BY <1>1, <2>1, UploadSorts
         DEF Preparing, InsertUnanswered, Stands, Enters, Insert, LogStored, CleanupTemp,
             Announce, AnnouncePhoto, Owing, TypeInv, TypeOK, Ops
    <2> QED BY <1>1, <2>2 DEF GrowInv, StoredInv, RowsStand, RowStands, Matches
  <1>2. TypeInv /\ GrowInv /\ StoredInv /\ [Next]_vars
          => [\A u \in Uploads : pc[u] # "ok" /\ pc'[u] = "ok" =>
                 \E r \in rows : r.id = AssetOf(u) /\ OnDisk(r.path, req[u].content)]_vars
    BY <1>1
  <1>3. Spec => []GrowInv
    BY GrowInvHolds DEF NothingTaken
  <1> QED BY <1>2, <1>3, TypeCorrect, StoredInvHolds, PTL DEF Spec, AckedStored

-----------------------------------------------------------------------------
(* The steps of Library that the steps of the pipeline implement, under    *)
(* what each of them needs to know. The serial proofs use this too.        *)

LEMMA RefusedIn ==
    ASSUME NEW o \in Ops, NEW q \in Requests,
           Phase[o] \in {"idle", "asked"}, Phase' = [Phase EXCEPT ![o] = "err"],
           Asked' \in {Asked, [Asked EXCEPT ![o] = AssetIn(q)]}, UNCHANGED <<Kept, body>>
    PROVE  Promise!Next
  <1>1. Promise!Refuse(o)
    BY DEF Promise!Refuse, Promise!Goto
  <1> QED BY <1>1 DEF Promise!Next, Promise!Ops, Ops

USE DEF Kept, Phase, Asked

Stays == UNCHANGED <<Kept, Phase, Asked, body>>

LEMMA PhaseMoves ==
    ASSUME TypeOK, NEW o \in Ops, NEW label, Goto(o, label)
    PROVE  Phase' = [Phase EXCEPT ![o] = PhaseAt(label)]
  BY DEF TypeOK

\* An operation's step between two labels of one phase.
LEMMA PhaseStays ==
    ASSUME TypeOK, NEW o \in Ops, NEW label, Goto(o, label), PhaseAt(label) = PhaseAt(pc[o])
    PROVE  Phase' = Phase
  BY DEF TypeOK

LEMMA KeptStays ==
    ASSUME UNCHANGED rows, \A r \in rows : OnDisk(r.path, r.hash)' <=> OnDisk(r.path, r.hash)
    PROVE  Kept' = Kept
  <1>1. Readable' = Readable
    BY DEF Readable
  <1> QED BY <1>1

LEMMA AskedStays ==
    ASSUME NEW u \in Uploads, req' = req, \A o \in Ops \ Uploads : found'[o] = found[o]
    PROVE  Asked' = Asked
  BY DEF AssetAsked

LEMMA AskedOne ==
    ASSUME NEW o \in Ops, \A p \in Ops \ {o} : AssetAsked(p)' = AssetAsked(p)
    PROVE  Asked' = [Asked EXCEPT ![o] = AssetAsked(o)']
  OBVIOUS

\* What is asked for is an asset, and what a row names is one that was asked for.
LEMMA RowsAreAssets ==
    ASSUME TypeInv, AckInv, \A u \in Uploads : Carries(u), NEW r \in rows
    PROVE  AssetAt(r) \in {AssetIn(q) : q \in Requests}
  <1>1. r.id \in Uploads /\ Describes(r)
    BY DEF TypeInv, TypeOK, Row, AckInv
  <1>2. req[r.id] \in Requests
    BY <1>1, NullAssumption DEF Carries, Describes
  <1> QED BY <1>1, <1>2 DEF Describes, AssetAt, AssetIn

LEMMA UploadStays ==
    ASSUME TypeInv, NEW u \in Uploads, NEW label, Goto(u, label),
           PhaseAt(label) = PhaseAt(pc[u]), UNCHANGED <<rows, req, body>>,
           \A r \in rows : OnDisk(r.path, r.hash)' <=> OnDisk(r.path, r.hash),
           found' = found \/ \E r \in rows : found' = [found EXCEPT ![u] = r]
    PROVE  Stays
  <1>1. \A o \in Ops \ Uploads : found'[o] = found[o]
    BY DEF TypeInv, TypeOK, Ops
  <1> QED BY <1>1, PhaseStays, KeptStays, AskedStays DEF Stays, TypeInv, Ops

LEMMA UploadRefused ==
    ASSUME TypeInv, NEW u \in Uploads, Goto(u, "err"), PhaseAt(pc[u]) = "asked",
           UNCHANGED <<rows, disk, req, found, body>>
    PROVE  Promise!Next
  <1>1. Kept' = Kept /\ Asked' = Asked
    BY KeptStays, AskedStays DEF OnDisk
  <1>2. Phase[u] = "asked" /\ Phase' = [Phase EXCEPT ![u] = "err"]
    BY PhaseMoves DEF TypeInv, PhaseAt, Ended, Ops
  <1>3. Promise!Refuse(u)
    BY <1>1, <1>2 DEF Promise!Refuse, Promise!Goto
  <1> QED BY <1>3 DEF Promise!Next, Promise!Ops

LEMMA UploadConfirmed ==
    ASSUME TypeInv, NEW u \in Uploads, Goto(u, "ok"), PhaseAt(pc[u]) = "done",
           UNCHANGED <<rows, disk, req, found, body>>
    PROVE  Promise!Next
  <1>1. Kept' = Kept /\ Asked' = Asked
    BY KeptStays, AskedStays DEF OnDisk
  <1>2. Phase[u] = "done" /\ Phase' = [Phase EXCEPT ![u] = "ok"]
    BY PhaseMoves DEF TypeInv, PhaseAt, Ended, Ops
  <1>3. Promise!Confirm(u)
    BY <1>1, <1>2 DEF Promise!Confirm, Promise!Goto
  <1> QED BY <1>3 DEF Promise!Next, Promise!Ops

\* An upload hides and harms no other asset, the row it overwrites has its
\* file, and the file it inserts a row for is there.
Honours(u) ==
    /\ MoveByRename(u) \/ CopyToStage(u) \/ InstallStage(u) =>
          \A r \in rows : OnDisk(r.path, r.hash)' <=> OnDisk(r.path, r.hash)
    /\ Overwrite(u) /\ HasRow(found[u].id) => found[u] \in Readable
    /\ Insert(u) => OnDisk(dest[u], req[u].content)

LEMMA UploadSimulates ==
    ASSUME TypeInv, AckInv, ~May({"reply"}), NEW u \in Uploads, UploadStep(u), Honours(u)
    PROVE  Promise!Next \/ Stays
  <1> USE DEF TypeInv, Ops
  <1>1. CASE Receive(u)
    <2>1. /\ pc[u] = "idle" /\ UNCHANGED <<rows, disk, found, body>>
          /\ Goto(u, "receiving") \/ Goto(u, "err")
      BY <1>1 DEF Receive, MayBegin
    <2>2. PICK q \in Requests : req' = [req EXCEPT ![u] = q]
      BY <1>1 DEF Receive
    <2>3. Kept' = Kept
      BY <2>1, KeptStays DEF OnDisk
    <2>4. q # None /\ AssetAsked(u)' = AssetIn(q)
      BY <2>2, RequestAssumption, NullAssumption DEF AssetAsked, TypeOK
    <2>5. Asked' = [Asked EXCEPT ![u] = AssetIn(q)]
      BY <2>1, <2>2, <2>4, AskedOne DEF AssetAsked, TypeOK
    <2>6. CASE Goto(u, "receiving")
      <3>1. Phase' = [Phase EXCEPT ![u] = "asked"] /\ Phase[u] = "idle"
        BY <2>1, <2>6, PhaseMoves DEF PhaseAt, AfterEffect, Ended
      <3>2. Promise!Ask(u, AssetIn(q))
        BY <2>1, <2>3, <2>5, <3>1 DEF Promise!Ask, Promise!Goto
      <3> QED BY <3>2 DEF Promise!Next, Promise!Ops
    <2>7. CASE Goto(u, "err")
      <3>1. Phase' = [Phase EXCEPT ![u] = "err"] /\ Phase[u] = "idle"
        BY <2>1, <2>7, PhaseMoves DEF PhaseAt, Ended
      <3>2. Phase[u] \in {"idle", "asked"} /\ UNCHANGED <<Kept, body>>
        BY <2>1, <2>3, <3>1
      <3> HIDE DEF Kept, Phase, Asked
      <3> QED BY <2>5, <3>1, <3>2, RefusedIn
    <2> QED BY <2>1, <2>6, <2>7
  <1>2. CASE ReceiveAll(u)
    BY <1>2, UploadStays DEF ReceiveAll, PhaseAt, AfterEffect, Ended, OnDisk
  <1>3. CASE ReceiveFails(u)
    BY <1>3, UploadRefused DEF ReceiveFails, PhaseAt, AfterEffect, Ended, OnDisk
  <1>4. CASE LookupHit(u)
    BY <1>4, UploadStays DEF LookupHit, PhaseAt, AfterEffect, Ended, OnDisk
  <1>5. CASE LookupMiss(u)
    BY <1>5, UploadStays DEF LookupMiss, PhaseAt, AfterEffect, Ended, OnDisk
  <1>6. CASE Overwrite(u)
    <2>1. /\ pc[u] = "overwrite" /\ UNCHANGED <<rows, disk, req, found, body>>
          /\ Matches(found[u], u) /\ req[u] # None
      BY <1>6, NullAssumption
         DEF Overwrite, AckInv, TypeInv, Locals, UploadLocals, HasRequest, UploadSteps
    <2>2. CASE ~HasRow(found[u].id)
      BY <1>6, <2>2, UploadStays DEF Overwrite, PhaseAt, AfterEffect, Ended, OnDisk
    <2>3. CASE HasRow(found[u].id)
      <3>1. Goto(u, "logover") /\ found[u] \in Readable
        BY <1>6, <2>3 DEF Overwrite, Honours
      <3>2. AssetAt(found[u]) = AssetIn(req[u])
        BY <2>1 DEF Matches, AssetAt, AssetIn
      <3>3. AssetAsked(u) \in Kept
        BY <2>1, <3>1, <3>2 DEF AssetAsked
      <3>4. Kept' = Kept /\ Asked' = Asked
        BY <2>1, KeptStays, AskedStays DEF OnDisk
      <3>5. Phase[u] = "asked" /\ Phase' = [Phase EXCEPT ![u] = "done"]
        BY <2>1, <3>1, PhaseMoves DEF PhaseAt, AfterEffect, Ended
      <3>6. Promise!Store(u)
        BY <2>1, <3>3, <3>4, <3>5 DEF Promise!Store, Promise!Goto
      <3> QED BY <3>6 DEF Promise!Next
    <2> QED BY <2>2, <2>3
  <1>7. CASE Probe(u)
    BY <1>7, UploadStays DEF Probe, PhaseAt, AfterEffect, Ended, OnDisk
  <1>8. CASE MoveByRename(u)
    BY <1>8, UploadStays DEF MoveByRename, Honours, PhaseAt, AfterEffect, Ended
  <1>9. CASE CreateStage(u)
    BY <1>9, UploadStays DEF CreateStage, PhaseAt, AfterEffect, Ended, OnDisk
  <1>10. CASE CopyToStage(u)
    BY <1>10, UploadStays DEF CopyToStage, Honours, PhaseAt, AfterEffect, Ended
  <1>11. CASE InstallStage(u)
    BY <1>11, UploadStays DEF InstallStage, Honours, PhaseAt, AfterEffect, Ended
  <1>12. CASE UnlinkSource(u)
    BY <1>12, UploadStays DEF UnlinkSource, PhaseAt, AfterEffect, Ended, OnDisk
  <1>13. CASE MoveFails(u)
    BY <1>13, UploadStays DEF MoveFails, PhaseAt, AfterEffect, Ended, OnDisk
  <1>14. CASE Insert(u)
    <2>1. /\ pc[u] = "insert" /\ UNCHANGED <<disk, req, found, body>>
          /\ req[u] # None /\ OnDisk(dest[u], req[u].content)
      BY <1>14, NullAssumption
         DEF Insert, Honours, TypeInv, Locals, UploadLocals, HasRequest, UploadSteps
    <2>2. CASE UNCHANGED rows /\ Goto(u, "failing")
      BY <1>14, <2>1, <2>2, UploadStays DEF PhaseAt, AfterEffect, Ended, OnDisk
    <2>3. CASE Goto(u, "logup") /\ rows' = rows \cup {NewRow(u)}
      <3>1. NewRow(u) \in Readable' /\ AssetAt(NewRow(u)) = AssetIn(req[u])
        BY <2>1, <2>3 DEF Readable, OnDisk, NewRow, AssetAt, AssetIn
      <3>2. Readable' = Readable \cup {NewRow(u)}
        BY <2>1, <2>3, <3>1 DEF Readable, OnDisk
      <3>3. Kept' = Kept \cup {AssetAsked(u)}
        BY <2>1, <3>1, <3>2 DEF AssetAsked
      <3>4. Asked' = Asked
        BY <2>1, AskedStays
      <3>5. Phase[u] = "asked" /\ Phase' = [Phase EXCEPT ![u] = "done"]
        BY <2>1, <2>3, PhaseMoves DEF PhaseAt, AfterEffect, Ended
      <3>6. Promise!Store(u)
        BY <2>1, <3>3, <3>4, <3>5 DEF Promise!Store, Promise!Goto
      <3> QED BY <3>6 DEF Promise!Next
    <2> QED BY <1>14, <2>2, <2>3 DEF Insert
  <1>15. ~InsertUnanswered(u)
    BY DEF InsertUnanswered
  <1>16. CASE CallFails(u)
    BY <1>16, UploadStays DEF CallFails, PhaseAt, AfterEffect, Ended, OnDisk
  <1>17. CASE LogStored(u)
    BY <1>17, UploadStays DEF LogStored, PhaseAt, AfterEffect, Ended, OnDisk
  <1>18. CASE CleanupTemp(u)
    BY <1>18, UploadStays DEF CleanupTemp, PhaseAt, AfterEffect, Ended, OnDisk
  <1>19. CASE Announce(u)
    BY <1>19, UploadStays, UploadConfirmed DEF Announce, PhaseAt, AfterEffect, Ended, OnDisk
  <1>20. CASE AnnouncePhoto(u)
    BY <1>20, UploadStays, UploadConfirmed DEF AnnouncePhoto, PhaseAt, AfterEffect, Ended, OnDisk
  <1>21. CASE LogFailure(u)
    BY <1>21, UploadStays DEF LogFailure, PhaseAt, AfterEffect, Ended, OnDisk
  <1>22. CASE DropTemp(u)
    BY <1>22, UploadRefused DEF DropTemp, PhaseAt, AfterEffect, Ended, OnDisk
  <1> QED BY <1>1, <1>2, <1>3, <1>4, <1>5, <1>6, <1>7, <1>8, <1>9, <1>10, <1>11, <1>12, <1>13,
           <1>14, <1>15, <1>16, <1>17, <1>18, <1>19, <1>20, <1>21, <1>22 DEF UploadStep

\* The steps of a deletion or a read that only end it, or only go on.
LEMMA OtherMoves ==
    ASSUME TypeInv, NEW o \in Ops \ Uploads, NEW label, Goto(o, label),
           UNCHANGED <<rows, req, found, body>>,
           \A r \in rows : OnDisk(r.path, r.hash)' <=> OnDisk(r.path, r.hash),
           \/ PhaseAt(label) = PhaseAt(pc[o])
           \/ label = "err" /\ PhaseAt(pc[o]) \in {"idle", "asked"}
           \/ label = "ok" /\ PhaseAt(pc[o]) = "done"
    PROVE  Promise!Next \/ Stays
  <1>1. Kept' = Kept /\ Asked' = Asked
    BY KeptStays DEF AssetAsked
  <1>2. Phase' = [Phase EXCEPT ![o] = PhaseAt(label)] /\ Phase[o] = PhaseAt(pc[o])
    BY PhaseMoves DEF TypeInv
  <1>3. CASE PhaseAt(label) = PhaseAt(pc[o])
    BY <1>1, <1>3, PhaseStays DEF Stays, TypeInv
  <1>4. CASE label = "err" /\ PhaseAt(pc[o]) \in {"idle", "asked"}
    <2>1. Promise!Refuse(o)
      BY <1>1, <1>2, <1>4 DEF Promise!Refuse, Promise!Goto, PhaseAt, Ended
    <2> QED BY <2>1 DEF Promise!Next, Promise!Ops, Ops
  <1>5. CASE label = "ok" /\ PhaseAt(pc[o]) = "done"
    <2>1. Promise!Confirm(o)
      BY <1>1, <1>2, <1>5 DEF Promise!Confirm, Promise!Goto, PhaseAt, Ended
    <2> QED BY <2>1 DEF Promise!Next, Promise!Ops, Ops
  <1> QED BY <1>3, <1>4, <1>5

\* A lookup that returned a row.
LEMMA LookupAsks ==
    ASSUME TypeInv, NEW o \in Ops \ Uploads, NEW label, Goto(o, label), pc[o] = "idle",
           PhaseAt(label) = "asked",
           NEW r \in Readable, AssetAt(r) \in {AssetIn(q) : q \in Requests},
           found' = [found EXCEPT ![o] = r], UNCHANGED <<rows, disk, req, body>>
    PROVE  Promise!Next
  <1>1. Kept' = Kept
    BY KeptStays DEF OnDisk
  <1>2. AssetAt(r) \in Kept
    OBVIOUS
  <1>3. r # None
    BY NullAssumption DEF TypeInv, TypeOK, Readable
  <1>4. AssetAsked(o)' = AssetAt(r)
    BY <1>3 DEF AssetAsked, TypeInv, TypeOK
  <1>5. Asked' = [Asked EXCEPT ![o] = AssetAt(r)]
    BY <1>4, AskedOne DEF AssetAsked, TypeInv, TypeOK
  <1>6. Phase[o] = "idle" /\ Phase' = [Phase EXCEPT ![o] = "asked"]
    BY PhaseMoves DEF PhaseAt, Ended, TypeInv
  <1>7. Promise!Ask(o, AssetAt(r))
    BY <1>1, <1>2, <1>5, <1>6 DEF Promise!Ask, Promise!Goto
  <1> QED BY <1>7 DEF Promise!Next, Promise!Ops, Ops

LEMMA ReadSimulates ==
    ASSUME TypeInv, AckInv, \A u \in Uploads : Carries(u), NEW g \in Reads, ReadStep(g),
           pc[g] \in {"idle", "open"} => \A r \in rows : r \in Readable,
           pc[g] = "open" => found[g] \in rows,
           \A f \in disk : pc[g] = "open" /\ f.path = found[g].path => f.content = found[g].hash
    PROVE  Promise!Next \/ Stays
  <1> USE OpsAssumption DEF Ops
  <1>1. CASE FindForRead(g)
    <2>1. pc[g] = "idle" /\ UNCHANGED <<rows, disk, req, body>>
      BY <1>1 DEF FindForRead, MayBegin
    <2>2. ASSUME NEW r \in rows, found' = [found EXCEPT ![g] = r], Goto(g, "open")
          PROVE  Promise!Next
      BY <2>1, <2>2, LookupAsks, RowsAreAssets DEF PhaseAt, AfterEffect, Ended
    <2>3. CASE UNCHANGED found /\ Goto(g, "err")
      BY <2>1, <2>3, OtherMoves DEF PhaseAt, Ended, OnDisk
    <2> QED BY <1>1, <2>2, <2>3 DEF FindForRead
  <1>2. CASE ServeFile(g)
    <2>1. /\ pc[g] = "open" /\ found[g] \in rows /\ found[g] \in Readable /\ found[g] # None
          /\ UNCHANGED <<rows, disk, req, found>>
      BY <1>2, NullAssumption DEF ServeFile, TypeInv, TypeOK
    <2>2. CASE UNCHANGED body /\ Goto(g, "err")
      BY <2>1, <2>2, OtherMoves DEF PhaseAt, AfterEffect, Ended, OnDisk
    <2>3. ASSUME NEW f \in disk, f.path = found[g].path,
                 body' = [body EXCEPT ![g] = f.content], Goto(g, "ok")
          PROVE  Promise!Next
      <3>1. AssetAsked(g) = AssetAt(found[g]) /\ AssetAt(found[g]).content = f.content
        BY <2>1, <2>3 DEF AssetAsked, AssetAt
      <3>2. AssetAsked(g) \in Kept
        BY <2>1, <3>1
      <3>3. Kept' = Kept /\ Asked' = Asked
        BY <2>1, KeptStays DEF AssetAsked, OnDisk
      <3>4. Phase[g] = "asked" /\ Phase' = [Phase EXCEPT ![g] = "ok"]
        BY <2>1, <2>3, PhaseMoves DEF PhaseAt, AfterEffect, Ended, TypeInv
      <3>5. Promise!Serve(g)
        BY <2>3, <3>1, <3>2, <3>3, <3>4 DEF Promise!Serve, Promise!Goto
      <3> QED BY <3>5 DEF Promise!Next
    <2> QED BY <1>2, <2>2, <2>3 DEF ServeFile
  <1> QED BY <1>1, <1>2 DEF ReadStep

LEMMA CrashSimulates ==
    ASSUME TypeInv, Crash
    PROVE  Promise!Next
  <1>1. \A o \in Ops : Active(o) <=> Phase[o] \in {"asked", "done"}
    BY DEF Active, PhaseAt, AfterEffect, Ended
  <1>2. Phase' = [o \in Ops |-> IF Phase[o] \in {"asked", "done"} THEN "lost" ELSE Phase[o]]
    BY <1>1 DEF Crash, PhaseAt, Ended
  <1>3. Kept' = Kept /\ Asked' = Asked /\ UNCHANGED body
    BY KeptStays DEF Crash, OnDisk, AssetAsked
  <1>4. Promise!Crash
    BY <1>2, <1>3 DEF Promise!Crash, Promise!Ops, Ops
  <1> QED BY <1>4 DEF Promise!Next

LEMMA InitSimulates == Init => Promise!Init
  BY OpsAssumption
     DEF Init, Promise!Init, Promise!Ops, Readable, PhaseAt, Ended, AssetAsked, Ops

LEMMA RacingStepSimulates ==
    ASSUME TypeInv, AckInv, HonestInv, GrowInv, StoredInv, OneContentPerPath, NothingTaken,
           ~May({"reply"}), [Next]_vars
    PROVE  [Promise!Next]_Promise!vars
  <1>0. Stays => UNCHANGED Promise!vars
    BY DEF Stays, Promise!vars
  <1>1. \A r \in rows : r \in Readable
    BY DEF StoredInv, Readable
  <1>2. ASSUME NEW u \in Uploads, UploadStep(u)  PROVE Promise!Next \/ Stays
    <2>1. MoveByRename(u) \/ CopyToStage(u) \/ InstallStage(u) =>
            \A r \in rows : OnDisk(r.path, r.hash)' <=> OnDisk(r.path, r.hash)
      BY FilesStay DEF StoredInv
    <2>2. Overwrite(u) => found[u] \in Readable
      BY <1>1 DEF Overwrite, GrowInv, FoundKnown
    <2>3. Insert(u) => OnDisk(dest[u], req[u].content)
      BY DEF Insert, StoredInv
    <2> QED BY <1>2, <2>1, <2>2, <2>3, UploadSimulates DEF Honours
  <1>3. ASSUME NEW g \in Reads, ReadStep(g)  PROVE Promise!Next \/ Stays
    <2>1. pc[g] = "open" => found[g] \in rows
      BY DEF GrowInv, ReadsStand
    <2>2. \A f \in disk : pc[g] = "open" /\ f.path = found[g].path => f.content = found[g].hash
      BY <2>1, PathTells DEF HonestInv
    <2> QED BY <1>1, <1>3, <2>1, <2>2, ReadSimulates DEF HonestInv
  <1>4. ASSUME UNCHANGED vars  PROVE Stays
    BY <1>4 DEF vars, Stays, Readable, OnDisk, AssetAsked
  <1> QED
    BY <1>0, <1>2, <1>3, <1>4, CrashSimulates
       DEF Next, NothingTaken, FtpDelete, FtpRename, Finished

\* Uploads and reads that overlap take effect one at a time, each between its
\* request and its answer, and what took effect survives the process: as long
\* as a name stands for one content within a directory, nothing is deleted and
\* no statement that took effect is reported as failed.
THEOREM RacingLibraryKept ==
    ASSUME OneContentPerPath, NothingTaken, ~May({"reply"})  PROVE Spec => LibraryKept
  <1>1. TypeInv /\ AckInv /\ HonestInv /\ GrowInv /\ StoredInv /\ [Next]_vars
          => [Promise!Next]_Promise!vars
    BY RacingStepSimulates
  <1>2. Spec => []HonestInv /\ []GrowInv
    BY HonestInvHolds, GrowInvHolds DEF NothingTaken
  <1> QED
    BY <1>1, <1>2, InitSimulates, TypeCorrect, AckInvHolds, StoredInvHolds, PTL
       DEF Spec, LibraryKept, Promise!Spec
=============================================================================
