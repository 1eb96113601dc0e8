--------------------------- MODULE MediaPipeline ---------------------------
(***************************************************************************)
(* The life of a media file: it is received over FTP into a temporary      *)
(* file, hashed, moved into the storage volume, recorded in PostgreSQL and *)
(* announced on the WebSocket hub; it is served by the API, overwritten by *)
(* a second upload of the same name and content, and deleted.              *)
(*                                                                         *)
(*   ftpserver/manager.go   PutFile, DeleteFile, Rename                    *)
(*   media/service.go       HandleUploadedFile, DeletePhoto                *)
(*   storage/local.go       WriteTemp, MoveFile, Remove                    *)
(*   api/handlers.go        GetPhotoContent                                *)
(*                                                                         *)
(* No lock and no transaction spans two of the calls these handlers make   *)
(* to the volume, the database and the hub, so each call is one action.    *)
(* The volume and the tables are the only state that outlives the process. *)
(*                                                                         *)
(* A definition whose name has the form Action_Fault is Action with the    *)
(* fault it is named for. Spec uses none of them: putting one in the place *)
(* of its action shows that a property can tell the difference.            *)
(***************************************************************************)
EXTENDS Naturals, Sequences

CONSTANTS
    Uploads,      \* FTP STOR commands, one-shot; also the uuid of the row each may insert
    Deletes,      \* DELETE /api/photos/:id requests
    Reads,        \* GET /api/photos/:id/content requests
    Dirs, Root,   \* upload directories; Root is the empty one
    Days,         \* the directories named after a date
    Stems,        \* file names as a client may write them
    Contents,     \* file contents; SHA-256, and its first 8 characters, are injective
    Photos,       \* the (stem, content) pairs sniffed as image/...
    Requests,     \* what clients store: records [dir, name, content]
    Waiting,      \* operations whose clients wait for one another's answers
    CrossDevice,  \* TRUE: the temporary files are on another device (EXDEV)
    Faults,       \* what may go wrong, see FaultKinds
    FtpFileOps,   \* the FTP commands on stored files that clients use
    None

FaultKinds ==
    { "net",      \* the FTP data connection breaks before the end of the file
      "fs",       \* a system call on the volume fails
      "db",       \* a statement fails, or its request context is cancelled
      "reply",    \* a statement takes effect but its reply is lost
      "crash" }   \* the process is killed; a restart serves the later requests

\* A name: what the client wrote, then the hash suffixes the service added.
FileName == [stem : Stems, marks : Seq(Contents)]
Path     == [dir : Dirs, file : FileName]
Request  == [dir : Dirs, name : FileName, content : Contents]
Row      == [id : Uploads, name : FileName, path : Path, hash : Contents]
Ops      == Uploads \cup Deletes \cup Reads

\* What a file can hold: a content, or the part that an upload has written of
\* it so far, which is named after the upload.
Data     == Contents \cup Uploads

ASSUME OpsAssumption ==
    /\ Uploads \cap Deletes = {} /\ Uploads \cap Reads = {} /\ Deletes \cap Reads = {}
ASSUME RequestAssumption ==
    /\ Root \in Dirs /\ Days \subseteq Dirs \ {Root}
    /\ Photos \subseteq Stems \X Contents
    /\ Requests \subseteq Request
ASSUME SwitchAssumption ==
    /\ Waiting \subseteq Ops /\ CrossDevice \in BOOLEAN
    /\ Faults \subseteq FaultKinds /\ FtpFileOps \subseteq {"DELE", "RNTO"}
ASSUME NullAssumption ==
    /\ None \notin Data /\ Contents \cap Uploads = {}
    /\ None \notin Request /\ None \notin Row /\ None \notin Path

VARIABLES
    rows,       \* table media_assets
    disk,       \* files under the storage root, as [path, content]
    tmp,        \* per upload, its file in the temporary directory
    stage,      \* per upload, its .move-* file next to the destination
    ledger,     \* table transfer_events, as <<event_type, operation>>
    lastEvent,  \* per asset id, the last event broadcast about it
    unlinked,   \* history: the asset ids whose file a DeletePhoto removed
    taken,      \* history: the uploads whose staged file an FTP client renamed
    pc,         \* where each operation is
    req,        \* per upload, what the client is storing
    found,      \* per operation, the row its lookup returned
    dest,       \* per upload, the storage path chosen for it
    body        \* per read, the content that was served

stores  == <<rows, disk, tmp, stage>>
journal == <<ledger, lastEvent>>
history == <<unlinked, taken>>
locals  == <<req, found, dest, body>>
vars    == <<stores, journal, history, pc, locals>>

UploadSteps == { "receiving", "lookup", "overwrite", "probe", "move", "copy",
                 "install", "unlink", "insert", "logup", "logover", "cleanup",
                 "announce", "announcephoto", "failing", "drop" }
DeleteSteps == {"remove", "erase", "logdel", "announcedel"}
ReadSteps   == {"open"}
Ended       == {"ok", "err", "lost"}
Labels      == UploadSteps \cup DeleteSteps \cup ReadSteps \cup Ended \cup {"idle"}

FeedEvents  == {"asset-uploaded", "asset-overwritten", "photo-added", "photo-deleted"}

TypeOK ==
    /\ rows \subseteq Row
    /\ disk \subseteq [path : Path, content : Data]
    /\ tmp \in [Uploads -> Data \cup {None}]
    /\ stage \in [Uploads -> Data \cup {None}]
    /\ ledger \subseteq {"uploaded", "overwritten", "failed", "deleted"} \X Ops
    /\ lastEvent \in [Uploads -> FeedEvents \cup {None}]
    /\ unlinked \subseteq Uploads /\ taken \subseteq Uploads
    /\ pc \in [Ops -> Labels]
    /\ req \in [Uploads -> Request \cup {None}]
    /\ found \in [Ops -> Row \cup {None}]
    /\ dest \in [Uploads -> Path \cup {None}]
    /\ body \in [Reads -> Data \cup {None}]

Init ==
    /\ rows = {} /\ disk = {} /\ ledger = {} /\ unlinked = {} /\ taken = {}
    /\ tmp = [u \in Uploads |-> None]
    /\ stage = [u \in Uploads |-> None]
    /\ lastEvent = [u \in Uploads |-> None]
    /\ pc = [o \in Ops |-> "idle"]
    /\ req = [u \in Uploads |-> None]
    /\ found = [o \in Ops |-> None]
    /\ dest = [u \in Uploads |-> None]
    /\ body = [r \in Reads |-> None]

-----------------------------------------------------------------------------
(* Helpers                                                                 *)

Active(o)       == pc[o] \notin Ended \cup {"idle"}
MayBegin(o)     == pc[o] = "idle" /\ (o \in Waiting => \A p \in Waiting : ~Active(p))
Goto(o, label)  == pc' = [pc EXCEPT ![o] = label]
May(kinds)      == Faults \cap kinds # {}

OnDisk(p, c)    == [path |-> p, content |-> c] \in disk
Exists(p)       == \E f \in disk : f.path = p
Without(p)      == {f \in disk : f.path # p}
Put(p, c)       == Without(p) \cup {[path |-> p, content |-> c]}

HasRow(id)      == \E r \in rows : r.id = id
PathTaken(p)    == \E r \in rows : r.path = p
IsPhoto(r)      == <<r.name.stem, r.hash>> \in Photos
Matches_NameOnly(r, u)    == r.name = req[u].name
Matches_InDirectory(r, u) == /\ r.path.dir = req[u].dir
                             /\ r.name = req[u].name /\ r.hash = req[u].content
Matches(r, u)   == r.name = req[u].name /\ r.hash = req[u].content
NewRow(u)       == [id   |-> u, name |-> req[u].name,
                    path |-> dest[u], hash |-> req[u].content]

AssetOf_Fresh(u) == u
\* The asset an upload ends up being: the row it overwrote or the one it inserted.
AssetOf(u)      == IF found[u] = None THEN u ELSE found[u].id

WithHashSuffix(name, hash) == [stem |-> name.stem, marks |-> Append(name.marks, hash)]

StorageRelativePath_NoHash(dir, name, hash) ==
    {[dir |-> d, file |-> name] : d \in IF dir # Root THEN {dir} ELSE Days}

\* The paths generateStorageRelativePath may return: time.Now() picks the day.
StorageRelativePath(dir, name, hash) ==
    IF dir # Root THEN {[dir |-> dir, file |-> name]}
                  ELSE {[dir |-> d, file |-> WithHashSuffix(name, hash)] : d \in Days}

\* InsertTransferEvent: its error is dropped by every caller.
Record(type, o) ==
    \/ ledger' = ledger \cup {<<type, o>>}
    \/ May({"db"}) /\ UNCHANGED ledger

\* os.Remove(tempPath) with its error dropped; the file may already be gone.
RemoveTemp(u) ==
    \/ tmp' = [tmp EXCEPT ![u] = None]
    \/ May({"fs"}) /\ UNCHANGED tmp

-----------------------------------------------------------------------------
(* Upload: PutFile and HandleUploadedFile                                  *)

Receive(u) ==
    /\ MayBegin(u)
    /\ \E q \in Requests : req' = [req EXCEPT ![u] = q]
    /\ \/ tmp' = [tmp EXCEPT ![u] = u] /\ Goto(u, "receiving")
       \/ May({"fs"}) /\ UNCHANGED tmp /\ Goto(u, "err")
    /\ UNCHANGED <<rows, disk, stage, journal, history, found, dest, body>>

ReceiveAll(u) ==
    /\ pc[u] = "receiving"
    /\ tmp' = [tmp EXCEPT ![u] = req[u].content]
    /\ Goto(u, "lookup")
    /\ UNCHANGED <<rows, disk, stage, journal, history, locals>>

ReceiveFails_Unreported(u) ==
    /\ pc[u] = "receiving" /\ May({"net", "fs"})
    /\ RemoveTemp(u)
    /\ Goto(u, "lookup")
    /\ UNCHANGED <<rows, disk, stage, journal, history, locals>>

\* io.Copy fails: WriteTemp removes what was received.
ReceiveFails(u) ==
    /\ pc[u] = "receiving" /\ May({"net", "fs"})
    /\ RemoveTemp(u)
    /\ Goto(u, "err")
    /\ UNCHANGED <<rows, disk, stage, journal, history, locals>>

\* The temporary file is hashed and its name and hash are looked up.
LookupHit(u) ==
    /\ pc[u] = "lookup"
    /\ \E r \in rows : Matches(r, u) /\ found' = [found EXCEPT ![u] = r]
    /\ Goto(u, "overwrite")
    /\ UNCHANGED <<stores, journal, history, req, dest, body>>

LookupMiss(u) ==
    /\ pc[u] = "lookup"
    /\ \A r \in rows : ~Matches(r, u)
    /\ Goto(u, "probe")
    /\ UNCHANGED <<stores, journal, history, locals>>

\* UPDATE ... RETURNING: no row when the asset was deleted in the meantime.
\* The columns it sets follow from the name and the content, which are the same.
Overwrite(u) ==
    /\ pc[u] = "overwrite"
    /\ Goto(u, IF HasRow(found[u].id) THEN "logover" ELSE "failing")
    /\ UNCHANGED <<stores, journal, history, locals>>

Probe_NoConflict(u) ==
    /\ pc[u] = "probe"
    /\ \E p \in StorageRelativePath(req[u].dir, req[u].name, req[u].content) :
         dest' = [dest EXCEPT ![u] = p]
    /\ Goto(u, "move")
    /\ UNCHANGED <<stores, journal, history, req, found, body>>

\* The path of the request, or, when a row holds it, a suffixed one that is
\* not looked up again.
Probe(u) ==
    /\ pc[u] = "probe"
    /\ LET Candidates(name) == StorageRelativePath(req[u].dir, name, req[u].content)
       IN \E p \in Candidates(req[u].name) :
            \/ ~PathTaken(p) /\ dest' = [dest EXCEPT ![u] = p]
            \/ /\ PathTaken(p)
               /\ \E s \in Candidates(WithHashSuffix(req[u].name, req[u].content)) :
                    dest' = [dest EXCEPT ![u] = s]
    /\ Goto(u, "move")
    /\ UNCHANGED <<stores, journal, history, req, found, body>>

\* MoveFile on one device: rename(2) replaces whatever is at the destination.
MoveByRename(u) ==
    /\ pc[u] = "move" /\ ~CrossDevice
    /\ disk' = Put(dest[u], tmp[u])
    /\ tmp' = [tmp EXCEPT ![u] = None]
    /\ Goto(u, "insert")
    /\ UNCHANGED <<rows, stage, journal, history, locals>>

CreateStage_NotCopied(u) ==
    /\ pc[u] = "move" /\ CrossDevice
    /\ stage' = [stage EXCEPT ![u] = u]
    /\ Goto(u, "install")
    /\ UNCHANGED <<rows, disk, tmp, journal, history, locals>>

\* MoveFile across devices: create, copy and sync, rename, remove the source.
CreateStage(u) ==
    /\ pc[u] = "move" /\ CrossDevice
    /\ stage' = [stage EXCEPT ![u] = u]
    /\ Goto(u, "copy")
    /\ UNCHANGED <<rows, disk, tmp, journal, history, locals>>

\* The file is written through a descriptor: under its staged name, under the
\* one that an FTP client gave it meanwhile, or under none.
CopyToStage(u) ==
    /\ pc[u] = "copy"
    /\ stage' = [stage EXCEPT ![u] = IF @ = None THEN None ELSE tmp[u]]
    /\ disk' = {[path |-> f.path, content |-> IF f.content = u THEN tmp[u] ELSE f.content] :
                   f \in disk}
    /\ Goto(u, "install")
    /\ UNCHANGED <<rows, tmp, journal, history, locals>>

InstallStage(u) ==
    /\ pc[u] = "install" /\ stage[u] # None
    /\ disk' = Put(dest[u], stage[u])
    /\ stage' = [stage EXCEPT ![u] = None]
    /\ Goto(u, "unlink")
    /\ UNCHANGED <<rows, tmp, journal, history, locals>>

UnlinkSource(u) ==
    /\ pc[u] = "unlink"
    /\ tmp' = [tmp EXCEPT ![u] = None]
    /\ Goto(u, "insert")
    /\ UNCHANGED <<rows, disk, stage, journal, history, locals>>

\* Any call of MoveFile fails, the rename of a staged file that is gone too;
\* the deferred function tries to remove the staged file. At "unlink" the
\* destination is already installed.
MoveFails(u) ==
    /\ \/ pc[u] \in {"move", "copy", "install", "unlink"} /\ May({"fs"})
       \/ pc[u] = "install" /\ stage[u] = None
    /\ stage' \in {stage, [stage EXCEPT ![u] = None]}
    /\ Goto(u, "failing")
    /\ UNCHANGED <<rows, disk, tmp, journal, history, locals>>

Insert_ConflictIgnored(u) ==
    /\ pc[u] = "insert"
    /\ rows' = IF PathTaken(dest[u]) THEN rows ELSE rows \cup {NewRow(u)}
    /\ Goto(u, "logup")
    /\ UNCHANGED <<disk, tmp, stage, journal, history, locals>>

Insert_FileDropped(u) ==
    /\ pc[u] = "insert"
    /\ \/ /\ ~PathTaken(dest[u])
          /\ rows' = rows \cup {NewRow(u)} /\ UNCHANGED disk
          /\ Goto(u, "logup")
       \/ /\ PathTaken(dest[u])
          /\ disk' = Without(dest[u]) /\ UNCHANGED rows
          /\ Goto(u, "failing")
    /\ UNCHANGED <<tmp, stage, journal, history, locals>>

\* INSERT, refused by the UNIQUE constraint on storage_path.
Insert(u) ==
    /\ pc[u] = "insert"
    /\ \/ ~PathTaken(dest[u]) /\ rows' = rows \cup {NewRow(u)} /\ Goto(u, "logup")
       \/ PathTaken(dest[u]) /\ UNCHANGED rows /\ Goto(u, "failing")
    /\ UNCHANGED <<disk, tmp, stage, journal, history, locals>>

\* The INSERT is committed and the connection lost before its reply.
InsertUnanswered(u) ==
    /\ pc[u] = "insert" /\ May({"reply"}) /\ ~PathTaken(dest[u])
    /\ rows' = rows \cup {NewRow(u)}
    /\ Goto(u, "failing")
    /\ UNCHANGED <<disk, tmp, stage, journal, history, locals>>

\* Reading the temporary file, or a statement, fails.
CallFails(u) ==
    /\ \/ pc[u] = "lookup" /\ May({"fs"})
       \/ pc[u] \in {"lookup", "overwrite", "probe", "insert"} /\ May({"db"})
    /\ Goto(u, "failing")
    /\ UNCHANGED <<stores, journal, history, locals>>

\* The foreign key refuses the event when the asset is already deleted.
LogStored(u) ==
    /\ pc[u] \in {"logup", "logover"}
    /\ IF HasRow(AssetOf(u))
       THEN Record(IF pc[u] = "logup" THEN "uploaded" ELSE "overwritten", u)
       ELSE UNCHANGED ledger
    /\ Goto(u, IF pc[u] = "logup" THEN "announce" ELSE "cleanup")
    /\ UNCHANGED <<stores, lastEvent, history, locals>>

CleanupTemp(u) ==
    /\ pc[u] = "cleanup"
    /\ RemoveTemp(u)
    /\ Goto(u, "announce")
    /\ UNCHANGED <<rows, disk, stage, journal, history, locals>>

Announce(u) ==
    /\ pc[u] = "announce"
    /\ lastEvent' = [lastEvent EXCEPT ![AssetOf(u)] =
                       IF found[u] = None THEN "asset-uploaded" ELSE "asset-overwritten"]
    /\ Goto(u, IF <<req[u].name.stem, req[u].content>> \in Photos
               THEN "announcephoto" ELSE "ok")
    /\ UNCHANGED <<stores, ledger, history, locals>>

AnnouncePhoto(u) ==
    /\ pc[u] = "announcephoto"
    /\ lastEvent' = [lastEvent EXCEPT ![AssetOf(u)] = "photo-added"]
    /\ Goto(u, "ok")
    /\ UNCHANGED <<stores, ledger, history, locals>>

LogFailure(u) ==
    /\ pc[u] = "failing"
    /\ Record("failed", u)
    /\ Goto(u, "drop")
    /\ UNCHANGED <<stores, lastEvent, history, locals>>

DropTemp_Forgotten(u) ==
    /\ pc[u] = "drop"
    /\ Goto(u, "err")
    /\ UNCHANGED <<stores, journal, history, locals>>

\* PutFile removes the temporary file of a refused upload.
DropTemp(u) ==
    /\ pc[u] = "drop"
    /\ RemoveTemp(u)
    /\ Goto(u, "err")
    /\ UNCHANGED <<rows, disk, stage, journal, history, locals>>

UploadStep(u) ==
    \/ Receive(u) \/ ReceiveAll(u) \/ ReceiveFails(u)
    \/ LookupHit(u) \/ LookupMiss(u) \/ Overwrite(u) \/ Probe(u)
    \/ MoveByRename(u) \/ CreateStage(u) \/ CopyToStage(u)
    \/ InstallStage(u) \/ UnlinkSource(u) \/ MoveFails(u)
    \/ Insert(u) \/ InsertUnanswered(u) \/ CallFails(u)
    \/ LogStored(u) \/ CleanupTemp(u) \/ Announce(u) \/ AnnouncePhoto(u)
    \/ LogFailure(u) \/ DropTemp(u)

-----------------------------------------------------------------------------
(* Deletion: DeletePhoto                                                   *)

\* An id without a photo row, or a failed query, ends the request.
FindForDelete(d) ==
    /\ MayBegin(d)
    /\ \/ \E r \in rows : /\ IsPhoto(r)
                          /\ found' = [found EXCEPT ![d] = r]
                          /\ Goto(d, "remove")
       \/ UNCHANGED found /\ Goto(d, "err")
    /\ UNCHANGED <<stores, journal, history, req, dest, body>>

RemoveFile_Forgotten(d) ==
    /\ pc[d] = "remove"
    /\ unlinked' = unlinked \cup {found[d].id}
    /\ Goto(d, "erase")
    /\ UNCHANGED <<stores, journal, taken, locals>>

RemoveFile(d) ==
    /\ pc[d] = "remove"
    /\ \/ /\ Exists(found[d].path)
          /\ disk' = Without(found[d].path)
          /\ unlinked' = unlinked \cup {found[d].id}
          /\ Goto(d, "erase")
       \/ /\ ~Exists(found[d].path) \/ May({"fs"})
          /\ UNCHANGED <<disk, unlinked>>
          /\ Goto(d, "err")
    /\ UNCHANGED <<rows, tmp, stage, journal, taken, locals>>

EraseRow(d) ==
    /\ pc[d] = "erase"
    /\ \/ HasRow(found[d].id) /\ Goto(d, "logdel")
       \/ ~HasRow(found[d].id) /\ Goto(d, "err")
       \/ HasRow(found[d].id) /\ May({"reply"}) /\ Goto(d, "err")
    /\ rows' = {r \in rows : r.id # found[d].id}
    /\ UNCHANGED <<disk, tmp, stage, journal, history, locals>>

EraseFails(d) ==
    /\ pc[d] = "erase" /\ May({"db"})
    /\ Goto(d, "err")
    /\ UNCHANGED <<stores, journal, history, locals>>

LogDelete_WithAssetId(d) ==
    /\ pc[d] = "logdel"
    /\ IF HasRow(found[d].id) THEN Record("deleted", d) ELSE UNCHANGED ledger
    /\ Goto(d, "announcedel")
    /\ UNCHANGED <<stores, lastEvent, history, locals>>

LogDelete(d) ==
    /\ pc[d] = "logdel"
    /\ Record("deleted", d)
    /\ Goto(d, "announcedel")
    /\ UNCHANGED <<stores, lastEvent, history, locals>>

AnnounceDelete(d) ==
    /\ pc[d] = "announcedel"
    /\ lastEvent' = [lastEvent EXCEPT ![found[d].id] = "photo-deleted"]
    /\ Goto(d, "ok")
    /\ UNCHANGED <<stores, ledger, history, locals>>

DeleteStep(d) ==
    \/ FindForDelete(d) \/ RemoveFile(d) \/ EraseRow(d) \/ EraseFails(d)
    \/ LogDelete(d) \/ AnnounceDelete(d)

-----------------------------------------------------------------------------
(* Serving: GetPhotoContent. Then the FTP commands that act on the volume  *)
(* alone, and the death of the process.                                    *)

FindForRead(r) ==
    /\ MayBegin(r)
    /\ \/ \E a \in rows : /\ IsPhoto(a)
                          /\ found' = [found EXCEPT ![r] = a]
                          /\ Goto(r, "open")
       \/ UNCHANGED found /\ Goto(r, "err")
    /\ UNCHANGED <<stores, journal, history, req, dest, body>>

ServeFile(r) ==
    /\ pc[r] = "open"
    /\ \/ \E f \in disk : /\ f.path = found[r].path
                          /\ body' = [body EXCEPT ![r] = f.content]
                          /\ Goto(r, "ok")
       \/ /\ ~Exists(found[r].path) \/ May({"fs"})
          /\ UNCHANGED body /\ Goto(r, "err")
    /\ UNCHANGED <<stores, journal, history, req, found, dest>>

ReadStep(r) == FindForRead(r) \/ ServeFile(r)

\* The driver's DeleteFile and Rename know nothing of media_assets; they reach
\* every file under the storage root, staged ones included.
FtpDelete ==
    /\ "DELE" \in FtpFileOps
    /\ \/ \E f \in disk : disk' = Without(f.path) /\ UNCHANGED stage
       \/ \E u \in Uploads : /\ stage[u] # None
                             /\ stage' = [stage EXCEPT ![u] = None]
                             /\ UNCHANGED disk
    /\ UNCHANGED <<rows, tmp, journal, history, pc, locals>>

FtpRename ==
    /\ "RNTO" \in FtpFileOps
    /\ \E q \in Requests :
         LET to == [dir |-> q.dir, file |-> q.name]
         IN \/ /\ \E f \in disk :
                    disk' = {g \in disk : g.path \notin {f.path, to}}
                              \cup {[path |-> to, content |-> f.content]}
               /\ UNCHANGED <<stage, taken>>
            \/ \E u \in Uploads :
                 /\ stage[u] # None
                 /\ disk' = Put(to, stage[u])
                 /\ stage' = [stage EXCEPT ![u] = None]
                 /\ taken' = taken \cup {u}
    /\ UNCHANGED <<rows, tmp, journal, unlinked, pc, locals>>

\* The operations in flight are gone, with whatever they left behind.
Crash ==
    /\ May({"crash"}) /\ \E o \in Ops : Active(o)
    /\ pc' = [o \in Ops |-> IF Active(o) THEN "lost" ELSE pc[o]]
    /\ UNCHANGED <<stores, journal, history, locals>>

\* The instance's requests are used up: the only way it stops.
Finished ==
    /\ \A o \in Ops : pc[o] \in Ended
    /\ UNCHANGED vars

Next ==
    \/ \E u \in Uploads : UploadStep(u)
    \/ \E d \in Deletes : DeleteStep(d)
    \/ \E r \in Reads : ReadStep(r)
    \/ FtpDelete \/ FtpRename \/ Crash \/ Finished

Spec == Init /\ [][Next]_vars

-----------------------------------------------------------------------------
(* Properties                                                              *)

Quiet == \A o \in Ops : ~Active(o)

\* A file under its final name is the torn part of an upload only if an FTP
\* client gave that name to the staged file, and the upload is never
\* acknowledged: the service itself installs files by a rename, after the
\* whole content was received and copied.
NoTornFile ==
    \A f \in disk : f.content \in Uploads => f.content \in taken /\ pc[f.content] # "ok"

\* The server answers 226 only when some row stands, or stood until
\* DeletePhoto removed its file, for the name and the content that were
\* sent: what races the upload may refuse it, never have it acknowledged
\* and unrecorded.
AckedRecorded ==
    \A u \in Uploads : pc[u] = "ok" =>
        \E i \in Uploads :
            /\ req[i] # None
            /\ req[i].name = req[u].name /\ req[i].content = req[u].content
            /\ HasRow(i) \/ i \in unlinked

\* A refused upload leaves no row, no temporary file and no staged file.
\* (It may leave an unrecorded file under the storage root: the INSERT
\* comes after the move.)
RefusedLeavesNothing ==
    \A u \in Uploads : pc[u] = "err" =>
        ~HasRow(u) /\ tmp[u] = None /\ stage[u] = None

\* Every row, but those whose file a DeletePhoto took away, names a file
\* whose content has the row's hash.
RowsReadable ==
    \A r \in rows : r.id \notin unlinked => OnDisk(r.path, r.hash)

\* The API serves the content whose hash is in the row it looked up, although
\* the lookup and the opening of the file are two steps.
ReadsAreHonest ==
    \A r \in Reads : pc[r] = "ok" => body[r] = found[r].hash

\* It does so whatever overlaps the read, as long as the row still stands when
\* the file is opened: no upload puts another content at the path of a row,
\* not even before it is refused.
StandingRowsServed ==
    [][\A r \in Reads : pc[r] # "ok" /\ pc'[r] = "ok" /\ found[r] \in rows
          => body'[r] = found[r].hash]_vars

\* A second upload of the same name and content overwrites the first one's
\* row instead of adding another.
OneRowPerContent ==
    \A r, s \in rows : r.name = s.name /\ r.hash = s.hash => r = s

\* When nothing is in flight, the last event a listener received about an
\* asset says what the table says: a photo is there, another asset is there,
\* or it is gone.
FeedMatchesRows ==
    Quiet => \A i \in Uploads :
        /\ \A r \in rows : r.id = i =>
              IF IsPhoto(r) THEN lastEvent[i] = "photo-added"
              ELSE lastEvent[i] \in {"asset-uploaded", "asset-overwritten"}
        /\ ~HasRow(i) => lastEvent[i] \in {None, "photo-deleted"}

\* transfer_events tells what happened to every operation that was answered.
LedgerComplete ==
    /\ \A u \in Uploads : pc[u] = "ok" =>
          <<IF found[u] = None THEN "uploaded" ELSE "overwritten", u>> \in ledger
    /\ \A d \in Deletes : pc[d] = "ok" => <<"deleted", d>> \in ledger

\* When nothing is in flight, the volume holds a file with the right content
\* for each row, and no other file but what a refused upload had moved there.
VolumeMatchesTable ==
    Quiet =>
        LET named == {[path |-> r.path, content |-> r.hash] : r \in rows}
        IN  /\ named \subseteq disk
            /\ \A f \in disk \ named : \E u \in Uploads : pc[u] = "err" /\ dest[u] = f.path

\* When an upload is acknowledged, the volume holds its content at the path
\* of its asset: the new row's or the overwritten one's.
AckedStored ==
    [][\A u \in Uploads : pc[u] # "ok" /\ pc'[u] = "ok" =>
          \E r \in rows : r.id = AssetOf(u) /\ OnDisk(r.path, req[u].content)]_vars
=============================================================================
