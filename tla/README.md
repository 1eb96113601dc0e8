# FalconDrop: verification project

FalconDrop receives photos and other files over FTP, stores them on a local
volume, records them in PostgreSQL, serves them over an HTTP API and announces
what happens on WebSockets. This directory holds TLA+ models of its backend
(`src/backend`), the TLC runs that check them on small instances, and theorems
about them with proofs checked by TLAPS. The frontend exists only as documents
(`src/docs`) and is not modelled.

## 1. The system

| Part | Source (`src/backend/…`) | State it keeps | Operations |
|---|---|---|---|
| Media pipeline | `internal/media/service.go`, `storage/local.go`, `db/store.go`, `api/handlers.go` | tables `media_assets`, `transfer_events`; the storage volume; the temporary directory | upload (`PutFile` → `HandleUploadedFile`), `DeletePhoto`, `GetPhotoContent` |
| FTP driver | `internal/ftpserver/manager.go` (`driverInstance`) | the volume, counters of the status | STOR, RETR, DELE, RNFR/RNTO, MKD, RMD, LIST |
| FTP manager | `internal/ftpserver/manager.go` (`Manager`) | `running`, `server`, `status`; one goroutine per server | `Start`, `Stop`, `Snapshot` |
| Accounts and sessions | `internal/auth/*.go`, `api/middleware.go` | tables `system_accounts`, `ftp_account`, `sessions` | login, logout, two account updates, the session check of every request |
| Realtime hub | `internal/realtime/hub.go`, `Handler.Ws` | the set of connections; a handler and a reader goroutine per connection | `Add`, `Remove`, `Broadcast`, pings |
| Listing | `Handler.ListPhotos/ListAssets`, `Store.ListAssets` | none (the client holds a cursor) | one page |
| Startup | `cmd/api/main.go`, `internal/config/config.go`, `db/migrate.go`, `db/seed.go` | schema, default accounts, `app_settings` | load and validate, migrate, seed, check the volume, serve, shut down |
| System information | `internal/system/service.go` | none | `Info` |

How they meet. An FTP session writes a temporary file and calls the media
service, which hashes it, looks it up, moves it into the volume, inserts its
row and broadcasts on the hub. API requests pass `authMiddleware`, which looks
up the session, and then read or change the same tables and the same volume.
FTP start and stop are API requests that end in a broadcast. **No transaction
and no lock spans two calls**: every statement commits by itself, every
operation on the volume is a system call of its own, the manager's mutex is
released before its handlers broadcast, and the hub's before it writes. That is
where the hard behaviours come from: interleavings of requests, a statement that
fails after an earlier step took effect, a crash between two steps, commands of
the FTP driver that change files the tables describe, a goroutine that outlives
its server, two writers on one connection, pages of a table that moves.

What makes each part correct:

* media: the service itself makes no file visible half written; every row can
  be read and has the hash it names; what is acknowledged is recorded and stored; a refusal
  leaves nothing; one row per name and content; the feed and the ledger agree
  with the table; the volume holds what the table names. In one sentence: to a
  client that waits, it is a set of files.
* FTP manager: the status is the truth; what listens can be stopped; a start
  leads to a listener or to another status; a stopped server
  ends and frees the port.
* accounts and sessions: a password change kills the old password and every
  session opened with it; a logout kills its session; an FTP account update
  keeps what it does not carry. In one sentence: a
  password, and the sessions opened with it.
* hub: a client is fed or closed; what a client knows plus what it was sent is
  everything; a broadcast ends; a dead client leaves.
* listing: no row twice, no unchanged row missed, an end.
* startup: only a complete system serves; what the user set stays; a valid
  configuration serves in the end, whatever died or raced on the way.

## 2. Modules

| Module | Content |
|---|---|
| `MediaPipeline` | the pipeline, the FTP file commands, crashes; its properties |
| `Library` | what the pipeline promises: a set of assets and atomic requests |
| `PipelineRefinement` | how the first implements the second (`LibraryKept`) |
| `MediaPipelineProofs` | theorems about `MediaPipeline` under every interleaving |
| `RacingPipelineProofs` | theorems about operations that overlap, with the refinement for uploads and reads |
| `SerialPipelineProofs` | theorems about clients that wait: the refinement with deletions; what volume, ledger and events say of the table |
| `FtpManager`, `FtpManagerProofs` | start, stop and the goroutines |
| `AuthSessions`, `AuthSessionsProofs` | accounts and sessions |
| `SessionRegistry` | what they promise: a password and the sessions opened with it |
| `SessionRefinement` | how `AuthSessions` implements it (`RegistryKept`) |
| `RealtimeHub`, `RealtimeHubProofs` | the hub and the handlers of its clients |
| `Startup`, `StartupProofs` | configuration, migration, seeds, restarts |
| `Listing`, `ListingProofs` | pages over a table that changes |
| `MC…` | instances of each for TLC: request sets, symmetry, views, environments |

In each specification a definition named `Action_Fault` is a faulty form of
`Action` that `Spec` does not use; putting it in the action's place shows that
a property notices (the list is in `PROJECT.json`, `mutants`).

History variables recur: where the code keeps a promise only as long as
something else went well, the specification records whether it did, and the
property says so. `overlap`, `failed`, `calm`, `tidy`, `clashed`, `synced`,
`alone`, `lowered`, `unlinked` and `taken` are such histories; section 4 shows that each
of these conditions is needed.

### MediaPipeline

One action per call to the volume, the database or the hub.

| Action | Code |
|---|---|
| `Receive`, `ReceiveAll`, `ReceiveFails` | `WriteTemp`: create, copy, remove on error |
| `LookupHit`, `LookupMiss` | hashing, then `FindMediaByOriginalNameAndHash` |
| `Overwrite`, `LogStored`, `CleanupTemp`, `Announce`, `AnnouncePhoto` | the branch of a known file (service.go 92–115) |
| `Probe` | the storage path, `FindMediaByStoragePath`, the suffixed path (121–138) |
| `MoveByRename`, or `CreateStage` … `UnlinkSource` | `MoveFile` on one device, or across devices |
| `Insert`, `InsertUnanswered` | `InsertMediaAsset`; the second: committed, reply lost |
| `MoveFails`, `CallFails`, `LogFailure`, `DropTemp` | error paths: `writeFailedEvent`, then `PutFile` removes the temporary file |
| `FindForDelete` … `AnnounceDelete` | `DeletePhoto` |
| `FindForRead`, `ServeFile` | `GetPhotoContent` |
| `FtpDelete`, `FtpRename` | `DeleteFile`, `Rename` of the driver, on files under their final name and on the staged `.move-*` files of a move |
| `Crash` | the process dies; the volume and the tables remain, later requests are served by the restarted process |

State: `rows`, `disk`, `tmp`, `stage`, `ledger` are the tables and the files;
`req`, `found`, `dest`, `body` are the locals of the operations; `lastEvent` is
the last event broadcast about each asset. `Data` is what a file can hold: a
content, or the part of one that an upload has written so far, named after the
upload. `MoveFile` stages its copy in the directory of the destination
(storage/local.go 121), under the storage root, where an FTP client can rename or
delete it while it is copied and, after a crash, at any time. The copy goes on
through its descriptor under whatever name the file has by then (`CopyToStage`);
the rename to the destination fails if the staged file is gone (`MoveFails`). Two
history variables: `unlinked`, the rows whose file a deletion has removed, and
`taken`, the uploads whose staged file a client has renamed.

Abstractions. A content is a model value and equals its hash (SHA-256 and its
8-character prefix are taken as injective). A name is what the client wrote
plus the sequence of suffixes the service added; directories are model values,
with the empty directory `Root` that is replaced by a date (`Days`, any of
them: midnight may pass between the two calls of `time.Now`). Columns that
follow from name and content are not kept. `IsPhoto` is a set of (stem,
content) pairs, since detection reads the first bytes and the extension.
Temporary file names are taken as distinct (they carry a nanosecond clock), and
uploads are of names that are their own normal form.

Switches: `Waiting` (the operations whose clients wait for one another's
answers; all others begin at any time), `CrossDevice` (the
temporary directory is on another device, as in the compose file), `Faults` and
`FtpFileOps`.

### Library and PipelineRefinement

`Library` is a set of assets (a name and a content) and requests that each take
effect in one step (`Store`, `Remove`, `Serve`) between being asked and being
confirmed, or are refused and take none; when the service dies, what took effect
stays and what is in flight is never answered. The refinement mapping says that an
asset is in the library while some row names a file that holds its content. So
an upload takes effect at its INSERT or at its overwrite, not when its file is
moved; a deletion takes effect when the file is removed, one statement *before*
its row goes (`AfterEffect` lists the steps between the effect and the answer).

The pipeline implements it in two settings. With any requests, when all clients
wait for their answers (`Waiting = Ops`) and what fails is a transfer or an operation on
a file. And with uploads and reads that overlap in any way, with crashes and with
statements that fail too, as long as a name stands for one content within a
directory, nothing is deleted, and no statement that took effect is reported as
failed. Each condition is needed: two contents of one name break it
(`race_same_path`), and so does a deletion beside other requests (section 4); a
DELETE statement that failed leaves a row whose file is gone, and the upload of
the same file is then confirmed without one being stored; an INSERT whose reply
is lost stores what is refused.

### FtpManager

`Start` and `Stop` hold the mutex from end to end, so each branch of each is
one action. Per server, `life` says where its goroutine is: about to listen,
shut down before it listened, listening, returned from `ListenAndServe`, done.
`Report` is the part of the goroutine under the mutex. `Announce` is the
handler's broadcast after `Start` or `Stop` returned; the handler's second
broadcast (`system-status`, with the same status) is not told apart from the
first. The server library (goftp) is external: `Listen`, `GiveUp` and
`AcceptFails` are modelled from how the manager uses it. Whether a server that
is shut down *before* it listens will still listen depends on the library and
is left open: `GiveUp` is always possible, `Listen` if `Faults` has `"late"`; a server whose accept
loop failed is taken not to hold the port. Two histories: `tidy` (no start
overtook the goroutine of a stopped server, and no server listened after it was
shut down) and `calm` (requests came one at a time and no server failed by
itself, which is announced to nobody).

### AuthSessions

One action per statement. A password hash is represented by the password it
verifies. The hash of the empty password, `Blank`, is one of them: the seed may
store it when anonymous access is on (`config.Validate` allows it). `older` and
`wrote` are history variables: the sessions there were, and the password set,
at the UPDATE of an account update; `overlap` remembers whether two requests that
use one account overlapped, one of them to write it (`Rivals`), and `failed`
whether a revocation failed. `Authenticate` is the
middleware: the session is checked once, and the handler runs after, whatever
becomes of it. The broadcast at the end of an FTP account update is left out:
no property reads it.

`SessionRegistry` has one password and a set of live sessions; a protected
request is let in with a session that is live at that moment, and an account
update sets the password and ends all sessions in one step. In the refinement
mapping an update takes effect where it revokes the sessions: between its UPDATE
and that statement the old password still counts, as do the sessions opened with
it. So a request that passes the check in between comes before the update, and
logouts, FTP updates and other calls may overlap an update in any way. A login
may not, and another update may not (`auth_login_race`; the row of
`OldPasswordDead` in section 4), and the revocation must not fail; so
`RegistryKept` speaks of the steps before the first time that happens.

### RealtimeHub

| Action | Code |
|---|---|
| `Upgrade`, `Add` | `Ws`: the upgrade, then `hub.Add` and the start of the reader goroutine |
| `Ping`, `PingEnds` | the ticker's `WriteMessage`, begun and ended |
| `ReadEnds` | the reader goroutine's `ReadMessage` fails |
| `NoticeEnd`, `Leave` | `<-done`; the deferred `hub.Remove` |
| `Commit`, `CopyClients`, `BeginWrite`, `EndWrite`, `Finish` | an operation changes a table, then `Broadcast`: the copy under the lock, the writes without it |
| `ReadSnapshot`, `Fall` | external: the browser reads the REST lists; it stalls or vanishes |

A write is two steps, so that two can meet on one connection; gorilla/websocket
allows one writer. What comes of a meeting is left open: the write succeeds,
fails or panics (`clashed`). `NoChangeMissed` counts every broadcast that is over,
also one that a panic ended: the clients it had not reached yet miss the change,
an exception the property names. A write may succeed on a peer that no longer reads,
as long as buffers last. A panic ends the broadcast: in an HTTP handler
`net/http` recovers it; in the goroutine of an FTP session nothing does and the
process would end, which this module does not follow further (`MediaPipeline`
has `Crash`).

### Startup

| Action | Code |
|---|---|
| `Launch`, `LoadConfig` | the container starts; `Load`, `Validate`, `ParsePassivePorts` |
| `PingDatabase`, `Find`, `Add` | the pool; then `Migrate` and the two accounts of `SeedDefaults`, each looked for, then created |
| `PutSetting` | `UpsertAppSetting`, one row at a time |
| `EnsureWritable` | the volume check, then the listener |
| `SetAccount` | the two PUT handlers, until the process is gone: the shutdown waits for requests |
| `Terminate`, `Exit` | the signal, the shutdown |
| `Die` | a failed call or a kill anywhere |

Several containers share a database, each with its environment. An environment
keeps the variables `Validate` looks at; a value may be absent or unreadable,
and `Load` turns an unreadable one into the default, as `getInt`, `getBool` and
`getDuration` do. `ftpAccount` has the columns of the FTP account that decide who
may log in: as seeded (`SeededFtpAccount`), or anything once a user has set them.
What becomes of FTP sessions and requests in flight at the
shutdown is in `FtpManager` and, as `Crash`, in `MediaPipeline`.

### Listing

| Action | Code |
|---|---|
| `Close`, `Insert`, `Overwrite`, `Delete` | the pipeline, as far as `uploaded_at` goes: the stamp is taken when the file is closed, the row is written later |
| `Open`, `ReadPage` | a client; `ListPhotos`/`ListAssets` with `parseCursor`, `Store.ListAssets` and `buildCursor` |
| `Tick` | the clock; stamps of one tick tie |

`RowLimit` is the store's reading of the limit, `NextCursor` the handler's: they
differ outside 1..200. Identifiers are given in any order. Histories: `due` (rows
that were there unchanged since the client's first request and were not given
yet), `again`, `lowered` (rows that an overwrite moved back in time: its stamp
was taken before the present one's).

## 3. Runs that pass

Requests, clients and containers are few and one-shot, clocks and failures are
bounded; deadlock is checked in every run, and where an instance may come to
rest an explicit `Finished` step says when. "Serial" is an instance whose
`Waiting` has every operation.

| Run | Instance | Checks |
|---|---|---|
| `pipeline_faults` | 2 uploads, 1 deletion, DELE/RNTO, concurrent, every fault, two devices | `TypeOK` `NoTornFile` `AckedRecorded` |
| `pipeline_retries` | 3 uploads, 1 read, concurrent, net and db faults, crashes, one content per path | `RowsReadable` `RefusedLeavesNothing` `AckedStored` `LibraryKept` |
| `pipeline_serial_faults` | 3 uploads and 1 deletion that wait, 1 read that overlaps them, db faults, lost replies, crashes, two days | `RowsReadable` `OneRowPerContent` `StandingRowsServed` |
| `pipeline_serial` | 3 uploads, 1 deletion, 1 read, serial, net and fs faults, two devices | `FeedMatchesRows` `LedgerComplete` `VolumeMatchesTable` `LibraryKept` |
| `ftp_lifecycle` | 3 starts, 2 stops, in any order, every fault | `StatusAgrees` `ListenerIsManaged` `TidyStatusIsTrue` `FeedMatchesStatus` `StartSettles` `StoppedEnds` |
| `auth_requests` | 2 logins, 1 logout, 2 account updates, 1 FTP account update, another call, interleaved, db faults | `TypeOK` `UpdateRevokes` `LogoutIsFinal` `SessionsFollowPassword` `OldPasswordDead` `FtpPasswordKept` `RegistryKept` |
| `hub_clients` | 2 clients, 1 sender | `FedOrClosed` `NoChangeMissed` `BroadcastEnds` `DeadLeave` |
| `startup` | 2 containers, 4 environments, 2 settings, 2 failures | `ServesComplete` `SeededFtpUsable` `SettingsAreMine` `SeedsOnce` `ServesInTheEnd` |
| `listing` | 3 rows (2 photos), limits 1 to 3 of which 3 is out of range, 3 ticks, 2 uploads in flight | `NoRepeats` `Complete` `PagingEnds` |

Why the bounds suffice. The hazards are about two operations that meet (two
uploads of one path, an upload and a deletion, a stop and the next start, a
login and an update, two updates of an account, a broadcast and a ping, two starts on an empty database),
plus a third one that observes or follows: two or three operations of a kind
cover every pair, and with a third upload a path is used, freed and used again.
Two contents and two names make each of "same name, same content", "same name,
other content", "other name" possible; two days make midnight possible.
`RootRequests`, `ClashRequests`, `RetryRequests`, `TwinRequests` and
`SuffixRequests` (in `MCMediaPipeline`) say what is stored. In `hub_clients` a
second writer on a connection is the ping of its handler; two broadcasts that
meet need two senders (with two clients, over 20 million states), which the
theorems about the hub cover. Two failures let each container of `startup` die
once, or one of them twice; its numbers are constant expressions, whose
boundaries the assumption `NumbersAssumption` of `MCStartup` evaluates. Three
rows make a full page followed by a full, a partial or no page; three ticks
allow ties and an order of stamps opposite to that of the statements.

Symmetry is used for invariants, action properties and refinements, whose
formulas are symmetric in the permuted sets, and never for liveness. Two runs of
the pipeline use a view without `ledger` and `lastEvent`, which no guard reads and
no property of those runs mentions; the view of `auth_requests` leaves out what no
later step and no property reads (`InUse`). That run has one FTP account update:
with two it has over two million states. Two that overlap, and two in a row, are
left to the theorem `FtpPasswordKeptHolds`.

What the choice of switches means. The concurrent runs hold the properties
that the code keeps under every interleaving. The serial runs, and the
properties conditioned on a history variable, hold what it keeps only when
operations do not overlap or do not fail. The next section shows, for each of
the latter, the interleaving or the fault that breaks it.

Fairness.

* `FtpManager`: the goroutine of a server is scheduled and eventually gets the
  mutex (`WF` of `Listen`, `GiveUp`, `Report`): `sync.RWMutex` hands over to
  waiters and no holder waits for anything but its own calls. Nothing is assumed
  about requests, nor that the accept loop ever fails.
* `RealtimeHub`: goroutines are scheduled, a write ends within its deadline of 5
  seconds (hub.go 63, handlers.go 517) and a read within that of 60. `NoticeEnd`
  is strongly fair: between two ticks of 30 seconds the handler is back in its
  `select`, where a closed `done` is taken sooner or later. Browsers do nothing.
* `Startup`: calls return, and a process that died is restarted (`restart:
  unless-stopped`, deployments/docker-compose.yml 16); failures are bounded.
* `Listing`: a client that has a cursor asks for the next page.

## 4. Where the code departs from its documents

Three runs each check one property that a document of the repository states, and
find a behaviour of the code that violates it (`PROJECT.json`, `findings`,
quotes the documents).

| Run | Property | What happens |
|---|---|---|
| `race_same_path` | `RowsReadable` | two contents of one name race; the row that stays names the other's content |
| `ftp_restart` | `StatusIsTrue` | start, stop, start: the goroutine of the stopped server reports late and marks the new one, which then listens, as stopped |
| `auth_login_race` | `NoSessionFromOldPassword` | a login that overlaps a password change |

The switches of the passing runs, and the conditions of the properties, mark
where else a promise stops to hold. Each of these is found by TLC after the named
change; the documents are under `src/docs/任务/后端/tasks/`.

| Property | Change | What happens | Document |
|---|---|---|---|
| `RowsReadable` | `SuffixRequests`, 4 uploads, 1 deletion, serial, no fault | a client's own name equals the suffixed name of another file: the suffixed path is not looked up and the file replaced | 02, line 135 |
| `NoTornFile` | with `taken` left out | an FTP client renames a staged file of a move, half copied or left by a crash, to a final name: a torn file is visible there | 04, lines 94 and 184 |
| `ReadsAreHonest` | `ClashRequests`, 2 uploads and 1 deletion that wait, 1 read that overlaps them, no fault | between the lookup of a read (handlers.go 429) and the opening of the file (450) the row is deleted and its path given to another content, which is served | none |
| `OneRowPerContent` | `TwinRequests`, 2 uploads, concurrent | two uploads of one file both miss in the lookup and both insert | 02, line 134 |
| `FeedMatchesRows` | 2 uploads, 1 deletion, concurrent | `photo-added` arrives after `photo-deleted` | 05, line 21 |
| `VolumeMatchesTable` | `TwinRequests`, 2 uploads, 2 deletions, concurrent | a deletion that read its row earlier removes the file of a newer row at the same path | 02, line 152 |
| `VolumeMatchesTable` | serial, `Faults = {"db"}` | the file goes first, then the DELETE statement fails: a row without a file | 05, line 132 |
| `AckedStored` | serial, `FtpFileOps = {"DELE"}` | after DELE the same upload is acknowledged as an overwrite and nothing is stored | 04, line 183 |
| `LedgerComplete` | serial, `Faults = {"db"}` | a failed INSERT into `transfer_events` is ignored | 02, line 193 |
| `SessionsFollowPassword`, `RegistryKept` | without their condition on `failed` | the revocation fails after the update | 03, line 149 |
| `OldPasswordDead` | without its condition on `overlap`, 2 updates | a name-only update writes back the old password hash | 03, line 166 |
| `LogoutIsFinal` | without its condition on `failed` | the failed revocation is ignored and the logout answered as done | 03, line 167 |
| `FtpNeverLocked` | `SeedFtpPassword = Blank`, `SeedFtpAnonymous = TRUE`, a seed that `Validate` accepts | anonymous access is closed on an account without a password: the check looks at a hash, which is never empty (auth/service.go 151) | 03, line 168 |
| `NoChangeMissed` | without its second exception | two writers meet on a connection, one panics, and its broadcast ends before it reached the other clients (hub.go 62) | 06, line 104 |
| `ConnectedMissesNothing` | in place of `NoChangeMissed` | the upgrade is answered before `hub.Add`: a change in between is neither in the snapshot nor sent (handlers.go 487–491) | 06, line 104 |
| `Complete` | without its condition on `limit` | with a limit out of 1..200 the first page comes without a cursor: the list seems to end there | 05, line 41 |
| `NoRepeats` | without `lowered` | a row moved back by an overwrite is given again | none |

Seven more follow from the form of the properties, or from reading. `StartSettles` is as weak as it
is because `Start` is answered before its goroutine has tried to listen: a start
whose port is taken is answered and broadcast as running (04, line 59, asks for an
error). `BroadcastEnds` says only that a broadcast ends: one slow client delays
every other listener, and the upload that broadcasts, by up to 5 seconds (06,
line 109, forbids that). The handler of a WebSocket looks at its session once,
at the upgrade: events are still sent after a logout (06, line 116). And `Load`
takes an unreadable `DEFAULT_FTP_ANONYMOUS_ENABLED` for TRUE and the process
serves: whoever mistypes the value that closes anonymous access gets it open.
The status of the FTP server copies the anonymous flag and the account's
name when the server starts (manager.go 114): after an account update
`/api/ftp/status` shows the old ones until the next start (03, line 120), while
`CheckPasswd` follows the new ones. A missing default FTP password lets the
process start when anonymous access is on, which it is by default (02, line 175,
wants startup to fail). Last, photos are listed by `uploaded_at` (store.go 372),
not by the date of the EXIF data (05, line 107).

A row that an overwrite moves to the front while a client pages may be missed by
that client: it is not `due` any more, since it changed.

## 5. Theorems

For every value of the constants that meets the modules' named assumptions
(`OpsAssumption`, `RequestAssumption`, `SwitchAssumption`, `NullAssumption`;
`EnvironmentsAssumption`; `RequestsAssumption`, `FaultsAssumption`; `KindsAssumption`, `SeedAssumption`,
`ValuesAssumption`; `NoneAssumption`; `IdsAssumption`, `LimitsAssumption`,
`BoundsAssumption`), with no bound on the number of operations, clients,
containers or rows:

* **`MediaPipelineProofs`**, under every interleaving
  * `TypeSafety`. `TypeOK` is not inductive: a move needs a destination and a
    whole temporary file. `TypeInv` adds, per step of an operation, which of its
    locals are set (`HasRequest`, `HasTemp`, `HasStage`, `HasDest`).
  * `NoTornFileHolds`. `TornInv`: a part that an upload wrote is in its own staged
    file or, if an FTP client renamed that (`taken`), on the volume; and the upload
    is copying, or on its way to a refusal, or dead (`TornSteps`), so that it
    neither installs the part nor is acknowledged.
  * `AckedRecordedHolds`. The inductive `AckInv` carries from the INSERT or the
    UPDATE to the answer that the file is recorded: requests never change, a row
    describes the request of its upload, and a row is erased only after its id
    entered `unlinked`.
  * `RefusedLeavesNothingHolds` assumes `FilesAnswered` (file operations do not
    fail, committed statements are answered). `CleanInv` says at which steps an
    upload can own a row, a temporary or a staged file.
* **`RacingPipelineProofs`**: any number of operations, overlapping in any way.
  The lemmas that the proofs share say what a step leaves alone
  (`UploadLeavesOthers`, `UploadsRest`: an upload changes its own locals and its
  own file, and what another one does to it is nothing), that a found row is a
  row of the request (`FoundTells`), that ids are never reused (`IdsDistinct`).
  * `RacingRowsReadable` and `RacingAckedStored`, assuming `OneContentPerPath` (a
    name stands for one content within a directory; suffixes keep it so) and
    `NothingTaken` (no deletion, no DELE or RNTO): every fault, lost replies and
    crashes included. `HonestInv`: every path tells the content it was made for
    (`PathTells`), and so does what lies there, is staged for it, or is named by a
    row. `StoredInv`: from the moment a file is installed it stays (`FilesStay`), so a
    row, a found row and an upload past its move have a file at their path. With
    deletions it is false: one that has removed the file and not yet the row
    leaves a row that an upload of the same file finds, overwrites and confirms.
  * `RacingLibraryKept`: under those assumptions and with no lost reply,
    `MediaPipeline` implements `Library`. An upload that overwrites may find its
    asset stored already: it stores it again.
  * `RacingFeedMatchesRows` (no deletions, no crash, no lost reply), for uploads of
    any names and contents: two of one name may well spoil each other's file, but
    the table and the feed agree on what happened (`GrowInv`: rows stand;
    `FeedTells`: what is in the feed at each step of an upload).
* **`SerialPipelineProofs`**, assuming `WritersWait`: uploads and deletions one at
  a time, reads that overlap them in any way, no DELE or RNTO, no client-made
  suffixes.
  * `RowsReadableHolds`, `OneRowPerContentHolds`, `StandingRowsServedHolds`, with
    arbitrary faults and crashes, from
    `SerialInv`: at most one upload or deletion is under way (`OneAtATime`); each
    row's path is made from its name and hash and is no other row's, and what lies
    there has that hash (`Table`); the row a deletion found still stands
    (`FoundStands`); from its lookup to its INSERT an upload has no row beside it,
    and no row claims the path it chose (`Work`). The core is arithmetic of paths: a
    path with a suffix tells the name and hash it was made for, so a suffixed path,
    which the code does not look up, is never the path of another row.
  * `ReadsAreHonestHolds`, if the clients that read wait too (`ClientsWait`).
  * `LibraryKeptHolds`: `MediaPipeline` implements `Library`, assuming
    `ClientsWait` and `CallsAnswered` (only transfers and file operations fail). `AtomicInv`: an
    upload has a row only from its INSERT on, and a row is without its file only
    while the deletion that removed it is about to erase it. With it each action
    of the pipeline is one step of `Library` or a stutter.
  * `AckedStoredHolds`, `LedgerCompleteHolds`, `FeedMatchesRowsHolds` and
    `VolumeMatchesTableHolds`, assuming `CallsAnswered`, from `JournalInv`, which
    speaks of every moment where the properties speak of rest: which event the
    operation under way still owes (`NewsOwed`, `LossOwed`), which outcome is in
    the ledger by now, that the row stands whose event is owed (`RowsStand`), and
    which upload a file without a row belongs to (`Leftover`).
* **`FtpManagerProofs`**
  * `TypeSafety`, `StatusAgreesHolds`: unconditional, by the type invariant.
  * `ListenerIsManagedHolds`, `StatusIsTrueHolds`, from `OneGoroutine`: in a tidy
    history only the manager's server has a goroutine that has not ended.
  * `FeedMatchesStatusHolds`, from `EventInv`: in a calm history at most one
    event is on its way, and until it is sent the status is what it will say.
* **`AuthSessionsProofs`**
  * `TypeSafety`, from `TypeInv`, which says what an update has read at each step.
  * `UpdateRevokesHolds`: also when statements fail. `RevokeInv` rests on a
    session being created once, before which it is in nobody's `older`.
  * `LogoutIsFinalHolds`, from `LogoutInv`.
  * `SessionsFollowPasswordHolds` (`LiveInv`), `OldPasswordDeadHolds` and
    `FtpPasswordKeptHolds` (`PasswordInv`), from `HandsInv`: as long as rivals do
    not overlap, what a login verified and what an update read is what the row
    still holds.
  * `RegistryKeptHolds`: `AuthSessions` implements `SessionRegistry`, one lemma
    per action. `CookieInv` is needed for the last statement of an update, which
    revokes the session of its own cookie once more: that session is dead already
    and is never opened again, so the step is none of the registry's.
* **`RealtimeHubProofs`**: `TypeSafety`; `FedOrClosedHolds`, from `HubInv` (only
  clients that were added are written to, and none is added twice);
  `NoChangeMissedHolds`, from `FeedInv`: a committed change is in the snapshot,
  in the feed, or still on its way to the client, unless writers met.
* **`StartupProofs`**: `TypeSafety`; `ServesCompleteHolds` (seeds and settings are
  never taken away, `Grows`, and a process at a step has passed those before,
  `ProgressInv`); `SeededFtpUsableHolds` (who
  seeds was validated, and seeds what was validated);
  `SeedsOnceHolds`; `SettingsAreMineHolds`.
* **`ListingProofs`**: `TypeSafety`; `NoRepeatsHolds` and `CompleteHolds`, from
  `CursorInv`: the cursor divides the rows, those given are not below it, those
  due are. The order of the listing is total, and a page is its upper end.

## 6. What is only model-checked, and what is not modelled

Model-checked only: the liveness properties `StartSettles`, `StoppedEnds`,
`BroadcastEnds`, `DeadLeave`, `ServesInTheEnd` and `PagingEnds`: TLAPS here
proves no liveness under fairness and nothing about ENABLED. Every invariant and
action property of the passing runs is also a theorem, under the assumptions
named above.

Not modelled:

* the normalisation of paths by `SafeRelPath` and the 8-character prefix of the
  hash (strings character by character; the models take normal names and
  injective prefixes);
* the FTP statistics: their writers hold no lock, a torn string is outside this
  memory model, and no other state depends on them; system information, which
  reads them;
* the other commands of the FTP driver: directories change no row, but RMD
  between `MkdirAll` and the rename of a move (storage/local.go 108) makes that
  move fail, which `MediaPipeline` has as a fault of the move; `CheckPasswd`;
* FTP sessions that outlive a stopped server, and a transfer cut short that the
  FTP library reports as complete (library behaviour);
* renames of directories (RNFR, RNTO), which move the files of many rows at once;
  renames to names like those of staged files;
* collisions of temporary names;
* MIME and EXIF detection (pure functions), the router, logging and error codes,
  deployment files.

## 7. Plan

1. Between `ClientsWait` and `OneContentPerPath`: deletions among overlapping
   uploads, when clients wait only for requests about the same name. `SerialInv`
   and `JournalInv` are to be stated per name, with `UploadLeavesOthers` and its
   like for the other names.
2. A composition of the pipeline's events with the hub, in place of `lastEvent`:
   what a listener that joined late knows about the table.
3. `StoragePaths`: `SafeRelPath`, `BuildStoragePath` and
   `generateStorageRelativePath` over short paths of segments: never outside the
   root, idempotent, distinct storage paths are distinct files.
4. Directories on the volume (MKD, RMD against uploads), and the FTP statistics.
