----------------------------- MODULE FtpManager -----------------------------
(***************************************************************************)
(* Starting and stopping the FTP server: ftpserver/manager.go (Manager)    *)
(* and the two API handlers that call it.                                  *)
(*                                                                         *)
(* Start and Stop hold the manager's mutex from end to end: each is one    *)
(* action. What is not under the mutex is the goroutine that Start leaves  *)
(* behind, which listens, returns from ListenAndServe when its server is   *)
(* shut down or fails, and only then takes the mutex to reset the status;  *)
(* and the handlers' broadcasts, sent after Start and Stop returned.       *)
(* A server is named after the Start request that created it.              *)
(* As in MediaPipeline, Action_Fault is a faulty form of Action, which     *)
(* Spec does not use.                                                      *)
(***************************************************************************)
EXTENDS FiniteSets, Naturals

CONSTANTS
    Starts, Stops,  \* requests POST /api/ftp/start and /api/ftp/stop, one-shot
    Faults,         \* what may go wrong, see FaultKinds
    None

FaultKinds ==
    { "prepare",   \* the storage is not writable or the account cannot be read
      "listen",    \* the port is taken by another program
      "accept",    \* the accept loop fails
      "shutdown",  \* Shutdown reports an error
      "late" }     \* a server shut down before it listened listens all the same

ASSUME RequestsAssumption ==
    /\ Starts \cap Stops = {}
    /\ None \notin Starts \cup {"ftp-started", "ftp-stopped"}
ASSUME FaultsAssumption == Faults \subseteq FaultKinds

VARIABLES
    running,    \* Manager.running
    server,     \* Manager.server
    isRunning,  \* Manager.status.IsRunning, what the API shows
    life,       \* per server, where its goroutine is
    lastEvent,  \* the last event broadcast about the server
    calm,       \* history: each request came after the answer to the previous
                \* one, and no server has failed to listen or to accept
    tidy,       \* history: no start overtook the goroutine of a stopped server,
                \* and no server listened after it was shut down
    pc          \* where each request is

vars == <<running, server, isRunning, life, lastEvent, calm, tidy, pc>>

Requests == Starts \cup Stops

(* "created": about to listen. "shut": Shutdown came first. "closed": the   *)
(* listener was closed by Shutdown; "refused", "broken": listening or       *)
(* accepting failed. From these three ListenAndServe returns an error and   *)
(* the goroutine is on its way to the mutex. "ended": it has been there.    *)
Lives == {"none", "created", "shut", "listening", "closed", "refused", "broken", "ended"}

TypeOK ==
    /\ running \in BOOLEAN /\ isRunning \in BOOLEAN
    /\ server \in Starts \cup {None}
    /\ life \in [Starts -> Lives]
    /\ lastEvent \in {None, "ftp-started", "ftp-stopped"}
    /\ calm \in BOOLEAN /\ tidy \in BOOLEAN
    /\ pc \in [Requests -> {"idle", "announce", "ok", "err"}]

Init ==
    /\ running = FALSE /\ isRunning = FALSE
    /\ server = None
    /\ life = [s \in Starts |-> "none"]
    /\ lastEvent = None /\ calm = TRUE /\ tidy = TRUE
    /\ pc = [r \in Requests |-> "idle"]

-----------------------------------------------------------------------------
Goto(r, label)  == pc' = [pc EXCEPT ![r] = label]
Become(s, how)  == life' = [life EXCEPT ![s] = how]
Returned(s)     == life[s] \in {"closed", "refused", "broken"}
PortFree        == \A s \in Starts : life[s] # "listening"

\* A request is taken up.
Arrives(r) ==
    /\ pc[r] = "idle"
    /\ calm' = (calm /\ \A q \in Requests : pc[q] # "announce")

\* No goroutine of a server other than the manager's is still on its way.
OthersEnded == \A s \in Starts : s # server => life[s] \in {"none", "ended"}

(* POST /api/ftp/start.                                                    *)

StartAgain(r) ==
    /\ Arrives(r) /\ running
    /\ Goto(r, "announce")
    /\ UNCHANGED <<running, server, isRunning, life, lastEvent, tidy>>

StartFails_Announced(r) ==
    /\ Arrives(r) /\ ~running /\ "prepare" \in Faults
    /\ Goto(r, "announce")
    /\ UNCHANGED <<running, server, isRunning, life, lastEvent, tidy>>

StartFails(r) ==
    /\ Arrives(r) /\ ~running /\ "prepare" \in Faults
    /\ Goto(r, "err")
    /\ UNCHANGED <<running, server, isRunning, life, lastEvent, tidy>>

\* The status says running before the goroutine has tried to listen.
Start(r) ==
    /\ Arrives(r) /\ ~running
    /\ server' = r /\ running' = TRUE /\ isRunning' = TRUE
    /\ Become(r, "created")
    /\ Goto(r, "announce")
    /\ tidy' = (tidy /\ OthersEnded)
    /\ UNCHANGED lastEvent

(* POST /api/ftp/stop.                                                     *)

\* What Shutdown does to a server whose goroutine is at life[s].
AfterShutdown(s) ==
    CASE life[s] = "created"   -> "shut"
      [] life[s] = "listening" -> "closed"
      [] OTHER                 -> life[s]

StopStopped(r) ==
    /\ Arrives(r)
    /\ ~running \/ server = None
    /\ isRunning' = FALSE
    /\ Goto(r, "announce")
    /\ UNCHANGED <<running, server, life, lastEvent, tidy>>

Stop_NoShutdown(r) ==
    /\ Arrives(r) /\ running /\ server # None
    /\ server' = None /\ running' = FALSE /\ isRunning' = FALSE
    /\ Goto(r, "announce")
    /\ UNCHANGED <<life, lastEvent, tidy>>

Stop(r) ==
    /\ Arrives(r) /\ running /\ server # None
    /\ Become(server, AfterShutdown(server))
    /\ server' = None /\ running' = FALSE /\ isRunning' = FALSE
    /\ Goto(r, "announce")
    /\ UNCHANGED <<lastEvent, tidy>>

StopFails(r) ==
    /\ Arrives(r) /\ running /\ server # None /\ "shutdown" \in Faults
    /\ Goto(r, "err")
    /\ UNCHANGED <<running, server, isRunning, life, lastEvent, tidy>>

\* hub.Broadcast, after the mutex was released.
Announce(r) ==
    /\ pc[r] = "announce"
    /\ lastEvent' = IF r \in Starts THEN "ftp-started" ELSE "ftp-stopped"
    /\ Goto(r, "ok")
    /\ UNCHANGED <<running, server, isRunning, life, calm, tidy>>

(* The goroutine of server s.                                              *)

\* What Shutdown did to a server that was not listening yet is the library's
\* affair: ListenAndServe may listen all the same, or give up.
Listen(s) ==
    /\ life[s] = "created" \/ (life[s] = "shut" /\ "late" \in Faults)
    /\ \/ PortFree /\ Become(s, "listening")
       \/ (~PortFree \/ "listen" \in Faults) /\ Become(s, "refused")
    /\ tidy' = (tidy /\ life[s] = "created")
    /\ UNCHANGED <<running, server, isRunning, lastEvent, calm, pc>>

GiveUp(s) ==
    /\ life[s] = "shut"
    /\ Become(s, "closed")
    /\ UNCHANGED <<running, server, isRunning, lastEvent, calm, tidy, pc>>

AcceptFails(s) ==
    /\ life[s] = "listening" /\ "accept" \in Faults
    /\ Become(s, "broken")
    /\ UNCHANGED <<running, server, isRunning, lastEvent, calm, tidy, pc>>

Report_Partial(s) ==
    /\ Returned(s)
    /\ running' = FALSE
    /\ Become(s, "ended") /\ calm' = (calm /\ life[s] = "closed")
    /\ UNCHANGED <<server, isRunning, lastEvent, tidy, pc>>

Report_ClosedOnly(s) ==
    /\ Returned(s)
    /\ IF life[s] = "closed"
       THEN running' = FALSE /\ isRunning' = FALSE
       ELSE UNCHANGED <<running, isRunning>>
    /\ Become(s, "ended") /\ calm' = (calm /\ life[s] = "closed")
    /\ UNCHANGED <<server, lastEvent, tidy, pc>>

\* ListenAndServe returned an error: whatever server the manager has by now,
\* it is marked as not running.
Report(s) ==
    /\ Returned(s)
    /\ running' = FALSE /\ isRunning' = FALSE
    /\ Become(s, "ended") /\ calm' = (calm /\ life[s] = "closed")
    /\ UNCHANGED <<server, lastEvent, tidy, pc>>

Goroutine(s) == Listen(s) \/ GiveUp(s) \/ AcceptFails(s) \/ Report(s)

Settled == \A s \in Starts : life[s] \in {"none", "listening", "ended"}
Quiet   == Settled /\ \A r \in Requests : pc[r] # "announce"

\* Every request of the instance is answered and every goroutine is at rest.
Finished ==
    /\ Quiet /\ \A r \in Requests : pc[r] # "idle"
    /\ UNCHANGED vars

Next ==
    \/ \E r \in Starts : StartAgain(r) \/ StartFails(r) \/ Start(r)
    \/ \E r \in Stops : StopStopped(r) \/ Stop(r) \/ StopFails(r)
    \/ \E r \in Requests : Announce(r)
    \/ \E s \in Starts : Goroutine(s)
    \/ Finished

Spec == Init /\ [][Next]_vars

\* A goroutine is scheduled and the mutex is handed over; requests need not come.
Fairness == \A s \in Starts : WF_vars(Listen(s)) /\ WF_vars(GiveUp(s)) /\ WF_vars(Report(s))

FairSpec == Spec /\ Fairness

-----------------------------------------------------------------------------
(* Properties                                                              *)

\* The flag the API shows is the flag Start and Stop decide by, and a running
\* manager has a server to stop: whatever goroutine reports, and when.
StatusAgrees == (isRunning <=> running) /\ (running => server # None)

\* Only the server that Stop would shut down accepts connections, as long as
\* no start overtook a stopped server's goroutine and Shutdown sticks.
ListenerIsManaged ==
    tidy => \A s \in Starts : life[s] = "listening" => running /\ s = server

\* When every goroutine is at rest, the status is what a client finds: a
\* listening server if and only if it says running.
StatusIsTrue == Settled => (isRunning <=> \E s \in Starts : life[s] = "listening")

\* So it is if no start overtook a stopped server's goroutine and Shutdown
\* sticks.
TidyStatusIsTrue == tidy => StatusIsTrue

\* When nothing is in flight, the last event broadcast agrees with the status,
\* if moreover requests came one at a time (their broadcasts are not ordered
\* otherwise) and no server failed by itself (no event is sent then).
FeedMatchesStatus == Quiet /\ calm /\ tidy => (isRunning <=> lastEvent = "ftp-started")

\* A status of running is followed by a listening server, or by another status.
StartSettles == isRunning ~> (~isRunning \/ life[server] = "listening")

\* The goroutine of a server the manager no longer has comes to an end, and its
\* port with it, unless it was overtaken by a start or listened after Shutdown:
\* what the next start needs in order to listen.
StoppedEnds == \A s \in Starts :
    (tidy /\ s # server /\ life[s] # "none") ~> (life[s] = "ended" \/ ~tidy)
=============================================================================
