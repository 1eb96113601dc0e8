---------------------------- MODULE RealtimeHub ----------------------------
(***************************************************************************)
(* The hub of WebSocket clients (realtime/hub.go) and the handler of       *)
(* /api/ws (api/handlers.go, Ws).                                          *)
(*                                                                         *)
(* Per client run a handler goroutine, which pings it, and a reader        *)
(* goroutine, whose end the handler waits for. A sender is an operation    *)
(* that commits a change and then broadcasts it: it copies the set of      *)
(* clients under the lock and writes to one after the other without it.    *)
(* A write begins and ends in two steps, so that two of them can meet on   *)
(* one connection, which the WebSocket library does not allow: what comes  *)
(* of that is left open (Clashed). Browsers and network are external.      *)
(* As in MediaPipeline, Action_Fault is a faulty form of Action, which     *)
(* Spec does not use.                                                      *)
(***************************************************************************)
EXTENDS Naturals

CONSTANTS
    Clients,  \* connections to /api/ws, each made once
    Senders,  \* operations that broadcast; also names the change and the event of each
    None

ASSUME NoneAssumption == None \notin Clients

VARIABLES
    peer,       \* per client, what becomes of the browser
    conn,       \* per client, the server's end of the connection
    hub,        \* Hub.clients
    ws,         \* per client, where its handler is
    reader,     \* per client, where its reader goroutine is
    step,       \* per sender, where it is
    targets,    \* per sender, the copied clients it has still to write to
    at,         \* per sender, the client it is writing to
    feed,       \* per client, the events written to its connection
    snapshot,   \* per client, the changes in the REST answer it started from
    synced,     \* history: per client, whether that answer was read "early",
                \* before the hub knew the client, or "late"
    clashed     \* history: the clients that had two writers at a time

browser  == <<peer, snapshot, synced>>
handler  == <<ws, reader>>
sender   == <<step, targets, at>>
vars     == <<browser, conn, hub, handler, sender, feed, clashed>>

TypeOK ==
    /\ peer \in [Clients -> {"away", "healthy", "silent"}]
    /\ conn \in [Clients -> {"none", "open", "failed", "closed"}]
    /\ hub \subseteq Clients
    /\ ws \in [Clients -> {"none", "upgraded", "waiting", "pinging", "leaving", "ended"}]
    /\ reader \in [Clients -> {"none", "reading", "ended"}]
    /\ step \in [Senders -> {"idle", "committed", "sending", "done", "panicked"}]
    /\ targets \in [Senders -> SUBSET Clients]
    /\ at \in [Senders -> Clients \cup {None}]
    /\ feed \in [Clients -> SUBSET Senders]
    /\ snapshot \in [Clients -> SUBSET Senders]
    /\ synced \in [Clients -> {"no", "early", "late"}]
    /\ clashed \subseteq Clients

Init ==
    /\ peer = [c \in Clients |-> "away"]
    /\ conn = [c \in Clients |-> "none"]
    /\ hub = {}
    /\ ws = [c \in Clients |-> "none"]
    /\ reader = [c \in Clients |-> "none"]
    /\ step = [s \in Senders |-> "idle"]
    /\ targets = [s \in Senders |-> {}]
    /\ at = [s \in Senders |-> None]
    /\ feed = [c \in Clients |-> {}]
    /\ snapshot = [c \in Clients |-> {}]
    /\ synced = [c \in Clients |-> "no"]
    /\ clashed = {}

-----------------------------------------------------------------------------
Committed == {s \in Senders : step[s] # "idle"}

\* Somebody is inside WriteMessage on the connection of c.
BeingWritten(c) == ws[c] = "pinging" \/ \E s \in Senders : at[s] = c

StartsWriting(c) ==
    clashed' = IF BeingWritten(c) THEN clashed \cup {c} ELSE clashed

(* How a write to c can end. It is buffered for a peer that does not read, *)
(* until the buffers are full and the deadline passes; a write error       *)
(* sticks to the connection.                                               *)
MaySucceed(c) == conn[c] = "open"
MayFail(c)    == conn[c] # "open" \/ peer[c] # "healthy" \/ c \in clashed
MayPanic(c)   == c \in clashed

Remove_Left(c) ==
    /\ hub' = hub \ {c}
    /\ UNCHANGED conn

Remove(c) ==
    /\ hub' = hub \ {c}
    /\ conn' = [conn EXCEPT ![c] = "closed"]

(* The browser.                                                            *)

\* It reads the snapshot when it sees that the connection is open.
ReadSnapshot(c) ==
    /\ ws[c] # "none" /\ peer[c] = "healthy" /\ synced[c] = "no"
    /\ snapshot' = [snapshot EXCEPT ![c] = Committed]
    /\ synced' = [synced EXCEPT ![c] = IF ws[c] = "upgraded" THEN "early" ELSE "late"]
    /\ UNCHANGED <<peer, conn, hub, handler, sender, feed, clashed>>

\* It stops reading and answering pings: stalled, or gone.
Fall(c) ==
    /\ peer[c] = "healthy"
    /\ peer' = [peer EXCEPT ![c] = "silent"]
    /\ UNCHANGED <<snapshot, synced, conn, hub, handler, sender, feed, clashed>>

(* The handler.                                                            *)

\* The answer to the upgrade is the client's sign that it is connected.
Upgrade(c) ==
    /\ ws[c] = "none"
    /\ peer' = [peer EXCEPT ![c] = "healthy"]
    /\ conn' = [conn EXCEPT ![c] = "open"]
    /\ ws' = [ws EXCEPT ![c] = "upgraded"]
    /\ UNCHANGED <<snapshot, synced, hub, reader, sender, feed, clashed>>

Add(c) ==
    /\ ws[c] = "upgraded"
    /\ hub' = hub \cup {c}
    /\ reader' = [reader EXCEPT ![c] = "reading"]
    /\ ws' = [ws EXCEPT ![c] = "waiting"]
    /\ UNCHANGED <<browser, conn, sender, feed, clashed>>

\* The ticker: WriteMessage(PingMessage) begins.
Ping(c) ==
    /\ ws[c] = "waiting"
    /\ ws' = [ws EXCEPT ![c] = "pinging"]
    /\ StartsWriting(c)
    /\ UNCHANGED <<browser, conn, hub, reader, sender, feed>>

PingEnds(c) ==
    /\ ws[c] = "pinging"
    /\ \/ MaySucceed(c) /\ ws' = [ws EXCEPT ![c] = "waiting"] /\ UNCHANGED conn
       \/ MayFail(c) /\ ws' = [ws EXCEPT ![c] = "leaving"]
          /\ conn' = [conn EXCEPT ![c] = IF @ = "open" THEN "failed" ELSE @]
       \/ MayPanic(c) /\ ws' = [ws EXCEPT ![c] = "leaving"] /\ UNCHANGED conn
    /\ UNCHANGED <<browser, hub, reader, sender, feed, clashed>>

ReadEnds_NoDeadline(c) ==
    /\ reader[c] = "reading"
    /\ conn[c] = "closed"
    /\ reader' = [reader EXCEPT ![c] = "ended"]
    /\ UNCHANGED <<browser, conn, hub, ws, sender, feed, clashed>>

\* ReadMessage fails: the connection was closed, or no pong came in time.
ReadEnds(c) ==
    /\ reader[c] = "reading"
    /\ conn[c] = "closed" \/ peer[c] # "healthy"
    /\ reader' = [reader EXCEPT ![c] = "ended"]
    /\ UNCHANGED <<browser, conn, hub, ws, sender, feed, clashed>>

\* <-done
NoticeEnd(c) ==
    /\ ws[c] = "waiting" /\ reader[c] = "ended"
    /\ ws' = [ws EXCEPT ![c] = "leaving"]
    /\ UNCHANGED <<browser, conn, hub, reader, sender, feed, clashed>>

\* The deferred hub.Remove.
Leave(c) ==
    /\ ws[c] = "leaving"
    /\ Remove(c)
    /\ ws' = [ws EXCEPT ![c] = "ended"]
    /\ UNCHANGED <<browser, reader, sender, feed, clashed>>

(* A sender.                                                               *)

Commit(s) ==
    /\ step[s] = "idle"
    /\ step' = [step EXCEPT ![s] = "committed"]
    /\ UNCHANGED <<browser, conn, hub, handler, targets, at, feed, clashed>>

CopyClients(s) ==
    /\ step[s] = "committed"
    /\ step' = [step EXCEPT ![s] = "sending"]
    /\ targets' = [targets EXCEPT ![s] = hub]
    /\ UNCHANGED <<browser, conn, hub, handler, at, feed, clashed>>

BeginWrite(s) ==
    /\ step[s] = "sending" /\ at[s] = None
    /\ \E c \in targets[s] :
         /\ at' = [at EXCEPT ![s] = c]
         /\ targets' = [targets EXCEPT ![s] = @ \ {c}]
         /\ StartsWriting(c)
    /\ UNCHANGED <<browser, conn, hub, handler, step, feed>>

\* The first client that does not take the event ends the broadcast.
EndWrite_GivesUp(s) ==
    /\ at[s] # None
    /\ \/ /\ MaySucceed(at[s])
          /\ feed' = [feed EXCEPT ![at[s]] = @ \cup {s}]
          /\ UNCHANGED <<conn, hub, step, targets>>
       \/ /\ MayFail(at[s])
          /\ Remove(at[s])
          /\ targets' = [targets EXCEPT ![s] = {}]
          /\ UNCHANGED <<feed, step>>
    /\ at' = [at EXCEPT ![s] = None]
    /\ UNCHANGED <<browser, handler, clashed>>

\* A client that does not take the event is tried again.
EndWrite_Retried(s) ==
    /\ at[s] # None
    /\ \/ /\ MaySucceed(at[s])
          /\ feed' = [feed EXCEPT ![at[s]] = @ \cup {s}]
          /\ UNCHANGED <<conn, hub, targets>>
       \/ /\ MayFail(at[s])
          /\ Remove(at[s])
          /\ targets' = [targets EXCEPT ![s] = @ \cup {at[s]}]
          /\ UNCHANGED feed
    /\ at' = [at EXCEPT ![s] = None]
    /\ UNCHANGED <<browser, handler, step, clashed>>

\* A write error removes the client and the broadcast goes on; a panic of the
\* library ends it.
EndWrite(s) ==
    /\ at[s] # None
    /\ \/ /\ MaySucceed(at[s])
          /\ feed' = [feed EXCEPT ![at[s]] = @ \cup {s}]
          /\ UNCHANGED <<conn, hub, step>>
       \/ /\ MayFail(at[s])
          /\ Remove(at[s])
          /\ UNCHANGED <<feed, step>>
       \/ /\ MayPanic(at[s])
          /\ step' = [step EXCEPT ![s] = "panicked"]
          /\ UNCHANGED <<conn, hub, feed>>
    /\ at' = [at EXCEPT ![s] = None]
    /\ UNCHANGED <<browser, handler, targets, clashed>>

Finish(s) ==
    /\ step[s] = "sending" /\ at[s] = None /\ targets[s] = {}
    /\ step' = [step EXCEPT ![s] = "done"]
    /\ UNCHANGED <<browser, conn, hub, handler, targets, at, feed, clashed>>

\* Every connection of the instance is over and every broadcast made.
Finished ==
    /\ \A c \in Clients : ws[c] = "ended" /\ reader[c] = "ended"
    /\ \A s \in Senders : step[s] \in {"done", "panicked"}
    /\ UNCHANGED vars

Browser(c) == ReadSnapshot(c) \/ Fall(c)
Handler(c) == \/ Upgrade(c) \/ Add(c) \/ Ping(c) \/ PingEnds(c)
              \/ ReadEnds(c) \/ NoticeEnd(c) \/ Leave(c)
Sender(s)  == Commit(s) \/ CopyClients(s) \/ BeginWrite(s) \/ EndWrite(s) \/ Finish(s)

Next ==
    \/ \E c \in Clients : Browser(c) \/ Handler(c)
    \/ \E s \in Senders : Sender(s)
    \/ Finished

Spec == Init /\ [][Next]_vars

\* Goroutines are scheduled, no lock is held while waiting, every write has a
\* deadline of 5 seconds and every read one of 60. Between two ticks of 30
\* seconds the handler is back in its select, where a closed `done` is taken
\* sooner or later: hence the strong fairness. Browsers need do nothing.
Fairness ==
    /\ \A c \in Clients :
         /\ WF_vars(Add(c)) /\ WF_vars(PingEnds(c)) /\ WF_vars(ReadEnds(c))
         /\ SF_vars(NoticeEnd(c)) /\ WF_vars(Leave(c))
    /\ \A s \in Senders :
         /\ WF_vars(CopyClients(s)) /\ WF_vars(BeginWrite(s))
         /\ WF_vars(EndWrite(s)) /\ WF_vars(Finish(s))

FairSpec == Spec /\ Fairness

-----------------------------------------------------------------------------
(* Properties                                                              *)

\* A client that was added is in the hub or its connection is closed: none is
\* left connected and starved, none stays in the hub after its handler ended,
\* whoever removed it, and while whoever was writing to it.
FedOrClosed ==
    \A c \in Clients :
        /\ c \in hub => ws[c] \in {"waiting", "pinging", "leaving"}
        /\ ws[c] \in {"waiting", "pinging", "leaving", "ended"} /\ c \notin hub
           => conn[c] = "closed"

\* The changes whose broadcast is over, and which c neither read nor was sent.
Missed(c) == {s \in Senders : step[s] \in {"done", "panicked"}} \ (snapshot[c] \cup feed[c])

\* A client that is in the hub, and read its snapshot after it was added, has
\* every change whose broadcast is over, in the snapshot or as an event, with
\* two exceptions: two writers met on its own connection, or the broadcast
\* ended in a panic, which takes two writers on the connection of another.
NoChangeMissed ==
    \A c \in hub \ clashed : synced[c] = "late" =>
        \A s \in Missed(c) : step[s] = "panicked" /\ clashed # {}

\* The same of a client that read its snapshot when it saw the connection open.
ConnectedMissesNothing ==
    \A c \in hub \ clashed : synced[c] # "no" =>
        \A s \in Missed(c) : step[s] = "panicked" /\ clashed # {}

\* A committed change is broadcast to the end, whichever clients stall or
\* vanish meanwhile: the operation that sends it is answered.
BroadcastEnds == \A s \in Senders :
    step[s] = "committed" ~> step[s] \in {"done", "panicked"}

\* A client that stopped reading, or vanished, leaves the hub.
DeadLeave == \A c \in Clients :
    (c \in hub /\ peer[c] # "healthy") ~> c \notin hub
=============================================================================
