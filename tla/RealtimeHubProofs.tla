-------------------------- MODULE RealtimeHubProofs --------------------------
(***************************************************************************)
(* What holds of RealtimeHub for any number of clients and senders.        *)
(***************************************************************************)
EXTENDS RealtimeHub, TLAPS

USE DEF browser, handler, sender

LEMMA TypeInit == Init => TypeOK
  BY DEF Init, TypeOK

LEMMA TypeNext ==
    ASSUME TypeOK, [Next]_vars  PROVE TypeOK'
  <1> USE NoneAssumption DEF TypeOK, Committed
  <1>1. ASSUME NEW c \in Clients, ReadSnapshot(c)  PROVE TypeOK'
    BY <1>1 DEF ReadSnapshot, Committed
  <1>2. ASSUME NEW c \in Clients, Fall(c)  PROVE TypeOK'
    BY <1>2 DEF Fall
  <1>3. ASSUME NEW c \in Clients, Upgrade(c)  PROVE TypeOK'
    BY <1>3 DEF Upgrade
  <1>4. ASSUME NEW c \in Clients, Add(c)  PROVE TypeOK'
    BY <1>4 DEF Add
  <1>5. ASSUME NEW c \in Clients, Ping(c)  PROVE TypeOK'
    BY <1>5 DEF Ping, StartsWriting
  <1>6. ASSUME NEW c \in Clients, PingEnds(c)  PROVE TypeOK'
    BY <1>6 DEF PingEnds
  <1>7. ASSUME NEW c \in Clients, ReadEnds(c)  PROVE TypeOK'
    BY <1>7 DEF ReadEnds
  <1>8. ASSUME NEW c \in Clients, NoticeEnd(c)  PROVE TypeOK'
    BY <1>8 DEF NoticeEnd
  <1>9. ASSUME NEW c \in Clients, Leave(c)  PROVE TypeOK'
    BY <1>9 DEF Leave, Remove
  <1>10. ASSUME NEW s \in Senders, Commit(s)  PROVE TypeOK'
    BY <1>10 DEF Commit
  <1>11. ASSUME NEW s \in Senders, CopyClients(s)  PROVE TypeOK'
    BY <1>11 DEF CopyClients
  <1>12. ASSUME NEW s \in Senders, BeginWrite(s)  PROVE TypeOK'
    BY <1>12 DEF BeginWrite, StartsWriting
  <1>13. ASSUME NEW s \in Senders, EndWrite(s)  PROVE TypeOK'
    BY <1>13 DEF EndWrite, Remove, MayPanic, MaySucceed, MayFail
  <1>14. ASSUME NEW s \in Senders, Finish(s)  PROVE TypeOK'
    BY <1>14 DEF Finish
  <1>15. ASSUME UNCHANGED vars  PROVE TypeOK'
    BY <1>15 DEF vars
  <1>16. [Next]_vars
    OBVIOUS
  <1> HIDE DEF TypeOK
  <1> QED
    BY <1>1, <1>2, <1>3, <1>4, <1>5, <1>6, <1>7, <1>8,
       <1>9, <1>10, <1>11, <1>12, <1>13, <1>14, <1>15, <1>16
       DEF Next, Browser, Handler, Sender, Finished

\* Every variable keeps its type.
THEOREM TypeSafety == Spec => []TypeOK
  <1> QED BY TypeInit, TypeNext, PTL DEF Spec

-----------------------------------------------------------------------------
(* Only clients that were added are ever written to, and the handler of a  *)
(* client is the only one to add it.                                       *)

Known == {c \in Clients : ws[c] \notin {"none", "upgraded"}}

HubInv ==
    /\ FedOrClosed
    /\ \A s \in Senders : targets[s] \subseteq Known
    /\ \A s \in Senders : at[s] # None => at[s] \in Known

LEMMA HubInvNext ==
    ASSUME TypeOK, HubInv, [Next]_vars  PROVE HubInv'
  <1> USE NoneAssumption DEF TypeOK, HubInv, FedOrClosed, Known
  <1>1. ASSUME NEW c \in Clients, ReadSnapshot(c)  PROVE HubInv'
    BY <1>1 DEF ReadSnapshot, Committed
  <1>2. ASSUME NEW c \in Clients, Fall(c)  PROVE HubInv'
    BY <1>2 DEF Fall
  <1>3. ASSUME NEW c \in Clients, Upgrade(c)  PROVE HubInv'
    BY <1>3 DEF Upgrade
  <1>4. ASSUME NEW c \in Clients, Add(c)  PROVE HubInv'
    BY <1>4 DEF Add
  <1>5. ASSUME NEW c \in Clients, Ping(c)  PROVE HubInv'
    BY <1>5 DEF Ping, StartsWriting
  <1>6. ASSUME NEW c \in Clients, PingEnds(c)  PROVE HubInv'
    BY <1>6 DEF PingEnds
  <1>7. ASSUME NEW c \in Clients, ReadEnds(c)  PROVE HubInv'
    BY <1>7 DEF ReadEnds
  <1>8. ASSUME NEW c \in Clients, NoticeEnd(c)  PROVE HubInv'
    BY <1>8 DEF NoticeEnd
  <1>9. ASSUME NEW c \in Clients, Leave(c)  PROVE HubInv'
    BY <1>9 DEF Leave, Remove
  <1>10. ASSUME NEW s \in Senders, Commit(s)  PROVE HubInv'
    BY <1>10 DEF Commit
  <1>11. ASSUME NEW s \in Senders, CopyClients(s)  PROVE HubInv'
    BY <1>11 DEF CopyClients
  <1>12. ASSUME NEW s \in Senders, BeginWrite(s)  PROVE HubInv'
    BY <1>12 DEF BeginWrite, StartsWriting
  <1>13. ASSUME NEW s \in Senders, EndWrite(s)  PROVE HubInv'
    BY <1>13 DEF EndWrite, Remove, MayPanic, MaySucceed, MayFail
  <1>14. ASSUME NEW s \in Senders, Finish(s)  PROVE HubInv'
    BY <1>14 DEF Finish
  <1>15. ASSUME UNCHANGED vars  PROVE HubInv'
    BY <1>15 DEF vars
  <1>16. [Next]_vars
    OBVIOUS
  <1> HIDE DEF TypeOK, HubInv
  <1> QED
    BY <1>1, <1>2, <1>3, <1>4, <1>5, <1>6, <1>7, <1>8,
       <1>9, <1>10, <1>11, <1>12, <1>13, <1>14, <1>15, <1>16
       DEF Next, Browser, Handler, Sender, Finished

THEOREM HubInvHolds == Spec => []HubInv
  <1>1. Init => HubInv
    BY DEF Init, HubInv, FedOrClosed, Known
  <1> QED BY <1>1, HubInvNext, TypeSafety, PTL DEF Spec

\* No client stays connected outside the hub, and none stays in it after its
\* handler has ended, for any number of broadcasts, write errors and pings.
THEOREM FedOrClosedHolds == Spec => []FedOrClosed
  <1>1. HubInv => FedOrClosed
    BY DEF HubInv
  <1> QED BY <1>1, HubInvHolds, PTL

-----------------------------------------------------------------------------
(* Where a committed change is, as seen from a client that read its        *)
(* snapshot late: with the client, or still on its way to it.              *)

OnItsWay(s, c) == step[s] = "committed" \/ c \in targets[s] \/ at[s] = c

FeedInv ==
    /\ \A c \in Clients : synced[c] = "late" => c \in Known
    /\ \A c \in hub \ clashed : synced[c] = "late" =>
         \A s \in Committed :
            s \in snapshot[c] \cup feed[c] \/ OnItsWay(s, c) \/ step[s] = "panicked"
    /\ \A s \in Senders : step[s] # "sending" => at[s] = None
    /\ \A s \in Senders : step[s] = "done" => targets[s] = {}
    /\ \A s \in Senders : step[s] = "panicked" => clashed # {}

LEMMA FeedInvNext ==
    ASSUME TypeOK, HubInv, FeedInv, [Next]_vars  PROVE FeedInv'
  <1> USE NoneAssumption DEF TypeOK, HubInv, FedOrClosed, Known, FeedInv, OnItsWay, Committed
  <1>1. ASSUME NEW c \in Clients, ReadSnapshot(c)  PROVE FeedInv'
    BY <1>1 DEF ReadSnapshot, Committed
  <1>2. ASSUME NEW c \in Clients, Fall(c)  PROVE FeedInv'
    BY <1>2 DEF Fall
  <1>3. ASSUME NEW c \in Clients, Upgrade(c)  PROVE FeedInv'
    BY <1>3 DEF Upgrade
  <1>4. ASSUME NEW c \in Clients, Add(c)  PROVE FeedInv'
    BY <1>4 DEF Add
  <1>5. ASSUME NEW c \in Clients, Ping(c)  PROVE FeedInv'
    BY <1>5 DEF Ping, StartsWriting
  <1>6. ASSUME NEW c \in Clients, PingEnds(c)  PROVE FeedInv'
    BY <1>6 DEF PingEnds
  <1>7. ASSUME NEW c \in Clients, ReadEnds(c)  PROVE FeedInv'
    BY <1>7 DEF ReadEnds
  <1>8. ASSUME NEW c \in Clients, NoticeEnd(c)  PROVE FeedInv'
    BY <1>8 DEF NoticeEnd
  <1>9. ASSUME NEW c \in Clients, Leave(c)  PROVE FeedInv'
    BY <1>9 DEF Leave, Remove
  <1>10. ASSUME NEW s \in Senders, Commit(s)  PROVE FeedInv'
    BY <1>10 DEF Commit
  <1>11. ASSUME NEW s \in Senders, CopyClients(s)  PROVE FeedInv'
    BY <1>11 DEF CopyClients
  <1>12. ASSUME NEW s \in Senders, BeginWrite(s)  PROVE FeedInv'
    BY <1>12 DEF BeginWrite, StartsWriting
  <1>13. ASSUME NEW s \in Senders, EndWrite(s)  PROVE FeedInv'
    BY <1>13 DEF EndWrite, Remove, MayPanic, MaySucceed, MayFail
  <1>14. ASSUME NEW s \in Senders, Finish(s)  PROVE FeedInv'
    BY <1>14 DEF Finish
  <1>15. ASSUME UNCHANGED vars  PROVE FeedInv'
    BY <1>15 DEF vars
  <1>16. [Next]_vars
    OBVIOUS
  <1> HIDE DEF TypeOK, HubInv, FeedInv
  <1> QED
    BY <1>1, <1>2, <1>3, <1>4, <1>5, <1>6, <1>7, <1>8,
       <1>9, <1>10, <1>11, <1>12, <1>13, <1>14, <1>15, <1>16
       DEF Next, Browser, Handler, Sender, Finished

\* A client that is in the hub and read its snapshot after it was added has
\* every change whose broadcast is over, however many clients stall, vanish or
\* join meanwhile, unless two writers met on its own connection, or on another
\* one where the library's panic ended the broadcast.
THEOREM NoChangeMissedHolds == Spec => []NoChangeMissed
  <1>1. Init => FeedInv
    BY DEF Init, FeedInv, Committed
  <1>2. TypeOK /\ FeedInv => NoChangeMissed
    BY NoneAssumption DEF TypeOK, FeedInv, NoChangeMissed, Missed, OnItsWay, Committed
  <1> QED BY <1>1, <1>2, FeedInvNext, HubInvHolds, TypeSafety, PTL DEF Spec
=============================================================================
