-------------------------- MODULE FtpManagerProofs --------------------------
(***************************************************************************)
(* What holds of FtpManager for any number of requests.                    *)
(***************************************************************************)
EXTENDS FtpManager, TLAPS

USE DEF Goto, Become, Arrives, vars

LEMMA TypeInit == Init => TypeOK
  BY DEF Init, TypeOK, Lives

LEMMA TypeNext == TypeOK /\ [Next]_vars => TypeOK'
  <1> SUFFICES ASSUME TypeOK, [Next]_vars  PROVE TypeOK'
    OBVIOUS
  <1> USE DEF TypeOK, Lives
  <1>1. ASSUME NEW r \in Starts, StartAgain(r) \/ StartFails(r) \/ Start(r)  PROVE TypeOK'
    BY <1>1 DEF StartAgain, StartFails, Start
  <1>2. ASSUME NEW r \in Stops, StopStopped(r) \/ Stop(r) \/ StopFails(r)  PROVE TypeOK'
    BY <1>2 DEF StopStopped, Stop, StopFails, AfterShutdown
  <1>3. ASSUME NEW r \in Requests, Announce(r)  PROVE TypeOK'
    BY <1>3 DEF Announce
  <1>4. ASSUME NEW s \in Starts, Goroutine(s)  PROVE TypeOK'
    BY <1>4 DEF Goroutine, Listen, GiveUp, AcceptFails, Report
  <1> QED
    BY <1>1, <1>2, <1>3, <1>4 DEF Next, Finished

\* Every variable keeps its type.
THEOREM TypeSafety == Spec => []TypeOK
  <1> QED BY TypeInit, TypeNext, PTL DEF Spec

\* The flag of the status never departs from the flag the manager decides by,
\* and Stop never finds a running manager without a server.
THEOREM StatusAgreesHolds == Spec => []StatusAgrees
  <1>1. Init => StatusAgrees
    BY DEF Init, StatusAgrees
  <1>2. TypeOK /\ StatusAgrees /\ [Next]_vars => StatusAgrees'
    <2> SUFFICES ASSUME TypeOK, StatusAgrees, [Next]_vars  PROVE StatusAgrees'
      OBVIOUS
    <2> USE DEF TypeOK, StatusAgrees
    <2>1. ASSUME NEW r \in Starts, StartAgain(r) \/ StartFails(r) \/ Start(r)
          PROVE  StatusAgrees'
      BY <2>1, RequestsAssumption DEF StartAgain, StartFails, Start
    <2>2. ASSUME NEW r \in Stops, StopStopped(r) \/ Stop(r) \/ StopFails(r)
          PROVE  StatusAgrees'
      BY <2>2 DEF StopStopped, Stop, StopFails
    <2>3. ASSUME NEW r \in Requests, Announce(r)  PROVE StatusAgrees'
      BY <2>3 DEF Announce
    <2>4. ASSUME NEW s \in Starts, Goroutine(s)  PROVE StatusAgrees'
      BY <2>4 DEF Goroutine, Listen, GiveUp, AcceptFails, Report
    <2> QED
      BY <2>1, <2>2, <2>3, <2>4 DEF Next, Finished
  <1> QED BY <1>1, <1>2, TypeSafety, PTL DEF Spec

-----------------------------------------------------------------------------
(* Tidy histories: every start came after the goroutines of the servers    *)
(* that were stopped had reported, and no server listened after it was     *)
(* shut down. A report is then always about the current server.            *)

OneGoroutine ==
    /\ \A s \in Starts : life[s] \in {"created", "listening"} => running /\ s = server
    /\ running => /\ server \in Starts
                  /\ life[server] \notin {"none", "shut", "closed", "ended"}
                  /\ \A s \in Starts : s # server => life[s] \in {"none", "ended"}
    /\ ~running /\ server # None => life[server] = "ended"

\* What went wrong once is remembered.
LEMMA HistoryGrows ==
    ASSUME TypeOK, TypeOK', [Next]_vars
    PROVE  (tidy' => tidy) /\ (calm' => calm)
  <1> USE DEF TypeOK
  <1>1. ASSUME NEW r \in Starts, StartAgain(r)  PROVE (tidy' => tidy) /\ (calm' => calm)
    BY <1>1 DEF StartAgain
  <1>2. ASSUME NEW r \in Starts, StartFails(r)  PROVE (tidy' => tidy) /\ (calm' => calm)
    BY <1>2 DEF StartFails
  <1>3. ASSUME NEW r \in Starts, Start(r)  PROVE (tidy' => tidy) /\ (calm' => calm)
    BY <1>3 DEF Start
  <1>4. ASSUME NEW r \in Stops, StopStopped(r)  PROVE (tidy' => tidy) /\ (calm' => calm)
    BY <1>4 DEF StopStopped
  <1>5. ASSUME NEW r \in Stops, Stop(r)  PROVE (tidy' => tidy) /\ (calm' => calm)
    BY <1>5 DEF Stop
  <1>6. ASSUME NEW r \in Stops, StopFails(r)  PROVE (tidy' => tidy) /\ (calm' => calm)
    BY <1>6 DEF StopFails
  <1>7. ASSUME NEW r \in Requests, Announce(r)  PROVE (tidy' => tidy) /\ (calm' => calm)
    BY <1>7 DEF Announce
  <1>8. ASSUME NEW s \in Starts, Listen(s)  PROVE (tidy' => tidy) /\ (calm' => calm)
    BY <1>8 DEF Listen
  <1>9. ASSUME NEW s \in Starts, GiveUp(s) \/ AcceptFails(s)
        PROVE  (tidy' => tidy) /\ (calm' => calm)
    BY <1>9 DEF GiveUp, AcceptFails
  <1>10. ASSUME NEW s \in Starts, Report(s)  PROVE (tidy' => tidy) /\ (calm' => calm)
    BY <1>10 DEF Report
  <1> QED
    BY <1>1, <1>2, <1>3, <1>4, <1>5, <1>6, <1>7, <1>8, <1>9, <1>10
       DEF Next, Goroutine, Finished

LEMMA OneGoroutineNext ==
    ASSUME TypeOK, OneGoroutine, [Next]_vars, tidy' = TRUE
    PROVE  OneGoroutine'
  <1> USE RequestsAssumption DEF TypeOK, Lives, OneGoroutine
  <1>1. ASSUME NEW r \in Starts, StartAgain(r)  PROVE OneGoroutine'
    BY <1>1 DEF StartAgain
  <1>2. ASSUME NEW r \in Starts, StartFails(r)  PROVE OneGoroutine'
    BY <1>2 DEF StartFails
  <1>3. ASSUME NEW r \in Starts, Start(r)  PROVE OneGoroutine'
    BY <1>3 DEF Start, OthersEnded
  <1>4. ASSUME NEW r \in Stops, StopStopped(r)  PROVE OneGoroutine'
    BY <1>4 DEF StopStopped
  <1>5. ASSUME NEW r \in Stops, Stop(r)  PROVE OneGoroutine'
    BY <1>5 DEF Stop, AfterShutdown
  <1>6. ASSUME NEW r \in Stops, StopFails(r)  PROVE OneGoroutine'
    BY <1>6 DEF StopFails
  <1>7. ASSUME NEW r \in Requests, Announce(r)  PROVE OneGoroutine'
    BY <1>7 DEF Announce
  <1>8. ASSUME NEW s \in Starts, Listen(s)  PROVE OneGoroutine'
    BY <1>8 DEF Listen
  <1>9. ASSUME NEW s \in Starts, GiveUp(s)  PROVE OneGoroutine'
    BY <1>9 DEF GiveUp
  <1>10. ASSUME NEW s \in Starts, AcceptFails(s)  PROVE OneGoroutine'
    BY <1>10 DEF AcceptFails
  <1>11. ASSUME NEW s \in Starts, Report(s)  PROVE OneGoroutine'
    BY <1>11 DEF Report, Returned
  <1>12. ASSUME UNCHANGED vars  PROVE OneGoroutine'
    BY <1>12
  <1>13. [Next]_vars
    OBVIOUS
  <1> HIDE DEF TypeOK, Lives, OneGoroutine, vars
  <1> QED
    BY <1>1, <1>2, <1>3, <1>4, <1>5, <1>6, <1>7, <1>8, <1>9,
       <1>10, <1>11, <1>12, <1>13 DEF Next, Goroutine, Finished

THEOREM OneGoroutineHolds == Spec => [](tidy => OneGoroutine)
  <1>1. Init => (tidy => OneGoroutine)
    BY DEF Init, OneGoroutine
  <1>2. TypeOK /\ (tidy => OneGoroutine) /\ [Next]_vars => (tidy => OneGoroutine)'
    BY OneGoroutineNext, HistoryGrows, TypeNext DEF TypeOK
  <1> QED BY <1>1, <1>2, TypeSafety, PTL DEF Spec

\* In a tidy history every listening server is one that Stop would shut down.
THEOREM ListenerIsManagedHolds == Spec => []ListenerIsManaged
  <1>1. (tidy => OneGoroutine) => ListenerIsManaged
    BY DEF OneGoroutine, ListenerIsManaged
  <1> QED BY <1>1, OneGoroutineHolds, PTL

\* In a tidy history the status tells the truth whenever the goroutines are at
\* rest.
THEOREM StatusIsTrueHolds == Spec => []TidyStatusIsTrue
  <1>1. (tidy => OneGoroutine) /\ StatusAgrees => TidyStatusIsTrue
    BY DEF OneGoroutine, StatusAgrees, TidyStatusIsTrue, StatusIsTrue, Settled
  <1> QED BY <1>1, OneGoroutineHolds, StatusAgreesHolds, PTL

-----------------------------------------------------------------------------
(* Events. In a calm history at most one of them is on its way, and until  *)
(* it is sent the status is what it will say.                              *)

Underway(r) == pc[r] = "announce"

EventInv ==
    /\ \A r, q \in Requests : Underway(r) /\ Underway(q) => r = q
    /\ \A r \in Requests : Underway(r) => (isRunning <=> r \in Starts)
    /\ (\A r \in Requests : ~Underway(r)) => (isRunning <=> lastEvent = "ftp-started")

LEMMA EventInvNext ==
    ASSUME TypeOK, StatusAgrees, OneGoroutine, EventInv, [Next]_vars, calm' = TRUE
    PROVE  EventInv'
  <1> USE RequestsAssumption DEF TypeOK, Lives, StatusAgrees, EventInv, Requests, Underway
  <1>1. ASSUME NEW r \in Starts, StartAgain(r)  PROVE EventInv'
    BY <1>1 DEF StartAgain
  <1>2. ASSUME NEW r \in Starts, StartFails(r)  PROVE EventInv'
    BY <1>2 DEF StartFails
  <1>3. ASSUME NEW r \in Starts, Start(r)  PROVE EventInv'
    BY <1>3 DEF Start
  <1>4. ASSUME NEW r \in Stops, StopStopped(r)  PROVE EventInv'
    BY <1>4 DEF StopStopped
  <1>5. ASSUME NEW r \in Stops, Stop(r)  PROVE EventInv'
    BY <1>5 DEF Stop
  <1>6. ASSUME NEW r \in Stops, StopFails(r)  PROVE EventInv'
    BY <1>6 DEF StopFails
  <1>7. ASSUME NEW r \in Requests, Announce(r)  PROVE EventInv'
    BY <1>7 DEF Announce
  <1>8. ASSUME NEW s \in Starts, Listen(s)  PROVE EventInv'
    BY <1>8 DEF Listen
  <1>9. ASSUME NEW s \in Starts, GiveUp(s)  PROVE EventInv'
    BY <1>9 DEF GiveUp
  <1>10. ASSUME NEW s \in Starts, AcceptFails(s)  PROVE EventInv'
    BY <1>10 DEF AcceptFails
  <1>11. ASSUME NEW s \in Starts, Report(s)  PROVE EventInv'
    <2>1. life[s] = "closed"
      BY <1>11 DEF Report
    <2>2. ~running
      BY <2>1 DEF OneGoroutine
    <2> QED BY <1>11, <2>1, <2>2 DEF Report
  <1>12. ASSUME UNCHANGED vars  PROVE EventInv'
    BY <1>12
  <1>13. [Next]_vars
    OBVIOUS
  <1> HIDE DEF TypeOK, Lives, EventInv, vars
  <1> QED
    BY <1>1, <1>2, <1>3, <1>4, <1>5, <1>6, <1>7, <1>8, <1>9,
       <1>10, <1>11, <1>12, <1>13 DEF Next, Goroutine, Finished

\* In a calm and tidy history the last event agrees with the status whenever
\* nothing is in flight.
THEOREM FeedMatchesStatusHolds == Spec => []FeedMatchesStatus
  <1>1. Init => (tidy /\ calm => EventInv)
    BY RequestsAssumption DEF Init, EventInv, Underway
  <1>2. TypeOK /\ StatusAgrees /\ (tidy => OneGoroutine) /\ (tidy /\ calm => EventInv)
          /\ [Next]_vars => (tidy /\ calm => EventInv)'
    BY EventInvNext, HistoryGrows, TypeNext DEF TypeOK
  <1>3. (tidy /\ calm => EventInv) => FeedMatchesStatus
    BY DEF EventInv, FeedMatchesStatus, Quiet, Underway
  <1> QED BY <1>1, <1>2, <1>3, TypeSafety, StatusAgreesHolds, OneGoroutineHolds, PTL DEF Spec
=============================================================================
