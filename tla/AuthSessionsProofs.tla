------------------------- MODULE AuthSessionsProofs -------------------------
(***************************************************************************)
(* What holds of AuthSessions for any number of requests.                  *)
(***************************************************************************)
EXTENDS SessionRefinement, TLAPS

USE DEF Goto, Arrives, Answered, Quiet, trouble, vars

\* Where a request can be, and what the account handlers have read by then.
Stages ==
    /\ \A l \in Logins : pc[l] \in {"idle", "create", "ok", "err"}
    /\ \A o \in Logouts : pc[o] \in {"idle", "forget", "ok", "err"}
    /\ \A u \in Updates : pc[u] \in {"idle", "read", "write", "revoke", "forget", "ok", "err"}
    /\ \A u \in FtpUpdates : pc[u] \in {"idle", "read", "write", "ok", "err"}
    /\ \A c \in Calls : pc[c] \in {"idle", "enter", "ok", "err"}
    /\ \A u \in Updates : pc[u] = "write" => read[u] \in Account
    /\ \A u \in FtpUpdates : pc[u] = "write" => read[u] \in FtpAccount

TypeInv == TypeOK /\ Stages

LEMMA TypeInit == Init => TypeInv
  <1> SUFFICES ASSUME Init  PROVE TypeInv
    OBVIOUS
  <1>1. TypeOK
    BY SeedAssumption DEF Init, TypeOK, Account, FtpAccount, Labels
  <1>2. Stages
    BY DEF Init, Stages, Requests
  <1> QED BY <1>1, <1>2 DEF TypeInv

LEMMA TypeNext == TypeInv /\ [Next]_vars => TypeInv'
  <1> SUFFICES ASSUME TypeInv, [Next]_vars  PROVE TypeInv'
    OBVIOUS
  <1> USE KindsAssumption DEF TypeInv, TypeOK, Stages, Labels, Requests
  <1>1. ASSUME NEW l \in Logins, VerifyPassword(l)  PROVE TypeInv'
    BY <1>1 DEF VerifyPassword
  <1>2. ASSUME NEW l \in Logins, CreateSession(l) \/ Expire(l)  PROVE TypeInv'
    BY <1>2 DEF CreateSession, Expire
  <1>3. ASSUME NEW r \in Requests \ Logins, Authenticate(r)  PROVE TypeInv'
    BY <1>3 DEF Authenticate, FirstStep
  <1>4. ASSUME NEW c \in Calls, Serve(c)  PROVE TypeInv'
    BY <1>4 DEF Serve
  <1>5. ASSUME NEW u \in Updates, ReadAccount(u) \/ RevokeAll(u)  PROVE TypeInv'
    BY <1>5 DEF ReadAccount, RevokeAll, Revoke
  <1>6. ASSUME NEW u \in Updates, WriteAccount(u)  PROVE TypeInv'
    BY <1>6, ValuesAssumption DEF WriteAccount, Over, Account
  <1>7. ASSUME NEW u \in FtpUpdates, ReadFtpAccount(u)  PROVE TypeInv'
    BY <1>7 DEF ReadFtpAccount
  <1>8. ASSUME NEW u \in FtpUpdates, WriteFtpAccount(u)  PROVE TypeInv'
    BY <1>8, ValuesAssumption DEF WriteFtpAccount, Over, FtpAccount
  <1>9. ASSUME NEW r \in Logouts \cup Updates, RevokeCookie(r)  PROVE TypeInv'
    BY <1>9 DEF RevokeCookie, Revoke
  <1>10. ASSUME NEW r \in Requests, StatementFails(r)  PROVE TypeInv'
    BY <1>10 DEF StatementFails
  <1> QED
    BY <1>1, <1>2, <1>3, <1>4, <1>5, <1>6, <1>7, <1>8, <1>9, <1>10 DEF Next, Finished

THEOREM TypeInvHolds == Spec => []TypeInv
  <1> QED BY TypeInit, TypeNext, PTL DEF Spec

\* Every variable keeps its type.
THEOREM TypeSafety == Spec => []TypeOK
  <1>1. TypeInv => TypeOK
    BY DEF TypeInv
  <1> QED BY <1>1, TypeInvHolds, PTL

-----------------------------------------------------------------------------
(* Revocation. A session is created once, so a revoked one stays revoked.  *)

NotYet == \A l \in Logins : pc[l] \in {"idle", "create"} => sessions[l] = "none"

RevokeInv ==
    /\ NotYet
    /\ \A u \in Updates : \A l \in older[u] : sessions[l] # "none"
    /\ \A u \in Updates : pc[u] \in {"forget", "ok"} =>
          \A l \in older[u] : sessions[l] = "revoked"

LEMMA RevokeInvNext ==
    ASSUME TypeInv, RevokeInv, [Next]_vars
    PROVE  RevokeInv'
  <1> USE KindsAssumption DEF TypeInv, TypeOK, Stages, Requests, NotYet, RevokeInv
  <1>1. ASSUME NEW l \in Logins, VerifyPassword(l) \/ CreateSession(l) \/ Expire(l)
        PROVE  RevokeInv'
    BY <1>1 DEF VerifyPassword, CreateSession, Expire
  <1>2. ASSUME NEW r \in Requests \ Logins, Authenticate(r)
        PROVE  RevokeInv'
    BY <1>2 DEF Authenticate, FirstStep
  <1>3. ASSUME NEW c \in Calls, Serve(c)
        PROVE  RevokeInv'
    BY <1>3 DEF Serve
  <1>4. ASSUME NEW u \in Updates, ReadAccount(u) \/ WriteAccount(u)
        PROVE  RevokeInv'
    BY <1>4 DEF ReadAccount, WriteAccount
  <1>5. ASSUME NEW u \in Updates, RevokeAll(u)
        PROVE  RevokeInv'
    BY <1>5 DEF RevokeAll, Revoke
  <1>6. ASSUME NEW u \in FtpUpdates, ReadFtpAccount(u) \/ WriteFtpAccount(u)
        PROVE  RevokeInv'
    BY <1>6 DEF ReadFtpAccount, WriteFtpAccount
  <1>7. ASSUME NEW r \in Logouts \cup Updates, RevokeCookie(r)
        PROVE  RevokeInv'
    BY <1>7 DEF RevokeCookie, Revoke
  <1>8. ASSUME NEW r \in Requests, StatementFails(r)
        PROVE  RevokeInv'
    BY <1>8 DEF StatementFails
  <1> QED
    BY <1>1, <1>2, <1>3, <1>4, <1>5, <1>6, <1>7, <1>8 DEF Next, Finished

LEMMA RevokeInvHolds == Spec => []RevokeInv
  <1>1. Init => RevokeInv
    BY DEF Init, RevokeInv, NotYet, Requests
  <1>2. TypeInv /\ RevokeInv /\ [Next]_vars => RevokeInv'
    BY RevokeInvNext
  <1> QED BY <1>1, <1>2, TypeInvHolds, PTL DEF Spec

\* Whatever the number of updates, logins and logouts in flight, an update
\* that is answered as done has ended every session older than its write.
THEOREM UpdateRevokesHolds == Spec => []UpdateRevokes
  <1>1. RevokeInv => UpdateRevokes
    BY DEF RevokeInv, UpdateRevokes
  <1> QED BY <1>1, RevokeInvHolds, PTL

LogoutInv ==
    /\ NotYet
    /\ \A o \in Logouts : pc[o] \in {"forget", "ok"} =>
          cookie[o] \in Logins /\ sessions[cookie[o]] # "none"
    /\ ~failed => \A o \in Logouts : pc[o] = "ok" => sessions[cookie[o]] # "live"

LEMMA LogoutInvNext ==
    ASSUME TypeInv, LogoutInv, [Next]_vars
    PROVE  LogoutInv'
  <1> USE KindsAssumption DEF TypeInv, TypeOK, Stages, Requests, NotYet, LogoutInv
  <1>1. ASSUME NEW l \in Logins, VerifyPassword(l) \/ CreateSession(l) \/ Expire(l)
        PROVE  LogoutInv'
    BY <1>1 DEF VerifyPassword, CreateSession, Expire
  <1>2. ASSUME NEW r \in Requests \ Logins, Authenticate(r)
        PROVE  LogoutInv'
    BY <1>2 DEF Authenticate, FirstStep
  <1>3. ASSUME NEW c \in Calls, Serve(c)
        PROVE  LogoutInv'
    BY <1>3 DEF Serve
  <1>4. ASSUME NEW u \in Updates, ReadAccount(u) \/ WriteAccount(u)
        PROVE  LogoutInv'
    BY <1>4 DEF ReadAccount, WriteAccount
  <1>5. ASSUME NEW u \in Updates, RevokeAll(u)
        PROVE  LogoutInv'
    BY <1>5 DEF RevokeAll, Revoke
  <1>6. ASSUME NEW u \in FtpUpdates, ReadFtpAccount(u) \/ WriteFtpAccount(u)
        PROVE  LogoutInv'
    BY <1>6 DEF ReadFtpAccount, WriteFtpAccount
  <1>7. ASSUME NEW r \in Logouts \cup Updates, RevokeCookie(r)
        PROVE  LogoutInv'
    BY <1>7 DEF RevokeCookie, Revoke
  <1>8. ASSUME NEW r \in Requests, StatementFails(r)
        PROVE  LogoutInv'
    BY <1>8 DEF StatementFails
  <1> QED
    BY <1>1, <1>2, <1>3, <1>4, <1>5, <1>6, <1>7, <1>8 DEF Next, Finished

\* As long as no statement has failed, an answered logout has ended its
\* session for good, whatever overlaps it.
THEOREM LogoutIsFinalHolds == Spec => []LogoutIsFinal
  <1>1. Init => LogoutInv
    BY DEF Init, LogoutInv, NotYet, Requests
  <1>2. TypeInv /\ LogoutInv /\ [Next]_vars => LogoutInv'
    BY LogoutInvNext
  <1>3. LogoutInv => LogoutIsFinal
    BY DEF LogoutInv, LogoutIsFinal
  <1> QED BY <1>1, <1>2, <1>3, TypeInvHolds, PTL DEF Spec

-----------------------------------------------------------------------------
(* An account that is used by one writer at a time. What an update has     *)
(* read is then what its table still holds when it writes.                 *)

NoRivals ==
    /\ \A u \in Updates, r \in Logins \cup Updates : ~Answered(u) /\ ~Answered(r) => u = r
    /\ \A u, v \in FtpUpdates : ~Answered(u) /\ ~Answered(v) => u = v

\* What a login verified and what an update read is still so.
Hands ==
    /\ \A l \in Logins : pc[l] = "create" => typed[l] = account.password
    /\ \A u \in Updates : pc[u] = "write" => read[u] = account
    /\ \A u \in FtpUpdates : pc[u] = "write" => read[u] = ftp

HandsInv == ~overlap => NoRivals /\ Hands

\* A request moves alone, and begins with its rivals at rest or overlaps them.
LEMMA OneMoves ==
    ASSUME TypeInv, [Next]_vars
    PROVE  /\ overlap => overlap'
           /\ \E r \in Requests \cup {None} :
                /\ \A q \in Requests \ {r} : pc'[q] = pc[q]
                /\ r \in Requests => \/ ~Answered(r) \/ Answered(r)'
                                     \/ ~overlap' => \A q \in Rivals(r) : Answered(q)
  <1> USE DEF TypeInv, TypeOK
  <1>1. ASSUME NEW r \in Requests,
               \/ VerifyPassword(r) \/ CreateSession(r) \/ Authenticate(r) \/ Serve(r)
               \/ ReadAccount(r) \/ WriteAccount(r) \/ RevokeAll(r)
               \/ ReadFtpAccount(r) \/ WriteFtpAccount(r)
               \/ RevokeCookie(r) \/ StatementFails(r)
        PROVE  /\ \A q \in Requests \ {r} : pc'[q] = pc[q]
               /\ overlap => overlap'
               /\ \/ ~Answered(r) \/ Answered(r)'
                  \/ ~overlap' => \A q \in Rivals(r) : Answered(q)
    BY <1>1 DEF VerifyPassword, CreateSession, Authenticate, Serve, ReadAccount, WriteAccount,
       RevokeAll, ReadFtpAccount, WriteFtpAccount, RevokeCookie, StatementFails
  <1>2. CASE UNCHANGED vars \/ \E l \in Logins : Expire(l)
    BY <1>2 DEF Expire
  <1> QED
    BY <1>1, <1>2 DEF Next, Finished, Requests

LEMMA NoRivalsNext ==
    ASSUME TypeInv, NoRivals, ~overlap', [Next]_vars
    PROVE  NoRivals'
  <1> USE KindsAssumption DEF Requests, Rivals, NoRivals, TypeInv, TypeOK
  <1>1. PICK r \in Requests \cup {None} :
             /\ \A q \in Requests \ {r} : pc'[q] = pc[q]
             /\ r \in Requests => \/ ~Answered(r) \/ Answered(r)'
                                  \/ \A q \in Rivals(r) : Answered(q)
    BY OneMoves
  <1>2. \A q \in Requests : ~Answered(q)' => \/ ~Answered(q)
                                             \/ r = q /\ \A p \in Rivals(q) : Answered(p)
    BY <1>1
  <1>3. \A q \in Requests \ {r} : Answered(q)' <=> Answered(q)
    BY <1>1
  <1> QED BY <1>1, <1>2, <1>3

LEMMA HandsNext ==
    ASSUME TypeInv, NoRivals, Hands, [Next]_vars
    PROVE  Hands'
  <1> USE KindsAssumption DEF Requests, TypeInv, TypeOK, Stages, Hands
  <1>1. ASSUME NEW l \in Logins, VerifyPassword(l) \/ CreateSession(l) \/ Expire(l)  PROVE Hands'
    BY <1>1 DEF VerifyPassword, CreateSession, Expire
  <1>2. ASSUME NEW r \in Requests \ Logins, Authenticate(r)  PROVE Hands'
    BY <1>2 DEF Authenticate, FirstStep
  <1>3. ASSUME NEW u \in Updates, ReadAccount(u) \/ RevokeAll(u)  PROVE Hands'
    BY <1>3 DEF ReadAccount, RevokeAll
  <1>4. ASSUME NEW u \in Updates, WriteAccount(u)  PROVE Hands'
    <2>1. /\ \A l \in Logins : pc[l] # "create"
          /\ \A v \in Updates \ {u} : pc[v] # "write"
      BY <1>4 DEF WriteAccount, NoRivals
    <2> QED BY <1>4, <2>1 DEF WriteAccount
  <1>5. ASSUME NEW u \in FtpUpdates, ReadFtpAccount(u)  PROVE Hands'
    BY <1>5 DEF ReadFtpAccount
  <1>6. ASSUME NEW u \in FtpUpdates, WriteFtpAccount(u)  PROVE Hands'
    <2>1. \A v \in FtpUpdates \ {u} : pc[v] # "write"
      BY <1>6 DEF WriteFtpAccount, NoRivals
    <2> QED BY <1>6, <2>1 DEF WriteFtpAccount
  <1>7. ASSUME NEW r \in Requests, Serve(r) \/ RevokeCookie(r) \/ StatementFails(r)  PROVE Hands'
    BY <1>7 DEF Serve, RevokeCookie, StatementFails
  <1>8. CASE UNCHANGED vars
    BY <1>8
  <1> QED
    BY <1>1, <1>2, <1>3, <1>4, <1>5, <1>6, <1>7, <1>8 DEF Next, Finished

LEMMA HandsInvHolds == Spec => []HandsInv
  <1>1. Init => HandsInv
    BY KindsAssumption DEF Init, HandsInv, NoRivals, Hands, Requests
  <1>2. TypeInv /\ HandsInv /\ [Next]_vars => HandsInv'
    BY OneMoves, NoRivalsNext, HandsNext DEF HandsInv
  <1> QED BY <1>1, <1>2, TypeInvHolds, PTL DEF Spec

-----------------------------------------------------------------------------
(* What the accounts hold, and which sessions are live.                    *)

Passworded == {u \in Updates : wrote[u] # None}

PasswordInv ==
    /\ \A u \in Updates \cup FtpUpdates : pc[u] \in {"idle", "read", "write"} => wrote[u] = None
    /\ ~overlap =>
         /\ Passworded # {} => account.password # SeedPassword
         /\ (\A u \in FtpUpdates : wrote[u] = None) => ftp.password = SeedFtpPassword
         /\ \A u \in FtpUpdates :
              wrote[u] # None /\ (\A v \in FtpUpdates \ {u} : wrote[v] = None)
              => ftp.password = wrote[u]

\* A live session was opened with the present password, unless the update that
\* changed it is about to revoke the session.
LiveInv ==
    ~overlap /\ ~failed =>
        \A l \in Logins : sessions[l] = "live" =>
            typed[l] = account.password \/ \E u \in Updates : pc[u] = "revoke"

LEMMA PasswordInvNext ==
    ASSUME TypeInv, HandsInv, PasswordInv, [Next]_vars
    PROVE  PasswordInv'
  <1> USE KindsAssumption DEF Requests, TypeInv, TypeOK, Stages, PasswordInv, Passworded
  <1>1. ASSUME NEW l \in Logins, VerifyPassword(l) \/ CreateSession(l) \/ Expire(l)
        PROVE  PasswordInv'
    BY <1>1 DEF VerifyPassword, CreateSession, Expire
  <1>2. ASSUME NEW r \in Requests \ Logins, Authenticate(r)  PROVE PasswordInv'
    BY <1>2 DEF Authenticate, FirstStep
  <1>3. ASSUME NEW u \in Updates, ReadAccount(u) \/ RevokeAll(u)  PROVE PasswordInv'
    BY <1>3 DEF ReadAccount, RevokeAll
  <1>4. ASSUME NEW u \in Updates, WriteAccount(u)  PROVE PasswordInv'
    BY <1>4, ValuesAssumption, SeedAssumption DEF WriteAccount, Over, Account, HandsInv, Hands
  <1>5. ASSUME NEW u \in FtpUpdates, ReadFtpAccount(u)  PROVE PasswordInv'
    BY <1>5 DEF ReadFtpAccount
  <1>6. ASSUME NEW u \in FtpUpdates, WriteFtpAccount(u)  PROVE PasswordInv'
    BY <1>6, ValuesAssumption DEF WriteFtpAccount, Over, FtpAccount, HandsInv, Hands
  <1>7. ASSUME NEW r \in Requests, Serve(r) \/ RevokeCookie(r) \/ StatementFails(r)
        PROVE  PasswordInv'
    BY <1>7 DEF Serve, RevokeCookie, StatementFails
  <1>8. CASE UNCHANGED vars
    BY <1>8
  <1> QED
    BY <1>1, <1>2, <1>3, <1>4, <1>5, <1>6, <1>7, <1>8 DEF Next, Finished

LEMMA PasswordInvHolds == Spec => []PasswordInv
  <1>1. Init => PasswordInv
    BY KindsAssumption DEF Init, PasswordInv, Passworded, Requests
  <1>2. TypeInv /\ HandsInv /\ PasswordInv /\ [Next]_vars => PasswordInv'
    BY PasswordInvNext
  <1> QED BY <1>1, <1>2, TypeInvHolds, HandsInvHolds, PTL DEF Spec

LEMMA LiveInvNext ==
    ASSUME TypeInv, RevokeInv, HandsInv, LiveInv, [Next]_vars
    PROVE  LiveInv'
  <1> USE KindsAssumption DEF Requests, TypeInv, TypeOK, Stages, LiveInv
  <1>1. ASSUME NEW l \in Logins, VerifyPassword(l)  PROVE LiveInv'
    BY <1>1 DEF VerifyPassword, RevokeInv, NotYet
  <1>2. ASSUME NEW l \in Logins, CreateSession(l)  PROVE LiveInv'
    BY <1>2 DEF CreateSession, HandsInv, Hands
  <1>3. ASSUME NEW l \in Logins, Expire(l)  PROVE LiveInv'
    BY <1>3 DEF Expire
  <1>4. ASSUME NEW r \in Requests \ Logins, Authenticate(r)  PROVE LiveInv'
    BY <1>4 DEF Authenticate, FirstStep
  <1>5. ASSUME NEW u \in Updates, ReadAccount(u)  PROVE LiveInv'
    BY <1>5 DEF ReadAccount
  <1>6. ASSUME NEW u \in Updates, WriteAccount(u)  PROVE LiveInv'
    BY <1>6 DEF WriteAccount
  <1>7. ASSUME NEW u \in Updates, RevokeAll(u)  PROVE LiveInv'
    BY <1>7 DEF RevokeAll, Revoke
  <1>8. ASSUME NEW u \in FtpUpdates, ReadFtpAccount(u) \/ WriteFtpAccount(u)  PROVE LiveInv'
    BY <1>8 DEF ReadFtpAccount, WriteFtpAccount
  <1>9. ASSUME NEW r \in Logouts \cup Updates, RevokeCookie(r)  PROVE LiveInv'
    BY <1>9 DEF RevokeCookie, Revoke
  <1>10. ASSUME NEW r \in Requests, Serve(r) \/ StatementFails(r)  PROVE LiveInv'
    BY <1>10 DEF Serve, StatementFails
  <1>11. CASE UNCHANGED vars
    BY <1>11
  <1> QED
    BY <1>1, <1>2, <1>3, <1>4, <1>5, <1>6, <1>7, <1>8, <1>9, <1>10, <1>11 DEF Next, Finished

LEMMA LiveInvHolds == Spec => []LiveInv
  <1>1. Init => LiveInv
    BY DEF Init, LiveInv
  <1>2. TypeInv /\ RevokeInv /\ HandsInv /\ LiveInv /\ [Next]_vars => LiveInv'
    BY LiveInvNext
  <1> QED BY <1>1, <1>2, TypeInvHolds, RevokeInvHolds, HandsInvHolds, PTL DEF Spec

\* Whatever else overlaps, updates that overlap neither a login nor each other
\* and revocations that do not fail leave no live session that was opened with
\* another password than the present one.
THEOREM SessionsFollowPasswordHolds == Spec => []SessionsFollowPassword
  <1>1. LiveInv => SessionsFollowPassword
    BY DEF LiveInv, SessionsFollowPassword, NoSessionFromOldPassword, Requests
  <1> QED BY <1>1, LiveInvHolds, PTL

\* If no update overlaps a login or another update, the seeded password opens
\* nothing after an answered change, also when statements fail.
THEOREM OldPasswordDeadHolds == Spec => []OldPasswordDead
  <1>1. PasswordInv => OldPasswordDead
    BY DEF PasswordInv, OldPasswordDead, Passworded
  <1> QED BY <1>1, PasswordInvHolds, PTL

\* If FTP updates do not overlap, the FTP password survives every one that does
\* not carry another.
THEOREM FtpPasswordKeptHolds == Spec => []FtpPasswordKept
  <1>1. PasswordInv => FtpPasswordKept
    BY DEF PasswordInv, FtpPasswordKept
  <1> QED BY <1>1, PasswordInvHolds, PTL

-----------------------------------------------------------------------------
(* The implementation of SessionRegistry, step by step.                    *)

\* A protected request past the check carries the cookie of an answered login;
\* an update that has revoked the sessions has ended that one for good.
CookieInv ==
    /\ \A r \in Requests : cookie[r] # None => pc[cookie[r]] = "ok"
    /\ \A r \in Logouts \cup Updates : pc[r] = "forget" => cookie[r] # None
    /\ \A u \in Updates : pc[u] \in {"read", "write", "revoke"} => cookie[u] # None
    /\ \A u \in Updates : pc[u] = "forget" => sessions[cookie[u]] # "live"

LEMMA CookieInvNext ==
    ASSUME TypeInv, CookieInv, [Next]_vars
    PROVE  CookieInv'
  <1> USE KindsAssumption, ValuesAssumption
      DEF Requests, TypeInv, TypeOK, Stages, CookieInv
  <1>1. ASSUME NEW l \in Logins, VerifyPassword(l) \/ CreateSession(l) \/ Expire(l)
        PROVE  CookieInv'
    BY <1>1 DEF VerifyPassword, CreateSession, Expire
  <1>2. ASSUME NEW r \in Requests \ Logins, Authenticate(r)  PROVE CookieInv'
    BY <1>2 DEF Authenticate, FirstStep
  <1>3. ASSUME NEW u \in Updates, ReadAccount(u) \/ WriteAccount(u)  PROVE CookieInv'
    BY <1>3 DEF ReadAccount, WriteAccount
  <1>4. ASSUME NEW u \in Updates, RevokeAll(u)  PROVE CookieInv'
    BY <1>4 DEF RevokeAll, Revoke
  <1>5. ASSUME NEW u \in FtpUpdates, ReadFtpAccount(u) \/ WriteFtpAccount(u)  PROVE CookieInv'
    BY <1>5 DEF ReadFtpAccount, WriteFtpAccount
  <1>6. ASSUME NEW r \in Logouts \cup Updates, RevokeCookie(r)  PROVE CookieInv'
    BY <1>6 DEF RevokeCookie, Revoke
  <1>7. ASSUME NEW r \in Requests, Serve(r) \/ StatementFails(r)  PROVE CookieInv'
    BY <1>7 DEF Serve, StatementFails
  <1>8. CASE UNCHANGED vars
    BY <1>8
  <1> QED
    BY <1>1, <1>2, <1>3, <1>4, <1>5, <1>6, <1>7, <1>8 DEF Next, Finished

LEMMA CookieInvHolds == Spec => []CookieInv
  <1>1. Init => CookieInv
    BY KindsAssumption DEF Init, CookieInv, Requests
  <1> QED BY <1>1, CookieInvNext, TypeInvHolds, PTL DEF Spec

LEMMA SameRequests == Logins \cup Registry!Protected = Requests
  <1> QED BY DEF Registry!Protected, Requests

\* The request that moves moves alone in the registry, too.
LEMMA PhaseMoves ==
    ASSUME TypeInv, NEW r \in Requests, pc' = [pc EXCEPT ![r] = pc'[r]]
    PROVE  /\ Phase' = [Phase EXCEPT ![r] = PhaseOf(r)']
           /\ PhaseOf(r)' = PhaseOf(r) => Phase' = Phase
  <1>1. \A q \in Requests \ {r} : PhaseOf(q)' = PhaseOf(q)
    BY DEF TypeInv, TypeOK, PhaseOf
  <1> QED BY <1>1 DEF Phase

\* The password that counts changes only where an update revokes.
LEMMA AcceptedStays ==
    ASSUME TypeInv, UNCHANGED <<account, Revoking>>,
           \A u \in Updates : pc[u] = "revoke" => read'[u] = read[u]
    PROVE  Accepted' = Accepted
  <1> DEFINE one == CHOOSE u \in Revoking : TRUE
  <1>1. CASE Revoking = {}
    BY <1>1 DEF Accepted
  <1>2. CASE Revoking # {}
    <2>1. one \in Revoking /\ one' = one
      BY <1>2
    <2>2. one \in Updates /\ pc[one] = "revoke"
      BY <2>1 DEF Revoking
    <2>3. read'[one] = read[one]
      BY <2>2
    <2>4. Accepted = read[one].password /\ Accepted' = read'[one'].password
      BY <1>2 DEF Accepted
    <2> QED BY <2>1, <2>3, <2>4
  <1> QED BY <1>1, <1>2

LEMMA NobodyRevokes ==
    ASSUME TypeInv, NoRivals, NEW r \in Logins \cup Updates, ~Answered(r), pc[r] # "revoke"
    PROVE  Revoking = {} /\ Accepted = account.password
  <1> QED BY DEF NoRivals, Revoking, Accepted

USE DEF Registry!vars, Registry!Step

LEMMA LoginSimulates ==
    ASSUME TypeInv, HandsInv, ~overlap, NEW l \in Logins,
           VerifyPassword(l) \/ CreateSession(l)
    PROVE  Registry!Ask(l) \/ Registry!Open(l)
  <1> USE KindsAssumption DEF TypeInv, TypeOK, Stages, Requests
  <1>1. Phase' = [Phase EXCEPT ![l] = PhaseOf(l)'] /\ Phase[l] = PhaseOf(l)
    BY PhaseMoves DEF VerifyPassword, CreateSession, Phase
  <1>2. Accepted' = Accepted
    <2>1. Revoking' = Revoking
      BY DEF VerifyPassword, CreateSession, Revoking
    <2> QED BY <2>1, AcceptedStays DEF VerifyPassword, CreateSession
  <1>3. CASE VerifyPassword(l)
    <2>1. pc[l] = "idle" /\ pc'[l] \in {"create", "err"} /\ Live' = Live
      BY <1>3 DEF VerifyPassword, Live
    <2> QED BY <1>1, <1>2, <1>3, <2>1 DEF VerifyPassword, PhaseOf, Registry!Ask
  <1>4. CASE CreateSession(l)
    <2>1. pc[l] = "create" /\ pc'[l] = "ok" /\ Live' = Live \cup {l}
      BY <1>4 DEF CreateSession, Live
    <2>2. typed[l] = Accepted
      BY <2>1, NobodyRevokes DEF HandsInv, Hands
    <2> QED BY <1>1, <1>2, <1>4, <2>1, <2>2 DEF CreateSession, PhaseOf, Registry!Open
  <1> QED BY <1>3, <1>4

LEMMA CheckSimulates ==
    ASSUME TypeInv, NEW r \in Requests \ Logins, Authenticate(r)
    PROVE  Registry!Enter(r) \/ Registry!TurnAway(r)
  <1> USE KindsAssumption DEF TypeInv, TypeOK, Stages, Requests
  <1>1. Phase' = [Phase EXCEPT ![r] = PhaseOf(r)'] /\ Phase[r] = PhaseOf(r)
    BY PhaseMoves DEF Authenticate, Phase
  <1>2. Live' = Live
    BY DEF Authenticate, Live
  <1>3. Accepted' = Accepted
    <2>1. Revoking' = Revoking
      BY DEF Authenticate, FirstStep, Revoking
    <2> QED BY <2>1, AcceptedStays DEF Authenticate
  <1>4. CASE pc'[r] = "err"
    BY <1>1, <1>2, <1>3, <1>4 DEF Authenticate, FirstStep, Live, PhaseOf, Registry!TurnAway
  <1>5. CASE pc'[r] # "err"
    <2>1. pc'[r] = FirstStep(r)
      BY <1>5 DEF Authenticate
    <2>2. PhaseOf(r) = "idle" /\ PhaseOf(r)' = "in"
      BY <2>1 DEF Authenticate, FirstStep, PhaseOf
    <2> QED BY <1>1, <1>2, <1>3, <1>5, <2>2 DEF Authenticate, Live, Registry!Enter
  <1> QED BY <1>4, <1>5

LEMMA UpdateSimulates ==
    ASSUME TypeInv, HandsInv, CookieInv, ~overlap, ~failed', NEW u \in Updates,
           ReadAccount(u) \/ WriteAccount(u) \/ RevokeAll(u) \/ RevokeCookie(u)
    PROVE  \/ Registry!Change(u) \/ Registry!Answer(u) \/ Registry!Refuse(u)
           \/ UNCHANGED Registry!vars
  <1> USE KindsAssumption DEF TypeInv, TypeOK, Stages, Requests
  <1>1. Phase' = [Phase EXCEPT ![u] = PhaseOf(u)'] /\ Phase[u] = PhaseOf(u)
    BY PhaseMoves DEF ReadAccount, WriteAccount, RevokeAll, RevokeCookie, Phase
  <1>2. CASE ReadAccount(u)
    <2>1. Revoking' = Revoking /\ Live' = Live /\ \A v \in Revoking : read'[v] = read[v]
      BY <1>2 DEF ReadAccount, Revoking, Live
    <2>2. Accepted' = Accepted
      BY <1>2, <2>1, AcceptedStays DEF ReadAccount, Revoking
    <2>3. PhaseOf(u) = "in" /\ PhaseOf(u)' \in {"in", "err"}
      BY <1>2 DEF ReadAccount, PhaseOf
    <2>4. PhaseOf(u)' = "in" => Phase' = Phase
      BY <1>2, <2>3, PhaseMoves DEF ReadAccount
    <2> QED BY <1>1, <1>2, <2>1, <2>2, <2>3, <2>4 DEF ReadAccount, Registry!Refuse
  <1>3. CASE WriteAccount(u)
    <2>1. Revoking = {} /\ Accepted = account.password
      BY <1>3, NobodyRevokes DEF WriteAccount, HandsInv
    <2>2. Revoking' = {u} /\ read' = read /\ Live' = Live
      BY <1>3, <2>1 DEF WriteAccount, Revoking, Live
    <2>3. Accepted' = read[u].password
      BY <2>2 DEF Accepted
    <2>4. Accepted' = Accepted
      BY <1>3, <2>1, <2>3 DEF WriteAccount, HandsInv, Hands
    <2>5. PhaseOf(u) = "in" /\ PhaseOf(u)' = "in"
      BY <1>3 DEF WriteAccount, PhaseOf
    <2>6. Phase' = Phase
      BY <1>3, <2>5, PhaseMoves DEF WriteAccount
    <2> QED BY <1>3, <2>2, <2>4, <2>6 DEF WriteAccount
  <1>4. CASE RevokeAll(u)
    <2>1. \A v \in Updates \ {u} : pc[v] # "revoke"
      BY <1>4 DEF RevokeAll, HandsInv, NoRivals
    <2>2. Revoking' = {} /\ account' = account
      BY <1>4, <2>1 DEF RevokeAll, Revoking
    <2>3. Accepted' = account.password
      BY <2>2 DEF Accepted
    <2>4. Accepted' \in Passwords
      BY <2>3 DEF Account
    <2>5. Live' = {}
      BY <1>4 DEF RevokeAll, Revoke, Live
    <2>6. PhaseOf(u) = "in" /\ PhaseOf(u)' = "done"
      BY <1>4 DEF RevokeAll, PhaseOf
    <2> QED BY <1>1, <1>4, <2>4, <2>5, <2>6 DEF RevokeAll, Registry!Change
  <1>5. CASE RevokeCookie(u)
    <2>1. Revoking' = Revoking
      BY <1>5 DEF RevokeCookie, Revoking
    <2>2. Accepted' = Accepted
      BY <1>5, <2>1, AcceptedStays DEF RevokeCookie
    <2>3. Live' = Live
      BY <1>5 DEF RevokeCookie, Revoke, CookieInv, Live
    <2>4. PhaseOf(u) = "done" /\ PhaseOf(u)' = "ok"
      BY <1>5 DEF RevokeCookie, PhaseOf
    <2> QED BY <1>1, <1>5, <2>2, <2>3, <2>4 DEF RevokeCookie, Registry!Answer
  <1> QED BY <1>2, <1>3, <1>4, <1>5

LEMMA LogoutSimulates ==
    ASSUME TypeInv, ~failed', NEW o \in Logouts, RevokeCookie(o)
    PROVE  Registry!End(o)
  <1> USE KindsAssumption DEF TypeInv, TypeOK, Stages, Requests
  <1>1. Phase' = [Phase EXCEPT ![o] = PhaseOf(o)'] /\ Phase[o] = PhaseOf(o)
    BY PhaseMoves DEF RevokeCookie, Phase
  <1>2. Revoking' = Revoking
    BY DEF RevokeCookie, Revoking
  <1>3. Accepted' = Accepted
    BY <1>2, AcceptedStays DEF RevokeCookie
  <1>4. Live' = Live \ {cookie[o]}
    BY DEF RevokeCookie, Revoke, Live
  <1>5. PhaseOf(o) = "in" /\ PhaseOf(o)' = "ok"
    BY DEF RevokeCookie, PhaseOf
  <1> QED BY <1>1, <1>3, <1>4, <1>5 DEF RevokeCookie, Registry!End

LEMMA OtherSimulates ==
    ASSUME TypeInv, NEW r \in FtpUpdates \cup Calls,
           ReadFtpAccount(r) \/ WriteFtpAccount(r) \/ Serve(r),
           r \in FtpUpdates \/ Serve(r)
    PROVE  Registry!Answer(r) \/ UNCHANGED Registry!vars
  <1> USE KindsAssumption DEF TypeInv, TypeOK, Stages, Requests
  <1>1. Phase' = [Phase EXCEPT ![r] = PhaseOf(r)'] /\ Phase[r] = PhaseOf(r)
    BY PhaseMoves DEF ReadFtpAccount, WriteFtpAccount, Serve, Phase
  <1>2. Revoking' = Revoking /\ Live' = Live /\ \A u \in Updates : read'[u] = read[u]
    BY DEF ReadFtpAccount, WriteFtpAccount, Serve, Revoking, Live
  <1>3. Accepted' = Accepted
    BY <1>2, AcceptedStays DEF ReadFtpAccount, WriteFtpAccount, Serve
  <1>4. PhaseOf(r) = "in" /\ PhaseOf(r)' \in {"in", "ok"}
    BY DEF ReadFtpAccount, WriteFtpAccount, Serve, PhaseOf
  <1>5. PhaseOf(r)' = "in" => Phase' = Phase
    BY <1>4, PhaseMoves DEF ReadFtpAccount, WriteFtpAccount, Serve
  <1> QED
    BY <1>1, <1>2, <1>3, <1>4, <1>5
       DEF ReadFtpAccount, WriteFtpAccount, Serve, Registry!Answer

LEMMA FailureSimulates ==
    ASSUME TypeInv, ~failed', NEW r \in Requests, StatementFails(r)
    PROVE  Registry!Refuse(r)
  <1> USE KindsAssumption DEF TypeInv, TypeOK, Stages, Requests
  <1>1. Phase' = [Phase EXCEPT ![r] = PhaseOf(r)'] /\ Phase[r] = PhaseOf(r)
    BY PhaseMoves DEF StatementFails, Phase
  <1>2. Revoking' = Revoking /\ Live' = Live
    BY DEF StatementFails, Revoking, Live
  <1>3. Accepted' = Accepted
    BY <1>2, AcceptedStays DEF StatementFails
  <1>4. PhaseOf(r) \in {"asked", "in"} /\ PhaseOf(r)' = "err"
    BY DEF StatementFails, PhaseOf
  <1> QED BY <1>1, <1>2, <1>3, <1>4 DEF StatementFails, Registry!Refuse

LEMMA ExpireSimulates ==
    ASSUME TypeInv, NEW l \in Logins, Expire(l)
    PROVE  Registry!Expire(l)
  <1>1. Live' = Live \ {l}
    BY DEF Expire, Live, TypeInv, TypeOK
  <1>2. Phase' = Phase /\ Accepted' = Accepted
    BY DEF Expire, Phase, PhaseOf, Accepted, Revoking
  <1> QED BY <1>1, <1>2 DEF Expire, Registry!Expire

LEMMA StepSimulates ==
    ASSUME TypeInv, HandsInv, CookieInv, [Next]_vars, ~overlap', ~failed'
    PROVE  [Registry!Next]_Registry!vars
  <1> USE SameRequests DEF Registry!Protected
  <1>1. ~overlap
    BY OneMoves
  <1>2. ASSUME NEW l \in Logins, VerifyPassword(l) \/ CreateSession(l) \/ Expire(l)
        PROVE  Registry!Next
    BY <1>1, <1>2, LoginSimulates, ExpireSimulates DEF Registry!Next
  <1>3. ASSUME NEW r \in Requests \ Logins, Authenticate(r)  PROVE Registry!Next
    BY <1>3, CheckSimulates DEF Registry!Next
  <1>4. ASSUME NEW c \in Calls, Serve(c)  PROVE [Registry!Next]_Registry!vars
    BY <1>4, OtherSimulates DEF Registry!Next
  <1>5. ASSUME NEW u \in Updates, ReadAccount(u) \/ WriteAccount(u) \/ RevokeAll(u)
                                  \/ RevokeCookie(u)
        PROVE  [Registry!Next]_Registry!vars
    BY <1>1, <1>5, UpdateSimulates DEF Registry!Next
  <1>6. ASSUME NEW u \in FtpUpdates, ReadFtpAccount(u) \/ WriteFtpAccount(u)
        PROVE  [Registry!Next]_Registry!vars
    BY <1>6, OtherSimulates DEF Registry!Next
  <1>7. ASSUME NEW o \in Logouts, RevokeCookie(o)  PROVE Registry!Next
    BY <1>7, LogoutSimulates DEF Registry!Next
  <1>8. ASSUME NEW r \in Requests, StatementFails(r)  PROVE Registry!Next
    BY <1>8, FailureSimulates DEF Registry!Next
  <1>9. CASE UNCHANGED vars
    BY <1>9 DEF Accepted, Revoking, Live, Phase, PhaseOf
  <1> QED
    BY <1>2, <1>3, <1>4, <1>5, <1>6, <1>7, <1>8, <1>9 DEF Next, Finished

LEMMA InitSimulates == Init => Registry!Init
  <1> SUFFICES ASSUME Init  PROVE Registry!Init
    OBVIOUS
  <1>1. Revoking = {} /\ Live = {} /\ Accepted = SeedPassword
    BY KindsAssumption DEF Init, Revoking, Live, Accepted, Requests
  <1>2. Phase = [r \in Requests |-> "idle"]
    BY DEF Init, Phase, PhaseOf
  <1> QED BY <1>1, <1>2, SameRequests, SeedAssumption DEF Init, Registry!Init

\* Every step of the accounts and sessions is one of SessionRegistry or none,
\* until an update overlaps a login or another update or a revocation fails.
THEOREM RegistryKeptHolds == Spec => RegistryKept
  <1>1. TypeInv /\ HandsInv /\ CookieInv /\ [Next]_vars
          => [~overlap' /\ ~failed' => [Registry!Next]_Registry!vars]_vars
    BY StepSimulates
  <1> QED
    BY <1>1, InitSimulates, TypeInvHolds, HandsInvHolds, CookieInvHolds, PTL
       DEF Spec, RegistryKept
=============================================================================
