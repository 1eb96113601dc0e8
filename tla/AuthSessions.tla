---------------------------- MODULE AuthSessions ----------------------------
(***************************************************************************)
(* The one system account, the one FTP account and the sessions:           *)
(*   auth/service.go     Login, SessionFromToken, Logout,                  *)
(*                       UpdateSystemAccount, UpdateFtpAccount             *)
(*   api/handlers.go     the handlers of these, api/middleware.go          *)
(*   db/store.go         the statements on the three tables                *)
(*                                                                         *)
(* Every statement is an action: no transaction spans two of them, and the *)
(* values read by one (the account, to verify a password against) are used *)
(* by a later one. A password hash is stood for by the password it         *)
(* verifies; the hash of the empty password is Blank, a hash like another. *)
(* As in MediaPipeline, Action_Fault is a faulty form of Action, which     *)
(* Spec does not use.                                                      *)
(***************************************************************************)
EXTENDS Naturals

CONSTANTS
    Logins,       \* POST /api/auth/login; also names the session each may create
    Logouts,      \* POST /api/auth/logout
    Updates,      \* PUT /api/system/account
    FtpUpdates,   \* PUT /api/ftp/account
    Calls,        \* any other protected request
    Names, Passwords,
    SeedName, SeedPassword,                          \* DEFAULT_SYSTEM_...
    SeedFtpName, SeedFtpPassword, SeedFtpAnonymous,  \* DEFAULT_FTP_...
    Faults,       \* {"db"}: statements may fail
    Keep,         \* an empty field of an update request: keep the current value
    Blank, None

Requests == Logins \cup Logouts \cup Updates \cup FtpUpdates \cup Calls

Account    == [name : Names, password : Passwords]
FtpAccount == [name : Names, password : Passwords \cup {Blank}, anonymous : BOOLEAN]

ASSUME KindsAssumption ==
    /\ Logins \cap (Logouts \cup Updates \cup FtpUpdates \cup Calls) = {}
    /\ Logouts \cap (Updates \cup FtpUpdates \cup Calls) = {}
    /\ Updates \cap (FtpUpdates \cup Calls) = {}
    /\ FtpUpdates \cap Calls = {}
\* What config.Validate demands of the defaults.
ASSUME SeedAssumption ==
    /\ SeedName \in Names /\ SeedPassword \in Passwords
    /\ SeedFtpName \in Names /\ SeedFtpPassword \in Passwords \cup {Blank}
    /\ SeedFtpAnonymous \in BOOLEAN
    /\ ~SeedFtpAnonymous => SeedFtpPassword # Blank
ASSUME ValuesAssumption ==
    /\ Keep \notin Names \cup Passwords /\ Blank \notin Passwords
    /\ None \notin Passwords \cup Logins /\ None \notin Account /\ None \notin FtpAccount
    /\ Faults \subseteq {"db"}

VARIABLES
    account,   \* table system_accounts: its only row
    ftp,       \* table ftp_account: its only row
    sessions,  \* table sessions, per login
    typed,     \* per login, the password it was made with
    cookie,    \* per request, the session whose cookie it carries
    read,      \* per update, the account as its handler read it
    older,     \* history: per update, the sessions there were when it wrote
    wrote,     \* history: per update, the password it set, if it did
    overlap,   \* history: two requests overlapped that use one account
    failed,    \* history: a revocation has failed
    pc

trouble == <<overlap, failed>>
vars    == <<account, ftp, sessions, typed, cookie, read, older, wrote, trouble, pc>>

Labels == {"idle", "create", "enter", "read", "write", "revoke", "forget", "ok", "err"}

TypeOK ==
    /\ account \in Account /\ ftp \in FtpAccount
    /\ sessions \in [Logins -> {"none", "live", "revoked", "expired"}]
    /\ typed \in [Logins -> Passwords \cup {None}]
    /\ cookie \in [Requests -> Logins \cup {None}]
    /\ read \in [Updates \cup FtpUpdates -> Account \cup FtpAccount \cup {None}]
    /\ older \in [Updates -> SUBSET Logins]
    /\ wrote \in [Updates \cup FtpUpdates -> Passwords \cup {None}]
    /\ overlap \in BOOLEAN /\ failed \in BOOLEAN
    /\ pc \in [Requests -> Labels]

\* After SeedDefaults.
Init ==
    /\ account = [name |-> SeedName, password |-> SeedPassword]
    /\ ftp = [name |-> SeedFtpName, password |-> SeedFtpPassword, anonymous |-> SeedFtpAnonymous]
    /\ sessions = [l \in Logins |-> "none"]
    /\ typed = [l \in Logins |-> None]
    /\ cookie = [r \in Requests |-> None]
    /\ read = [u \in Updates \cup FtpUpdates |-> None]
    /\ older = [u \in Updates |-> {}]
    /\ wrote = [u \in Updates \cup FtpUpdates |-> None]
    /\ overlap = FALSE /\ failed = FALSE
    /\ pc = [r \in Requests |-> "idle"]

-----------------------------------------------------------------------------
Goto(r, label) == pc' = [pc EXCEPT ![r] = label]
Answered(r)    == pc[r] \in {"idle", "ok", "err"}
Quiet          == \A r \in Requests : Answered(r)

\* The requests that use the account which r is about to read, one of the two
\* to write it.
Rivals(r) == IF r \in Logins THEN Updates
             ELSE IF r \in Updates THEN Logins \cup Updates
             ELSE IF r \in FtpUpdates THEN FtpUpdates ELSE {}

Arrives(r) ==
    /\ pc[r] = "idle"
    /\ overlap' = (overlap \/ \E q \in Rivals(r) : ~Answered(q))

DbMayFail      == "db" \in Faults

\* UPDATE sessions SET revoked_at ... WHERE ... AND revoked_at IS NULL
Revoke(ls) == sessions' = [l \in Logins |->
                 IF l \in ls /\ sessions[l] # "none" THEN "revoked" ELSE sessions[l]]

\* A field of an update request, over the value that was read.
Over(field, current) == IF field = Keep THEN current ELSE field

(* Login.                                                                  *)

\* A wrong name, a wrong password or a failed query is an error.
VerifyPassword(l) ==
    /\ Arrives(l)
    /\ \E p \in Passwords :
         /\ typed' = [typed EXCEPT ![l] = p]
         /\ \/ account.password = p /\ Goto(l, "create")
            \/ Goto(l, "err")
    /\ UNCHANGED <<account, ftp, sessions, cookie, read, older, wrote, failed>>

CreateSession(l) ==
    /\ pc[l] = "create"
    /\ sessions' = [sessions EXCEPT ![l] = "live"]
    /\ Goto(l, "ok")
    /\ UNCHANGED <<account, ftp, typed, cookie, read, older, wrote, trouble>>

(* The middleware: the cookie's session is looked up; the handler runs     *)
(* after, whatever becomes of the session meanwhile.                       *)

FirstStep(r) == IF r \in Logouts THEN "forget"
                ELSE IF r \in Updates \cup FtpUpdates THEN "read" ELSE "enter"

Authenticate_ExpiryIgnored(r) ==
    /\ Arrives(r)
    /\ \/ \E l \in Logins :
            /\ pc[l] = "ok"
            /\ cookie' = [cookie EXCEPT ![r] = l]
            /\ Goto(r, IF sessions[l] # "revoked" THEN FirstStep(r) ELSE "err")
       \/ UNCHANGED cookie /\ Goto(r, "err")
    /\ UNCHANGED <<account, ftp, sessions, typed, read, older, wrote, failed>>

\* The cookie of an answered login, or none, or a lookup that fails.
Authenticate(r) ==
    /\ Arrives(r)
    /\ \/ \E l \in Logins :
            /\ pc[l] = "ok"
            /\ cookie' = [cookie EXCEPT ![r] = l]
            /\ Goto(r, IF sessions[l] = "live" THEN FirstStep(r) ELSE "err")
       \/ UNCHANGED cookie /\ Goto(r, "err")
    /\ UNCHANGED <<account, ftp, sessions, typed, read, older, wrote, failed>>

Serve(c) ==
    /\ pc[c] = "enter"
    /\ Goto(c, "ok")
    /\ UNCHANGED <<account, ftp, sessions, typed, cookie, read, older, wrote, trouble>>

RevokeCookie_Unsaved(r) ==
    /\ pc[r] = "forget"
    /\ Goto(r, "ok")
    /\ UNCHANGED <<account, ftp, sessions, typed, cookie, read, older, wrote, trouble>>

\* Logout, and the end of UpdateSystemAccount: the error is dropped, the
\* cookie cleared and the request answered as done.
RevokeCookie(r) ==
    /\ pc[r] = "forget"
    /\ \/ Revoke({cookie[r]}) /\ UNCHANGED failed
       \/ DbMayFail /\ failed' = TRUE /\ UNCHANGED sessions
    /\ Goto(r, "ok")
    /\ UNCHANGED <<account, ftp, typed, cookie, read, older, wrote, overlap>>

(* UpdateSystemAccount: read and verify, write, revoke.                    *)

ReadAccount(u) ==
    /\ pc[u] = "read"
    /\ \/ read' = [read EXCEPT ![u] = account] /\ Goto(u, "write")
       \/ UNCHANGED read /\ Goto(u, "err")   \* a wrong current password
    /\ UNCHANGED <<account, ftp, sessions, typed, cookie, older, wrote, trouble>>

WriteAccount_Literal(u) ==
    /\ pc[u] = "write"
    /\ \E n \in Names \cup {Keep}, p \in (Passwords \ {SeedPassword}) \cup {Keep} :
         /\ account' = [name |-> n, password |-> p]
         /\ wrote' = [wrote EXCEPT ![u] = Over(p, None)]
    /\ older' = [older EXCEPT ![u] = {l \in Logins : sessions[l] # "none"}]
    /\ Goto(u, "revoke")
    /\ UNCHANGED <<ftp, sessions, typed, cookie, read, trouble>>

WriteAccount_PasswordLost(u) ==
    /\ pc[u] = "write"
    /\ \E n \in Names \cup {Keep}, p \in (Passwords \ {SeedPassword}) \cup {Keep} :
         /\ account' = [name |-> Over(n, read[u].name), password |-> read[u].password]
         /\ wrote' = [wrote EXCEPT ![u] = Over(p, None)]
    /\ older' = [older EXCEPT ![u] = {l \in Logins : sessions[l] # "none"}]
    /\ Goto(u, "revoke")
    /\ UNCHANGED <<ftp, sessions, typed, cookie, read, trouble>>

\* The columns that the request leaves out are written back as they were read.
WriteAccount(u) ==
    /\ pc[u] = "write"
    /\ \E n \in Names \cup {Keep}, p \in (Passwords \ {SeedPassword}) \cup {Keep} :
         /\ account' = [name     |-> Over(n, read[u].name),
                        password |-> Over(p, read[u].password)]
         /\ wrote' = [wrote EXCEPT ![u] = Over(p, None)]
    /\ older' = [older EXCEPT ![u] = {l \in Logins : sessions[l] # "none"}]
    /\ Goto(u, "revoke")
    /\ UNCHANGED <<ftp, sessions, typed, cookie, read, trouble>>

RevokeAll_CookieOnly(u) ==
    /\ pc[u] = "revoke"
    /\ Revoke({cookie[u]})
    /\ Goto(u, "forget")
    /\ UNCHANGED <<account, ftp, typed, cookie, read, older, wrote, trouble>>

RevokeAll(u) ==
    /\ pc[u] = "revoke"
    /\ Revoke(Logins)
    /\ Goto(u, "forget")
    /\ UNCHANGED <<account, ftp, typed, cookie, read, older, wrote, trouble>>

(* UpdateFtpAccount: read, write.                                          *)

ReadFtpAccount(u) ==
    /\ pc[u] = "read"
    /\ read' = [read EXCEPT ![u] = ftp]
    /\ Goto(u, "write")
    /\ UNCHANGED <<account, ftp, sessions, typed, cookie, older, wrote, trouble>>

WriteFtpAccount_Erasing(u) ==
    /\ pc[u] = "write"
    /\ \E n \in Names \cup {Keep}, p \in Passwords \cup {Keep}, a \in BOOLEAN :
         /\ ftp' = [name      |-> Over(n, read[u].name),
                    password  |-> Over(p, Blank),
                    anonymous |-> a]
         /\ wrote' = [wrote EXCEPT ![u] = Over(p, None)]
    /\ Goto(u, "ok")
    /\ UNCHANGED <<account, sessions, typed, cookie, read, older, trouble>>

\* Its check that closing anonymous access leaves a name and a password looks
\* at the hash, which is never empty: it refuses nothing.
WriteFtpAccount(u) ==
    /\ pc[u] = "write"
    /\ \E n \in Names \cup {Keep}, p \in Passwords \cup {Keep}, a \in BOOLEAN :
         /\ ftp' = [name      |-> Over(n, read[u].name),
                    password  |-> Over(p, read[u].password),
                    anonymous |-> a]
         /\ wrote' = [wrote EXCEPT ![u] = Over(p, None)]
    /\ Goto(u, "ok")
    /\ UNCHANGED <<account, sessions, typed, cookie, read, older, trouble>>

\* A statement fails and the handler answers with an error.
StatementFails(r) ==
    /\ DbMayFail
    /\ pc[r] \in {"create", "read", "write", "revoke"}
    /\ failed' = (failed \/ pc[r] = "revoke")
    /\ Goto(r, "err")
    /\ UNCHANGED <<account, ftp, sessions, typed, cookie, read, older, wrote, overlap>>

Expire(l) ==
    /\ sessions[l] = "live"
    /\ sessions' = [sessions EXCEPT ![l] = "expired"]
    /\ UNCHANGED <<account, ftp, typed, cookie, read, older, wrote, trouble, pc>>

\* Every request of the instance is answered.
Finished ==
    /\ \A r \in Requests : pc[r] \in {"ok", "err"}
    /\ UNCHANGED vars

Next ==
    \/ \E l \in Logins : VerifyPassword(l) \/ CreateSession(l) \/ Expire(l)
    \/ \E r \in Requests \ Logins : Authenticate(r)
    \/ \E c \in Calls : Serve(c)
    \/ \E u \in Updates : ReadAccount(u) \/ WriteAccount(u) \/ RevokeAll(u)
    \/ \E u \in FtpUpdates : ReadFtpAccount(u) \/ WriteFtpAccount(u)
    \/ \E r \in Logouts \cup Updates : RevokeCookie(r)
    \/ \E r \in Requests : StatementFails(r)
    \/ Finished

Spec == Init /\ [][Next]_vars

-----------------------------------------------------------------------------
(* Properties                                                              *)

\* When an account update is answered as done, every session that existed at
\* the moment of its UPDATE is dead, whoever logs in, out or updates meanwhile.
UpdateRevokes ==
    \A u \in Updates : pc[u] = "ok" =>
        \A l \in older[u] : sessions[l] = "revoked"

\* When a logout is answered, its session opens no protected request any more,
\* unless a revocation failed.
LogoutIsFinal ==
    ~failed => \A o \in Logouts : pc[o] = "ok" => sessions[cookie[o]] # "live"

\* When nothing is in flight, every live session was opened with the password
\* the account has now.
NoSessionFromOldPassword ==
    Quiet => \A l \in Logins : sessions[l] = "live" => typed[l] = account.password

\* So it is if no account update overlapped a login or another one and no
\* revocation failed.
SessionsFollowPassword == ~overlap /\ ~failed => NoSessionFromOldPassword

\* When nothing is in flight, no account update has overlapped a login or
\* another one and a password change was answered as done, the seeded password
\* (which no update sets again) is no longer accepted.
OldPasswordDead ==
    /\ Quiet /\ ~overlap
    /\ \E u \in Updates : pc[u] = "ok" /\ wrote[u] # None
    => account.password # SeedPassword

\* When nothing is in flight and no two FTP updates have overlapped, the FTP
\* password is the one that exactly one of them carried, or the seeded one if
\* none did.
FtpPasswordKept ==
    Quiet /\ ~overlap =>
        /\ (\A u \in FtpUpdates : wrote[u] = None) => ftp.password = SeedFtpPassword
        /\ \A u \in FtpUpdates :
              wrote[u] # None /\ (\A v \in FtpUpdates \ {u} : wrote[v] = None)
              => ftp.password = wrote[u]

\* Anonymous access is closed only when there is a password to log in with:
\* CheckPasswd refuses the empty one. Not so where an account without a password
\* was seeded: see the README.
FtpNeverLocked == ~ftp.anonymous => ftp.password # Blank
=============================================================================
