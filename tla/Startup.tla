------------------------------ MODULE Startup ------------------------------
(***************************************************************************)
(* How the program comes up and goes down:                                 *)
(*   cmd/api/main.go     main                                              *)
(*   config/config.go    Load, Validate, ParsePassivePorts                 *)
(*   db/migrate.go       Migrate                                           *)
(*   db/seed.go          SeedDefaults                                      *)
(*                                                                         *)
(* A process is one container of the application, with the environment it  *)
(* was created with, over all its restarts. Several share the database.    *)
(* The migration and the two accounts are alike: each is looked for, then  *)
(* created if it was not found, in two steps with no transaction around.   *)
(* As in MediaPipeline, Action_Fault is a faulty form of Action, which     *)
(* Spec does not use.                                                      *)
(***************************************************************************)
EXTENDS Integers, Sequences

CONSTANTS
    Processes,
    Environments,    \* the environments a container may be created with
    Required,        \* variables that must not be blank
    Blank, Unset, Garbage,  \* values of a variable: blank, absent, unreadable
    User, None,
    LastSetting,     \* SeedDefaults writes the settings 1 .. LastSetting, five of them
    MaxFailures      \* bound: crashes and failed calls, all processes together

(* Of an environment the model keeps the variables that Validate looks at: *)
(* which of the required ones are missing, and                             *)
(* DEFAULT_FTP_ANONYMOUS_ENABLED, DEFAULT_FTP_PASSWORD, FTP_PORT,          *)
(* FTP_PASSIVE_PORTS as a pair, SESSION_TTL.                               *)
Environment ==
    [missing : SUBSET Required, anonymous : BOOLEAN \cup {Unset, Garbage},
     ftpPassword : {Blank, "given"}, port : Int \cup {Unset, Garbage},
     passive : (Int \X Int) \cup {Unset, Garbage}, ttl : Int \cup {Unset, Garbage}]

\* What SeedDefaults looks for and creates, in this order.
Seeds    == <<"schema", "system", "ftp">>

ASSUME EnvironmentsAssumption == Environments \subseteq Environment
ASSUME NullAssumption ==
    /\ None \notin Processes /\ User \notin Processes /\ None # User
    /\ LastSetting \in Nat \ {0} /\ MaxFailures \in Nat

VARIABLES
    env,       \* per process, its environment
    pc,        \* per process, where its main is
    next,      \* per process, the seed or setting it is at
    present,   \* per seed, who wrote it last: a process, the user, or nobody
    ftpAccount,  \* the password and the anonymous flag in the row of ftp_account
    setting,   \* per row of app_settings, the process that wrote it last
    failures,  \* how many there were
    alone      \* history: per process, no other one ran while it started

vars == <<env, pc, next, present, ftpAccount, setting, failures, alone>>

\* Of the row, what a client can log in with. Its hash is written as the password.
FtpAccount == [password : {Blank, "given"}, anonymous : BOOLEAN]

Labels == {"off", "load", "ping", "find", "add", "put", "storage",
           "serving", "closing", "stopped", "dead"}

TypeOK ==
    /\ env \in [Processes -> Environments]
    /\ pc \in [Processes -> Labels]
    /\ next \in [Processes -> 1 .. 3 \cup 1 .. LastSetting]
    /\ present \in [{"schema", "system", "ftp"} -> Processes \cup {User, None}]
    /\ ftpAccount \in FtpAccount \cup {None}
    /\ setting \in [1 .. LastSetting -> Processes \cup {None}]
    /\ failures \in 0 .. MaxFailures
    /\ alone \in [Processes -> BOOLEAN]

Init ==
    /\ env \in [Processes -> Environments]
    /\ pc = [p \in Processes |-> "off"]
    /\ next = [p \in Processes |-> 1]
    /\ present = [s \in {"schema", "system", "ftp"} |-> None]
    /\ ftpAccount = None
    /\ setting = [k \in 1 .. LastSetting |-> None]
    /\ failures = 0
    /\ alone = [p \in Processes |-> FALSE]

-----------------------------------------------------------------------------
(* Configuration.                                                          *)

\* get: an absent variable takes the default.
Given(value, default)  == IF value = Unset THEN default ELSE value
\* getInt, getBool, getDuration: so does one that cannot be read.
Parsed(value, default) == IF value \in {Unset, Garbage} THEN default ELSE value

Load(e) ==
    [missing |-> e.missing, ftpPassword |-> e.ftpPassword,
     anonymous |-> Parsed(e.anonymous, TRUE),
     port |-> Parsed(e.port, 2121),
     passive |-> Given(e.passive, <<30000, 30009>>),
     ttl |-> Parsed(e.ttl, 24)]

IsPort(n) == n \in 1 .. 65535

ParsePassivePorts(range) ==
    /\ range # Garbage
    /\ IsPort(range[1]) /\ IsPort(range[2]) /\ range[1] <= range[2]

Validate(c) ==
    /\ c.missing = {}
    /\ c.anonymous \/ c.ftpPassword # Blank
    /\ IsPort(c.port)
    /\ ParsePassivePorts(c.passive)
    /\ c.ttl > 0

Config(p)  == Load(env[p])
Startable(p) == Validate(Config(p))

SeededFtpAccount_Closed(p) ==
    [password |-> Config(p).ftpPassword, anonymous |-> FALSE]

\* The columns of the row that SeedDefaults inserts.
SeededFtpAccount(p) ==
    [password |-> Config(p).ftpPassword, anonymous |-> Config(p).anonymous]

-----------------------------------------------------------------------------
Goto(p, label) == pc' = [pc EXCEPT ![p] = label]
Down(p)        == pc[p] \in {"off", "stopped", "dead"}
Starting(p)    == pc[p] \in {"load", "ping", "find", "add", "put", "storage"}
Up(p)          == pc[p] \in {"serving", "closing"}

\* The next seed, or the first setting.
Proceed(p) ==
    IF next[p] < Len(Seeds)
    THEN next' = [next EXCEPT ![p] = @ + 1] /\ Goto(p, "find")
    ELSE next' = [next EXCEPT ![p] = 1] /\ Goto(p, "put")

\* The container is created, or restarted after the process died.
Launch(p) ==
    /\ pc[p] \in {"off", "dead"}
    /\ Goto(p, "load")
    /\ next' = [next EXCEPT ![p] = 1]
    /\ alone' = [q \in Processes |->
                    IF q = p THEN \A r \in Processes \ {p} : Down(r)
                             ELSE Down(q) /\ alone[q]]
    /\ UNCHANGED <<env, present, ftpAccount, setting, failures>>

LoadConfig(p) ==
    /\ pc[p] = "load"
    /\ Goto(p, IF Startable(p) THEN "ping" ELSE "dead")
    /\ UNCHANGED <<env, next, present, ftpAccount, setting, failures, alone>>

PingDatabase(p) ==
    /\ pc[p] = "ping"
    /\ Goto(p, "find")
    /\ UNCHANGED <<env, next, present, ftpAccount, setting, failures, alone>>

\* A database that has the first seeds is taken for complete.
Find_FirstOnly(p) ==
    /\ pc[p] = "find"
    /\ IF present[Seeds[next[p]]] = None
       THEN Goto(p, "add") /\ UNCHANGED next
       ELSE IF next[p] = 1 THEN Proceed(p)
       ELSE next' = [next EXCEPT ![p] = 1] /\ Goto(p, "put")
    /\ UNCHANGED <<env, present, ftpAccount, setting, failures, alone>>

\* Every start seeds anew.
Find_Always(p) ==
    /\ pc[p] = "find"
    /\ present' = [present EXCEPT ![Seeds[next[p]]] = p]
    /\ Proceed(p)
    /\ UNCHANGED <<env, ftpAccount, setting, failures, alone>>

\* Migrations without a version table: every start makes the tables again.
Find_NotVersioned(p) ==
    /\ pc[p] = "find"
    /\ IF next[p] = 1 \/ present[Seeds[next[p]]] = None
       THEN Goto(p, "add") /\ UNCHANGED next
       ELSE Proceed(p)
    /\ UNCHANGED <<env, present, ftpAccount, setting, failures, alone>>

\* The version table of the migrations, GetSystemAccount, GetFtpAccount.
Find(p) ==
    /\ pc[p] = "find"
    /\ IF present[Seeds[next[p]]] = None
       THEN Goto(p, "add") /\ UNCHANGED next
       ELSE Proceed(p)
    /\ UNCHANGED <<env, present, ftpAccount, setting, failures, alone>>

\* A unique index refuses the second row; of a migration that another process
\* made meanwhile some statements may be refused.
Add(p) ==
    /\ pc[p] = "add"
    /\ \/ /\ present[Seeds[next[p]]] = None
          /\ present' = [present EXCEPT ![Seeds[next[p]]] = p]
          /\ ftpAccount' = IF Seeds[next[p]] = "ftp" THEN SeededFtpAccount(p) ELSE ftpAccount
          /\ Proceed(p)
       \/ /\ present[Seeds[next[p]]] # None
          /\ Goto(p, "dead")
          /\ UNCHANGED <<present, ftpAccount, next>>
       \/ /\ present[Seeds[next[p]]] # None /\ next[p] = 1
          /\ Proceed(p)
          /\ UNCHANGED <<present, ftpAccount>>
    /\ UNCHANGED <<env, setting, failures, alone>>

NextSetting(p) ==
    IF next[p] < LastSetting
    THEN next' = [next EXCEPT ![p] = @ + 1] /\ UNCHANGED pc
    ELSE Goto(p, "storage") /\ UNCHANGED next

PutSetting_IfAbsent(p) ==
    /\ pc[p] = "put"
    /\ setting' = [setting EXCEPT ![next[p]] = IF @ = None THEN p ELSE @]
    /\ NextSetting(p)
    /\ UNCHANGED <<env, present, ftpAccount, failures, alone>>

\* UpsertAppSetting
PutSetting(p) ==
    /\ pc[p] = "put"
    /\ setting' = [setting EXCEPT ![next[p]] = p]
    /\ NextSetting(p)
    /\ UNCHANGED <<env, present, ftpAccount, failures, alone>>

EnsureWritable(p) ==
    /\ pc[p] = "storage"
    /\ Goto(p, "serving")
    /\ UNCHANGED <<env, next, present, ftpAccount, setting, failures, alone>>

\* A call fails and main exits, the listener fails, or the process is killed.
Die(p) ==
    /\ ~Down(p) /\ failures < MaxFailures
    /\ Goto(p, "dead")
    /\ failures' = failures + 1
    /\ UNCHANGED <<env, next, present, ftpAccount, setting, alone>>

\* PUT /api/system/account and PUT /api/ftp/account, which the shutdown waits
\* for. AuthSessions says what they leave in the row: here it may be anything.
SetAccount(p) ==
    /\ Up(p)
    /\ \/ present' = [present EXCEPT !["system"] = User] /\ UNCHANGED ftpAccount
       \/ /\ present' = [present EXCEPT !["ftp"] = User]
          /\ ftpAccount' \in FtpAccount
    /\ UNCHANGED <<env, pc, next, setting, failures, alone>>

\* The signal stops the FTP server, then HTTP; a stopped container stays down.
Terminate(p) ==
    /\ pc[p] = "serving"
    /\ Goto(p, "closing")
    /\ UNCHANGED <<env, next, present, ftpAccount, setting, failures, alone>>

Exit(p) ==
    /\ pc[p] = "closing"
    /\ Goto(p, "stopped")
    /\ UNCHANGED <<env, next, present, ftpAccount, setting, failures, alone>>

Boot(p) == \/ LoadConfig(p) \/ PingDatabase(p) \/ Find(p) \/ Add(p)
           \/ PutSetting(p) \/ EnsureWritable(p)

\* Every container was stopped.
Finished ==
    /\ \A p \in Processes : pc[p] = "stopped"
    /\ UNCHANGED vars

Next ==
    \/ \E p \in Processes : Launch(p) \/ Boot(p) \/ Die(p)
    \/ \E p \in Processes : SetAccount(p) \/ Terminate(p) \/ Exit(p)
    \/ Finished

Spec == Init /\ [][Next]_vars

\* Calls return, and a process that died is restarted ("unless-stopped").
Fairness == \A p \in Processes :
    WF_vars(Boot(p)) /\ WF_vars(pc[p] = "dead" /\ Launch(p))

FairSpec == Spec /\ Fairness

-----------------------------------------------------------------------------
(* Properties                                                              *)

\* A process serves only when the schema, both accounts and all settings are
\* there, whatever died half-way before and whoever else was starting.
ServesComplete ==
    \A p \in Processes : Up(p) =>
        /\ \A s \in {"schema", "system", "ftp"} : present[s] # None
        /\ \A k \in 1 .. LastSetting : setting[k] # None

\* What the user has set is never overwritten by a start, nor is an account
\* seeded twice.
SeedsOnce ==
    [][\A s \in {"schema", "system", "ftp"} :
          present[s] # None => present'[s] \in {present[s], User}]_vars

\* As long as the user has not changed it, the FTP account in the database can
\* be logged in to, anonymously or with a password: whichever container seeded
\* it, with whatever values, readable or not, in its environment.
SeededFtpUsable ==
    present["ftp"] \in Processes => ftpAccount.anonymous \/ ftpAccount.password # Blank

\* The settings a serving process finds are its own, if no other process ran
\* since it was launched.
SettingsAreMine ==
    \A p \in Processes : pc[p] = "serving" /\ alone[p] =>
        \A k \in 1 .. LastSetting : setting[k] = p

\* A process with a valid configuration serves in the end, also when it lost
\* a race for a seed or died on the way.
ServesInTheEnd == \A p \in Processes :
    (Startable(p) /\ pc[p] = "load") ~> pc[p] = "serving"
=============================================================================
