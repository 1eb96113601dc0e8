--------------------------- MODULE StartupProofs ---------------------------
(***************************************************************************)
(* What holds of Startup for any number of processes, of settings and of   *)
(* failures.                                                               *)
(***************************************************************************)
EXTENDS Startup, TLAPS

USE DEF Goto, Down, Up

SeedNames == {"schema", "system", "ftp"}

LEMMA SeedsInOrder ==
    /\ Len(Seeds) = 3
    /\ Seeds[1] = "schema" /\ Seeds[2] = "system" /\ Seeds[3] = "ftp"
  BY DEF Seeds

LEMMA SeededType == ASSUME env \in [Processes -> Environments], NEW p \in Processes
                     PROVE  SeededFtpAccount(p) \in FtpAccount
  <1>1. env[p] \in Environment
    BY EnvironmentsAssumption
  <1>2. Config(p).ftpPassword \in {Blank, "given"}
    BY <1>1 DEF Environment, Config, Load
  <1>3. Config(p).anonymous \in BOOLEAN
    <2>1. env[p].anonymous \in BOOLEAN \cup {Unset, Garbage}
      BY <1>1 DEF Environment
    <2>2. Parsed(env[p].anonymous, TRUE) \in BOOLEAN
      BY <2>1, Zenon DEF Parsed
    <2>3. Config(p).anonymous = Parsed(env[p].anonymous, TRUE)
      BY DEF Config, Load
    <2> QED BY <2>2, <2>3, Zenon
  <1> QED BY <1>2, <1>3 DEF SeededFtpAccount, FtpAccount

\* A process that looks for a seed is at one of the three.
TypeInv ==
    /\ TypeOK
    /\ \A p \in Processes : pc[p] \in {"find", "add"} => next[p] \in 1 .. 3
    /\ \A p \in Processes : pc[p] \in {"load", "ping"} => next[p] = 1
    /\ \A p \in Processes : pc[p] = "put" => next[p] \in 1 .. LastSetting

LEMMA TypeInit == Init => TypeInv
  BY NullAssumption DEF Init, TypeInv, TypeOK, Labels

LEMMA TypeNext ==
    ASSUME TypeInv, [Next]_vars  PROVE TypeInv'
  <1> USE NullAssumption, SeedsInOrder DEF TypeInv, TypeOK, Labels
  <1>1. ASSUME NEW p \in Processes, Launch(p)  PROVE TypeInv'
    <2>1. alone' \in [Processes -> BOOLEAN]
      <3>1. ASSUME NEW q \in Processes
            PROVE  (IF q = p THEN \A r \in Processes \ {p} : Down(r)
                             ELSE Down(q) /\ alone[q]) \in BOOLEAN
        OBVIOUS
      <3> HIDE DEF Down
      <3> QED BY <1>1, <3>1, Zenon DEF Launch
    <2>2. pc' \in [Processes -> Labels] /\ next' \in [Processes -> 1 .. 3 \cup 1 .. LastSetting]
      BY <1>1 DEF Launch
    <2> QED BY <1>1, <2>1, <2>2 DEF Launch
  <1>2. ASSUME NEW p \in Processes, LoadConfig(p)  PROVE TypeInv'
    BY <1>2 DEF LoadConfig
  <1>3. ASSUME NEW p \in Processes, PingDatabase(p)  PROVE TypeInv'
    BY <1>3 DEF PingDatabase
  <1>4. ASSUME NEW p \in Processes, Find(p)  PROVE TypeInv'
    BY <1>4 DEF Find, Proceed
  <1>5. ASSUME NEW p \in Processes, Add(p)  PROVE TypeInv'
    <2>1. SeededFtpAccount(p) \in FtpAccount
      BY SeededType
    <2> QED BY <1>5, <2>1 DEF Add, Proceed
  <1>6. ASSUME NEW p \in Processes, PutSetting(p)  PROVE TypeInv'
    <2>1. CASE next[p] < LastSetting
      <3>1. next[p] + 1 \in 1 .. LastSetting
        BY <2>1, <1>6
      <3> QED BY <1>6, <2>1, <3>1 DEF PutSetting, NextSetting
    <2>2. CASE ~(next[p] < LastSetting)
      <3>1. next[p] = LastSetting
        BY <2>2, <1>6 DEF PutSetting
      <3> QED BY <1>6, <2>2, <3>1 DEF PutSetting, NextSetting
    <2> QED BY <2>1, <2>2
  <1>7. ASSUME NEW p \in Processes, EnsureWritable(p)  PROVE TypeInv'
    BY <1>7 DEF EnsureWritable
  <1>8. ASSUME NEW p \in Processes, Die(p)  PROVE TypeInv'
    BY <1>8 DEF Die
  <1>9. ASSUME NEW p \in Processes, SetAccount(p)  PROVE TypeInv'
    BY <1>9 DEF SetAccount
  <1>10. ASSUME NEW p \in Processes, Terminate(p)  PROVE TypeInv'
    BY <1>10 DEF Terminate
  <1>11. ASSUME NEW p \in Processes, Exit(p)  PROVE TypeInv'
    BY <1>11 DEF Exit
  <1>12. ASSUME UNCHANGED vars  PROVE TypeInv'
    BY <1>12 DEF vars
  <1>13. [Next]_vars
    OBVIOUS
  <1> HIDE DEF TypeInv, TypeOK, Labels
  <1> QED
    BY <1>1, <1>2, <1>3, <1>4, <1>5, <1>6, <1>7, <1>8,
       <1>9, <1>10, <1>11, <1>12, <1>13
       DEF Next, Boot, Finished

THEOREM TypeInvHolds == Spec => []TypeInv
  <1> QED BY TypeInit, TypeNext, PTL DEF Spec

\* Every variable keeps its type.
THEOREM TypeSafety == Spec => []TypeOK
  <1>1. TypeInv => TypeOK
    BY DEF TypeInv
  <1> QED BY <1>1, TypeInvHolds, PTL

-----------------------------------------------------------------------------
(* Nothing that was written disappears.                                    *)

Grows ==
    /\ \A s \in SeedNames : present[s] # None => present'[s] \in {present[s], User}
    /\ \A k \in 1 .. LastSetting : setting[k] # None => setting'[k] # None

LEMMA GrowsNext ==
    ASSUME TypeInv, [Next]_vars  PROVE Grows
  <1> USE NullAssumption, SeedsInOrder DEF TypeInv, TypeOK, Grows, SeedNames
  <1>1. ASSUME NEW p \in Processes, Launch(p)  PROVE Grows
    BY <1>1 DEF Launch
  <1>2. ASSUME NEW p \in Processes, LoadConfig(p)  PROVE Grows
    BY <1>2 DEF LoadConfig
  <1>3. ASSUME NEW p \in Processes, PingDatabase(p)  PROVE Grows
    BY <1>3 DEF PingDatabase
  <1>4. ASSUME NEW p \in Processes, Find(p)  PROVE Grows
    BY <1>4 DEF Find, Proceed
  <1>5. ASSUME NEW p \in Processes, Add(p)  PROVE Grows
    BY <1>5 DEF Add, Proceed
  <1>6. ASSUME NEW p \in Processes, PutSetting(p)  PROVE Grows
    BY <1>6 DEF PutSetting, NextSetting
  <1>7. ASSUME NEW p \in Processes, EnsureWritable(p)  PROVE Grows
    BY <1>7 DEF EnsureWritable
  <1>8. ASSUME NEW p \in Processes, Die(p)  PROVE Grows
    BY <1>8 DEF Die
  <1>9. ASSUME NEW p \in Processes, SetAccount(p)  PROVE Grows
    BY <1>9 DEF SetAccount
  <1>10. ASSUME NEW p \in Processes, Terminate(p)  PROVE Grows
    BY <1>10 DEF Terminate
  <1>11. ASSUME NEW p \in Processes, Exit(p)  PROVE Grows
    BY <1>11 DEF Exit
  <1>12. ASSUME UNCHANGED vars  PROVE Grows
    BY <1>12 DEF vars
  <1>13. [Next]_vars
    OBVIOUS
  <1> HIDE DEF TypeInv, TypeOK, Grows
  <1> QED
    BY <1>1, <1>2, <1>3, <1>4, <1>5, <1>6, <1>7, <1>8,
       <1>9, <1>10, <1>11, <1>12, <1>13
       DEF Next, Boot, Finished

\* A start never overwrites an account, neither a seeded one nor one that the
\* user has set, however many processes start at a time.
THEOREM SeedsOnceHolds == Spec => SeedsOnce
  <1>1. TypeInv /\ [Next]_vars =>
          [\A s \in SeedNames : present[s] # None => present'[s] \in {present[s], User}]_vars
    BY GrowsNext DEF Grows
  <1> QED BY <1>1, TypeInvHolds, PTL DEF Spec, SeedsOnce, SeedNames

-----------------------------------------------------------------------------
(* How far a process has come is what it can rely on.                      *)

Complete == \A s \in SeedNames : present[s] # None

ProgressInv ==
    /\ \A p \in Processes : pc[p] \in {"find", "add"} =>
          \A i \in 1 .. next[p] - 1 : present[Seeds[i]] # None
    /\ \A p \in Processes : pc[p] \in {"put", "storage", "serving", "closing"} => Complete
    /\ \A p \in Processes : pc[p] = "put" =>
          \A k \in 1 .. next[p] - 1 : setting[k] # None
    /\ \A p \in Processes : pc[p] \in {"storage", "serving", "closing"} =>
          \A k \in 1 .. LastSetting : setting[k] # None

LEMMA ProgressNext ==
    ASSUME TypeInv, ProgressInv, [Next]_vars  PROVE ProgressInv'
  <1> USE GrowsNext DEF Grows
  <1> USE NullAssumption, SeedsInOrder DEF TypeInv, TypeOK, ProgressInv, Complete, SeedNames
  <1>1. ASSUME NEW p \in Processes, Launch(p)  PROVE ProgressInv'
    BY <1>1 DEF Launch
  <1>2. ASSUME NEW p \in Processes, LoadConfig(p)  PROVE ProgressInv'
    BY <1>2 DEF LoadConfig
  <1>3. ASSUME NEW p \in Processes, PingDatabase(p)  PROVE ProgressInv'
    BY <1>3 DEF PingDatabase
  <1>4. ASSUME NEW p \in Processes, Find(p)  PROVE ProgressInv'
    BY <1>4 DEF Find, Proceed
  <1>5. ASSUME NEW p \in Processes, Add(p)  PROVE ProgressInv'
    <2>1. setting' = setting /\ pc[p] = "add"
      BY <1>5 DEF Add
    <2>2. next[p] \in 1 .. 3 /\ (pc'[p] = "dead" \/ present'[Seeds[next[p]]] # None)
      BY <1>5 DEF Add, Proceed
    <2>3. \A q \in Processes \ {p} : pc'[q] = pc[q] /\ next'[q] = next[q]
      BY <1>5 DEF Add, Proceed
    <2>4. \/ pc'[p] = "dead"
          \/ pc'[p] = "find" /\ next'[p] = next[p] + 1
          \/ pc'[p] = "put" /\ next'[p] = 1 /\ next[p] = 3
      BY <1>5 DEF Add, Proceed
    <2>5. \A s \in SeedNames : present[s] # None => present'[s] # None
      BY DEF SeedNames
    <2>6. \A q \in Processes : pc'[q] \in {"find", "add"} =>
             \A i \in 1 .. next'[q] - 1 : present'[Seeds[i]] # None
      BY <2>1, <2>2, <2>3, <2>4, <2>5
    <2>7. pc'[p] = "put" => Complete'
      BY <2>1, <2>2, <2>4, <2>5
    <2>8. \A q \in Processes : pc'[q] \in {"put", "storage", "serving", "closing"} => Complete'
      BY <2>3, <2>4, <2>5, <2>7
    <2> QED BY <2>1, <2>3, <2>4, <2>6, <2>8
  <1>6. ASSUME NEW p \in Processes, PutSetting(p)  PROVE ProgressInv'
    <2>1. \A k \in 1 .. next[p] : setting'[k] # None
      BY <1>6 DEF PutSetting
    <2>2. CASE next[p] < LastSetting
      <3>1. next' = [next EXCEPT ![p] = @ + 1] /\ pc' = pc /\ present' = present
        BY <1>6, <2>2 DEF PutSetting, NextSetting
      <3>2. \A k \in 1 .. next'[p] - 1 : setting'[k] # None
        BY <2>1, <3>1
      <3>3. \A k \in 1 .. LastSetting : setting[k] # None => setting'[k] # None
        BY <1>6
      <3>4. pc[p] = "put"
        BY <1>6 DEF PutSetting
      <3> QED BY <3>1, <3>2, <3>3, <3>4
    <2>3. CASE ~(next[p] < LastSetting)
      <3>1. next[p] = LastSetting
        BY <2>3, <1>6 DEF PutSetting
      <3>2. \A k \in 1 .. LastSetting : setting'[k] # None
        BY <2>1, <3>1
      <3>3. next' = next /\ present' = present /\ pc' = [pc EXCEPT ![p] = "storage"]
        BY <1>6, <2>3 DEF PutSetting, NextSetting
      <3> QED BY <3>2, <3>3, <1>6 DEF PutSetting
    <2> QED BY <2>2, <2>3
  <1>7. ASSUME NEW p \in Processes, EnsureWritable(p)  PROVE ProgressInv'
    BY <1>7 DEF EnsureWritable
  <1>8. ASSUME NEW p \in Processes, Die(p)  PROVE ProgressInv'
    BY <1>8 DEF Die
  <1>9. ASSUME NEW p \in Processes, SetAccount(p)  PROVE ProgressInv'
    BY <1>9 DEF SetAccount
  <1>10. ASSUME NEW p \in Processes, Terminate(p)  PROVE ProgressInv'
    BY <1>10 DEF Terminate
  <1>11. ASSUME NEW p \in Processes, Exit(p)  PROVE ProgressInv'
    BY <1>11 DEF Exit
  <1>12. ASSUME UNCHANGED vars  PROVE ProgressInv'
    BY <1>12 DEF vars
  <1>13. [Next]_vars
    OBVIOUS
  <1> HIDE DEF TypeInv, TypeOK, ProgressInv
  <1> QED
    BY <1>1, <1>2, <1>3, <1>4, <1>5, <1>6, <1>7, <1>8,
       <1>9, <1>10, <1>11, <1>12, <1>13
       DEF Next, Boot, Finished

\* Whoever serves, serves with a complete database.
THEOREM ServesCompleteHolds == Spec => []ServesComplete
  <1>1. Init => ProgressInv
    BY DEF Init, ProgressInv
  <1>2. ProgressInv => ServesComplete
    BY DEF ProgressInv, ServesComplete, Complete, SeedNames
  <1> QED BY <1>1, <1>2, ProgressNext, TypeInvHolds, PTL DEF Spec

-----------------------------------------------------------------------------
(* Only a process whose configuration was accepted ever writes a seed, and *)
(* such a configuration makes an account that can be used.                 *)

ValidatedInv ==
    /\ \A p \in Processes : ~Down(p) /\ pc[p] # "load" => Startable(p)
    /\ SeededFtpUsable

LEMMA ValidatedNext ==
    ASSUME TypeInv, ValidatedInv, [Next]_vars  PROVE ValidatedInv'
  <1> USE NullAssumption, SeedsInOrder DEF TypeInv, TypeOK, ValidatedInv, SeededFtpUsable, Startable, Config
  <1>1. ASSUME NEW p \in Processes, Launch(p)  PROVE ValidatedInv'
    BY <1>1 DEF Launch
  <1>2. ASSUME NEW p \in Processes, LoadConfig(p)  PROVE ValidatedInv'
    BY <1>2 DEF LoadConfig
  <1>3. ASSUME NEW p \in Processes, PingDatabase(p)  PROVE ValidatedInv'
    BY <1>3 DEF PingDatabase
  <1>4. ASSUME NEW p \in Processes, Find(p)  PROVE ValidatedInv'
    BY <1>4 DEF Find, Proceed
  <1>5. ASSUME NEW p \in Processes, Add(p)  PROVE ValidatedInv'
    <2>1. Startable(p)
      BY <1>5 DEF Add
    <2>2. SeededFtpAccount(p).anonymous \/ SeededFtpAccount(p).password # Blank
      <3>1. Config(p).anonymous \/ Config(p).ftpPassword # Blank
        BY <2>1, Zenon DEF Startable, Validate
      <3> QED BY <3>1, Zenon DEF SeededFtpAccount
    <2>3. SeededFtpUsable'
      <3>1. CASE present' = present /\ ftpAccount' = ftpAccount
        BY <3>1
      <3>2. CASE present' = [present EXCEPT ![Seeds[next[p]]] = p] /\ Seeds[next[p]] = "ftp"
                 /\ ftpAccount' = SeededFtpAccount(p)
        BY <2>2, <3>2, Zenon
      <3>3. CASE present' = [present EXCEPT ![Seeds[next[p]]] = p] /\ Seeds[next[p]] # "ftp"
                 /\ ftpAccount' = ftpAccount
        <4>1. present'["ftp"] = present["ftp"]
          BY <3>3
        <4> QED BY <3>3, <4>1
      <3> QED BY <1>5, <3>1, <3>2, <3>3 DEF Add
    <2>4. \A q \in Processes : ~Down(q)' /\ pc'[q] # "load" => Startable(q)'
      BY <1>5 DEF Add, Proceed
    <2> QED BY <2>3, <2>4
  <1>6. ASSUME NEW p \in Processes, PutSetting(p)  PROVE ValidatedInv'
    BY <1>6 DEF PutSetting, NextSetting
  <1>7. ASSUME NEW p \in Processes, EnsureWritable(p)  PROVE ValidatedInv'
    BY <1>7 DEF EnsureWritable
  <1>8. ASSUME NEW p \in Processes, Die(p)  PROVE ValidatedInv'
    BY <1>8 DEF Die
  <1>9. ASSUME NEW p \in Processes, SetAccount(p)  PROVE ValidatedInv'
    BY <1>9 DEF SetAccount
  <1>10. ASSUME NEW p \in Processes, Terminate(p)  PROVE ValidatedInv'
    BY <1>10 DEF Terminate
  <1>11. ASSUME NEW p \in Processes, Exit(p)  PROVE ValidatedInv'
    BY <1>11 DEF Exit
  <1>12. ASSUME UNCHANGED vars  PROVE ValidatedInv'
    BY <1>12 DEF vars
  <1>13. [Next]_vars
    OBVIOUS
  <1> HIDE DEF TypeInv, TypeOK, ValidatedInv
  <1> QED
    BY <1>1, <1>2, <1>3, <1>4, <1>5, <1>6, <1>7, <1>8,
       <1>9, <1>10, <1>11, <1>12, <1>13
       DEF Next, Boot, Finished

\* The FTP account that any of the environments seeded can be logged in to until
\* the user changes it.
THEOREM SeededFtpUsableHolds == Spec => []SeededFtpUsable
  <1>1. Init => ValidatedInv
    BY NullAssumption DEF Init, ValidatedInv, SeededFtpUsable
  <1>2. ValidatedInv => SeededFtpUsable
    BY DEF ValidatedInv
  <1> QED BY <1>1, <1>2, ValidatedNext, TypeInvHolds, PTL DEF Spec

-----------------------------------------------------------------------------
(* A process that started alone wrote every setting it finds.              *)

MineInv ==
    /\ \A p \in Processes : alone[p] /\ ~Down(p) => \A q \in Processes \ {p} : Down(q)
    /\ \A p \in Processes : alone[p] /\ pc[p] = "put" =>
          \A k \in 1 .. next[p] - 1 : setting[k] = p
    /\ \A p \in Processes : alone[p] /\ pc[p] \in {"storage", "serving", "closing"} =>
          \A k \in 1 .. LastSetting : setting[k] = p

LEMMA MineNext ==
    ASSUME TypeInv, MineInv, [Next]_vars  PROVE MineInv'
  <1> USE NullAssumption, SeedsInOrder DEF TypeInv, TypeOK, MineInv
  <1>1. ASSUME NEW p \in Processes, Launch(p)  PROVE MineInv'
    <2>1. /\ setting' = setting
          /\ pc' = [pc EXCEPT ![p] = "load"]
      BY <1>1 DEF Launch
    <2>2. alone'[p] => \A r \in Processes \ {p} : Down(r)
      BY <1>1, Zenon DEF Launch
    <2>3. \A q \in Processes \ {p} : alone'[q] => Down(q)
      BY <1>1, Zenon DEF Launch
    <2> QED BY <2>1, <2>2, <2>3
  <1>2. ASSUME NEW p \in Processes, LoadConfig(p)  PROVE MineInv'
    BY <1>2 DEF LoadConfig
  <1>3. ASSUME NEW p \in Processes, PingDatabase(p)  PROVE MineInv'
    BY <1>3 DEF PingDatabase
  <1>4. ASSUME NEW p \in Processes, Find(p)  PROVE MineInv'
    BY <1>4 DEF Find, Proceed
  <1>5. ASSUME NEW p \in Processes, Add(p)  PROVE MineInv'
    BY <1>5 DEF Add, Proceed
  <1>6. ASSUME NEW p \in Processes, PutSetting(p)  PROVE MineInv'
    <2>1. alone[p] => \A k \in 1 .. next[p] : setting'[k] = p
      BY <1>6 DEF PutSetting
    <2>2. alone' = alone /\ pc[p] = "put"
      BY <1>6 DEF PutSetting
    <2>3. \A q \in Processes \ {p} : alone[q] => Down(q)
      BY <2>2
    <2>4. \A q \in Processes \ {p} : pc'[q] = pc[q]
      BY <1>6 DEF PutSetting, NextSetting
    <2>5. CASE next[p] < LastSetting
      <3>1. next'[p] = next[p] + 1 /\ pc' = pc
        BY <1>6, <2>5 DEF PutSetting, NextSetting
      <3>2. \A q \in Processes \ {p} : alone'[q] => Down(q)'
        BY <2>2, <2>3, <3>1
      <3>3. alone'[p] => \A k \in 1 .. next'[p] - 1 : setting'[k] = p
        BY <2>1, <2>2, <3>1
      <3>4. alone'[p] => \A q \in Processes \ {p} : Down(q)'
        BY <2>2, <3>1
      <3>5. pc'[p] = "put"
        BY <2>2, <3>1
      <3> QED BY <3>2, <3>3, <3>4, <3>5
    <2>6. CASE ~(next[p] < LastSetting)
      <3>1. next[p] = LastSetting
        BY <2>6, <1>6 DEF PutSetting
      <3>2. alone[p] => \A k \in 1 .. LastSetting : setting'[k] = p
        BY <2>1, <3>1
      <3>3. pc'[p] = "storage"
        BY <1>6, <2>6 DEF PutSetting, NextSetting
      <3> QED BY <2>2, <2>3, <2>4, <3>2, <3>3
    <2> QED BY <2>5, <2>6
  <1>7. ASSUME NEW p \in Processes, EnsureWritable(p)  PROVE MineInv'
    BY <1>7 DEF EnsureWritable
  <1>8. ASSUME NEW p \in Processes, Die(p)  PROVE MineInv'
    BY <1>8 DEF Die
  <1>9. ASSUME NEW p \in Processes, SetAccount(p)  PROVE MineInv'
    BY <1>9 DEF SetAccount
  <1>10. ASSUME NEW p \in Processes, Terminate(p)  PROVE MineInv'
    BY <1>10 DEF Terminate
  <1>11. ASSUME NEW p \in Processes, Exit(p)  PROVE MineInv'
    BY <1>11 DEF Exit
  <1>12. ASSUME UNCHANGED vars  PROVE MineInv'
    BY <1>12 DEF vars
  <1>13. [Next]_vars
    OBVIOUS
  <1> HIDE DEF TypeInv, TypeOK, MineInv
  <1> QED
    BY <1>1, <1>2, <1>3, <1>4, <1>5, <1>6, <1>7, <1>8,
       <1>9, <1>10, <1>11, <1>12, <1>13
       DEF Next, Boot, Finished

\* A process that ran by itself since it was launched finds its own settings,
\* whatever was left by others or by a start that died half-way.
THEOREM SettingsAreMineHolds == Spec => []SettingsAreMine
  <1>1. Init => MineInv
    BY DEF Init, MineInv
  <1>2. MineInv => SettingsAreMine
    BY DEF MineInv, SettingsAreMine
  <1> QED BY <1>1, <1>2, MineNext, TypeInvHolds, PTL DEF Spec
=============================================================================
