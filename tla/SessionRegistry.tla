-------------------------- MODULE SessionRegistry --------------------------
(***************************************************************************)
(* What logins, logouts, account updates and the session check promise: a  *)
(* password and the sessions opened with it. Each request takes effect in  *)
(* one step or not at all, between being asked and being answered; a new   *)
(* password ends every session in the step that sets it. AuthSessions      *)
(* implements it; see SessionRefinement.                                   *)
(***************************************************************************)
CONSTANTS
    Logins,     \* each names the session it may open
    Logouts, Updates,
    Others,     \* protected requests that neither open nor end a session
    Passwords, None

VARIABLES
    password,   \* what a login must give
    live,       \* the sessions that open protected requests
    phase,      \* where each request is
    typed,      \* per login, the password it gave
    cookie      \* per protected request, the session it came with

vars      == <<password, live, phase, typed, cookie>>
Protected == Logouts \cup Updates \cup Others

Init ==
    /\ password \in Passwords /\ live = {}
    /\ phase = [r \in Logins \cup Protected |-> "idle"]
    /\ typed = [l \in Logins |-> None]
    /\ cookie = [r \in Logins \cup Protected |-> None]

Step(r, from, to) == phase[r] = from /\ phase' = [phase EXCEPT ![r] = to]

Ask(l) ==
    /\ Step(l, "idle", "asked") \/ Step(l, "idle", "err")
    /\ \E p \in Passwords : typed' = [typed EXCEPT ![l] = p]
    /\ UNCHANGED <<password, live, cookie>>

\* A session is opened with the password of this very moment.
Open(l) ==
    /\ Step(l, "asked", "ok")
    /\ typed[l] = password
    /\ live' = live \cup {l}
    /\ UNCHANGED <<password, typed, cookie>>

\* A protected request is let in with a session that is live.
Enter(r) ==
    /\ Step(r, "idle", "in")
    /\ \E l \in live : cookie' = [cookie EXCEPT ![r] = l]
    /\ UNCHANGED <<password, live, typed>>

\* It is turned away with one that is not, or without one.
TurnAway(r) ==
    /\ Step(r, "idle", "err")
    /\ cookie' \in {cookie} \cup {[cookie EXCEPT ![r] = l] : l \in Logins \ live}
    /\ UNCHANGED <<password, live, typed>>

End(o) ==
    /\ Step(o, "in", "ok")
    /\ live' = live \ {cookie[o]}
    /\ UNCHANGED <<password, typed, cookie>>

\* The password, new or the same, and every session at once.
Change(u) ==
    /\ Step(u, "in", "done")
    /\ password' \in Passwords
    /\ live' = {}
    /\ UNCHANGED <<typed, cookie>>

\* A changed account is confirmed, any other protected request answered.
Answer(r) ==
    /\ Step(r, IF r \in Updates THEN "done" ELSE "in", "ok")
    /\ UNCHANGED <<password, live, typed, cookie>>

\* Whatever ends in an error has changed nothing.
Refuse(r) ==
    /\ Step(r, "asked", "err") \/ Step(r, "in", "err")
    /\ UNCHANGED <<password, live, typed, cookie>>

Expire(l) ==
    /\ live' = live \ {l}
    /\ UNCHANGED <<password, phase, typed, cookie>>

Next ==
    \/ \E l \in Logins : Ask(l) \/ Open(l) \/ Expire(l)
    \/ \E r \in Protected : Enter(r) \/ TurnAway(r)
    \/ \E o \in Logouts : End(o)
    \/ \E u \in Updates : Change(u)
    \/ \E r \in Updates \cup Others : Answer(r)
    \/ \E r \in Logins \cup Protected : Refuse(r)

Spec == Init /\ [][Next]_vars
=============================================================================
