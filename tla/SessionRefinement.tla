------------------------- MODULE SessionRefinement -------------------------
(***************************************************************************)
(* How AuthSessions implements SessionRegistry: an account update takes    *)
(* effect where it revokes the sessions, one statement after it wrote the  *)
(* account. Until then its old password counts.                            *)
(***************************************************************************)
EXTENDS AuthSessions

Revoking == {u \in Updates : pc[u] = "revoke"}

Accepted == IF Revoking = {} THEN account.password
            ELSE read[CHOOSE u \in Revoking : TRUE].password

Live == {l \in Logins : sessions[l] = "live"}

PhaseOf(r) ==
    CASE pc[r] \in {"idle", "ok", "err"}        -> pc[r]
      [] pc[r] = "create"                       -> "asked"
      [] pc[r] = "forget" /\ r \in Updates      -> "done"
      [] OTHER                                  -> "in"

Phase == [r \in Requests |-> PhaseOf(r)]

Registry == INSTANCE SessionRegistry WITH
    Others <- FtpUpdates \cup Calls, password <- Accepted, live <- Live, phase <- Phase

-----------------------------------------------------------------------------
(* Properties                                                              *)

\* With no transaction around the statements of a request and nothing between
\* the session check and the handler, sessions and password move as those of
\* SessionRegistry do, whatever overlaps: until an account update overlaps a
\* login or another update, or a revocation fails.
RegistryKept ==
    /\ Registry!Init
    /\ [][~overlap' /\ ~failed' => [Registry!Next]_Registry!vars]_vars
=============================================================================
