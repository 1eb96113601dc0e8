--------------------------- MODULE MCAuthSessions ---------------------------
(* Instances of AuthSessions for TLC.                                      *)
EXTENDS SessionRefinement, TLC

CONSTANTS l1, l2, l3, o1, o2, u1, u2, f1, f2, q1  \* requests
CONSTANTS admin, camera, p0, p1, p2

KindSymmetry ==
    Permutations(Logins) \cup Permutations(Updates) \cup Permutations(FtpUpdates)

\* Without what nothing reads any more: the password of a refused login, the
\* cookie of a request that was answered or has no use for it, what an update
\* has read once it is answered.
InUse ==
    <<account, ftp, sessions, older, wrote, trouble,
      [r \in Requests |-> IF r \in FtpUpdates \cup Calls /\ Answered(r) /\ pc[r] # "idle"
                          THEN "ok" ELSE pc[r]],
      [l \in Logins |-> IF pc[l] = "err" THEN None ELSE typed[l]],
      [r \in Logouts \cup Updates |->
          IF (r \in Logouts /\ pc[r] # "err") \/ pc[r] \in {"read", "write", "revoke", "forget"}
          THEN cookie[r] ELSE None],
      [u \in Updates \cup FtpUpdates |->
          IF pc[u] \in {"write", "revoke"} THEN read[u] ELSE None]>>
=============================================================================
