---------------------------- MODULE MCFtpManager ----------------------------
(* Instances of FtpManager for TLC.                                        *)
EXTENDS FtpManager, TLC

CONSTANTS s1, s2, s3, s4, t1, t2, t3   \* start and stop requests

RequestSymmetry == Permutations(Starts) \cup Permutations(Stops)
=============================================================================
