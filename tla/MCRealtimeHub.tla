---------------------------- MODULE MCRealtimeHub ----------------------------
(* Instances of RealtimeHub for TLC.                                       *)
EXTENDS RealtimeHub, TLC

CONSTANTS c1, c2, s1, s2   \* clients and senders
=============================================================================
