----------------------------- MODULE MCStartup -----------------------------
(* Instances of Startup for TLC.                                           *)
EXTENDS Startup, TLC

CONSTANTS a, b, secret   \* two containers; a required variable

Plain == [missing |-> {}, anonymous |-> Unset, ftpPassword |-> "given",
          port |-> Unset, passive |-> Unset, ttl |-> Unset]

\* Environments that a run starts containers with.
Variants ==
    {Plain, [Plain EXCEPT !.missing = {secret}]}
    \cup {[Plain EXCEPT !.anonymous = v, !.ftpPassword = Blank] : v \in {FALSE, Garbage}}

\* What Validate makes of the boundary values of the numbers.
ASSUME NumbersAssumption ==
    /\ \A v \in {1, 65535, Garbage, Unset} : Validate(Load([Plain EXCEPT !.port = v]))
    /\ \A v \in {0, 65536} : ~Validate(Load([Plain EXCEPT !.port = v]))
    /\ \A v \in {<<1, 1>>, <<1, 65535>>, Unset} : Validate(Load([Plain EXCEPT !.passive = v]))
    /\ \A v \in {<<2, 1>>, <<0, 1>>, <<1, 65536>>, Garbage} :
          ~Validate(Load([Plain EXCEPT !.passive = v]))
    /\ \A v \in {1, Garbage, Unset} : Validate(Load([Plain EXCEPT !.ttl = v]))
    /\ \A v \in {-1, 0} : ~Validate(Load([Plain EXCEPT !.ttl = v]))
=============================================================================
