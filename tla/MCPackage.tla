------------------------------- MODULE MCPackage -------------------------------
(* Three versions of a program: the first works, what the others do is chosen; two  *)
(* configurations, the second of which no program survives.                         *)
EXTENDS PackageInstall

MCFates == {f \in [1..3 -> {"works", "exits", "broken"}] : f[1] = "works" /\ f[3] = "works"}
MCStarts == {[live |-> 1, conf |-> 11], [live |-> None, conf |-> None]}
Few(few) == [what \in Bounded |-> IF what \in DOMAIN few THEN few[what] ELSE 0]
MCLimits == {
    Few([rollouts |-> 1, configs |-> 1, restarts |-> 1, outages |-> 2, exits |-> 1]),
    Few([rollouts |-> 2, outages |-> 1, failures |-> 1]),
    Few([rollouts |-> 1, outages |-> 1, stops |-> 1]),
    Few([rollouts |-> 2, configs |-> 1, stops |-> 1]),
    Few([rollouts |-> 1, configs |-> 2, restarts |-> 1])}
\* A package waits through an outage, a restart is asked for, and the program exits.
ForgetLimits == {Few([rollouts |-> 1, restarts |-> 1, outages |-> 1, exits |-> 1])}
===============================================================================
