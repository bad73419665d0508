---------------------------- MODULE MCController ----------------------------
(* Instances of Controller and ControllerHistory for TLC. *)
EXTENDS ControllerHistory, RetryBackoff

CONSTANTS t1, t2, Base, Max

\* nextBackoff with its base and cap, in ticks.
MCBackoff == [n \in 1..AttemptCap |-> NextBackoff(n, Base, Max)]

\* The cap on attempts is exact: one more attempt would not wait longer.
ASSUME CapIsExact == NextBackoff(AttemptCap + 1, Base, Max) = NextBackoff(AttemptCap, Base, Max)
=============================================================================
