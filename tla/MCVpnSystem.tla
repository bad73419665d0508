----------------------------- MODULE MCVpnSystem -----------------------------
(* Instances of VpnSystem for TLC. *)
EXTENDS VpnSystem, RetryBackoff

CONSTANTS t1, t2, Base, Max

MCBackoff == [n \in 1..AttemptCap |-> NextBackoff(n, Base, Max)]
ASSUME CapIsExact == NextBackoff(AttemptCap + 1, Base, Max) = NextBackoff(AttemptCap, Base, Max)
=============================================================================
