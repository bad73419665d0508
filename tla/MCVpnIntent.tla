----------------------------- MODULE MCVpnIntent -----------------------------
(* Instances of VpnIntent for TLC. *)
EXTENDS VpnIntent, RetryBackoff

CONSTANTS t1, t2, Base, Max

MCBackoff == [n \in 1..AttemptCap |-> NextBackoff(n, Base, Max)]
=============================================================================
