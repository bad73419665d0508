---------------------------- MODULE MCSupervisor ----------------------------
(* Instances of Supervisor for TLC. *)
EXTENDS Supervisor

CONSTANTS k1, k2, p1, p2, h1, h2
=============================================================================
