----------------------------- MODULE MCFrontend -----------------------------
(* Instances of Frontend for TLC. *)
EXTENDS Frontend

CONSTANTS c1, g1
=============================================================================
