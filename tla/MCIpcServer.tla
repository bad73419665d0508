----------------------------- MODULE MCIpcServer -----------------------------
(* Instances of IpcServer for TLC. *)
EXTENDS IpcServer

CONSTANTS s1, s2, s3
=============================================================================
