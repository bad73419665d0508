--------------------------- MODULE MCHostAllowlist ---------------------------
(* Instances of HostAllowlist for TLC. *)
EXTENDS HostAllowlist

\* The IPv6 addresses of up to three characters.
MCLiterals == {<<":", ":">>} \cup {<<":", ":", c>> : c \in {"a", "b"}} \cup {<<c, ":", ":">> : c \in {"a", "b"}}
=============================================================================
