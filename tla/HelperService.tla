---------------------------- MODULE HelperService ----------------------------
(***************************************************************************)
(* What the helper promises to whoever talks to it over its socket: a      *)
(* single tunnel slot, a report of its state, and at most one openconnect, *)
(* across restarts.  It is the abstract specification of Supervisor, which *)
(* implements it, and stands for the helper in VpnSystem.                  *)
(***************************************************************************)
EXTENDS Protocol

VARIABLES
    up,     \* the helper is serving
    active, \* its slot is taken: a connect would be refused
    live,   \* an openconnect that connect has published is running
    report  \* the state a status call answers

vars == <<up, active, live, report>>

Init == up = FALSE /\ active = FALSE /\ live = FALSE /\ report = "idle"

\* A helper starts serving only when no tunnel of an earlier one is alive.
Start == ~up /\ ~live /\ up' = TRUE /\ UNCHANGED <<active, live, report>>

\* connect is accepted.  openconnect may have died again by the time it is.
Accept ==
    /\ up /\ ~active /\ ~live
    /\ active' = TRUE
    /\ live' \in BOOLEAN
    /\ report' = "connecting"
    /\ UNCHANGED up

\* openconnect's output moves the report, even after a disconnect.
Line(s) ==
    /\ up /\ active
    /\ report' = s
    /\ UNCHANGED <<up, active, live>>

\* disconnect: the report changes at once, the tunnel later.
HangUp == up /\ report' = "disconnected" /\ UNCHANGED <<up, active, live>>

\* openconnect exits, by itself or by a signal, whether or not a helper runs.
TunnelEnds == live /\ live' = FALSE /\ UNCHANGED <<up, active, report>>

\* The helper has reaped it and frees the slot.
Clear ==
    /\ up /\ active /\ ~live
    /\ active' = FALSE
    /\ report' = "disconnected"
    /\ UNCHANGED <<up, live>>

\* The helper process ends; the tunnel need not.
Vanish ==
    /\ up
    /\ up' = FALSE /\ active' = FALSE /\ report' = "idle"
    /\ UNCHANGED live

Next ==
    \/ Start \/ Accept \/ HangUp \/ TunnelEnds \/ Clear \/ Vanish
    \/ \E s \in LineStates : Line(s)

Spec == Init /\ [][Next]_vars
=============================================================================
