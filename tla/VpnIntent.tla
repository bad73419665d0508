------------------------------ MODULE VpnIntent ------------------------------
(***************************************************************************)
(* VpnSystem with a history variable for what the user wants, which no     *)
(* action reads.                                                           *)
(***************************************************************************)
EXTENDS VpnSystem

VARIABLE wanted   \* the last user action to complete was a connect

ivars == <<state, message, authInFlight, terminal, attempt, cooldown, pc, reply,
           up, active, live, report, late, wanted>>

IInit == Init /\ wanted = FALSE

\* Set when a connect is accepted, cleared when a disconnect has returned
\* without an error; a restart of the agent does not change the user's mind.
NotesIntent ==
    wanted' = IF Agent!Restart THEN wanted
              ELSE \/ \E t \in Tasks : pc[t] = "idle" /\ Agent!Starts(t)
                   \/ wanted /\ ~\E t \in Tasks : Agent!EndsDisconnect(t) /\ reply[t].kind = "ok"

INext == Next /\ NotesIntent

ISpec == IInit /\ [][INext]_ivars

\* Once the user has disconnected, no cookie is accepted and the agent does not
\* authenticate by itself ("reconnect only if user intent is still connected").
\* The code does not keep this: Disconnect does not call off an authentication
\* in flight, and the end of the tunnel the user asked to end can look like a
\* dropped session.
QuietAfterDisconnect ==
    [][ \A t \in Tasks :
            AcceptConnect(t) \/ (Agent!Starts(t) /\ pc[t] = "reauth") => wanted ]_ivars
=============================================================================
