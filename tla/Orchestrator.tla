---------------------------- MODULE Orchestrator ----------------------------
(***************************************************************************)
(* What the agent's controller promises to those who call it, the menu and *)
(* the agent server (their interfaces Controller and Orchestrator): a      *)
(* state and a message that can be read at any time, calls that may run    *)
(* side by side, and one authentication at a time.  Whether a retry is due *)
(* is left open.  It is the abstract specification of Controller, and      *)
(* stands for the controller in Frontend.                                  *)
(***************************************************************************)
EXTENDS Protocol

CONSTANTS
    Tasks,   \* goroutines that call
    Reports, \* states the helper answers with, some of HelperStates
    Texts    \* texts that a message can be, when there is one

VARIABLES
    state,   \* what State() returns
    message, \* what Message() returns, "none" if empty
    busy,    \* an authentication is in flight
    call     \* which part of which call each task is in

vars == <<state, message, busy, call>>

Parts == {"none", "refresh", "retry", "disconnect", "auth", "ending"}

Init ==
    /\ state = "idle"
    /\ message = "none"
    /\ busy = FALSE
    /\ call = [t \in Tasks |-> "none"]

Enter(t, part) == call' = [call EXCEPT ![t] = part]

\* Refresh and Disconnect begin with a round trip, in which nothing changes.
Begin(t, part) == call[t] = "none" /\ Enter(t, part) /\ UNCHANGED <<state, message, busy>>
Refresh(t)     == Begin(t, "refresh")
Disconnect(t)  == Begin(t, "disconnect")

-----------------------------------------------------------------------------
(* Authentication, of a Connect or of a Refresh that retries. *)

Refuses == busy \/ state \in {"connected", "connecting"}

Authenticate(t) ==
    /\ ~Refuses
    /\ state' = "authenticating"
    /\ message' = "none"
    /\ busy' = TRUE
    /\ Enter(t, "auth")

Connect(t) == call[t] = "none" /\ Authenticate(t)

\* The retry takes place, or it is not due and the call returns.
Retry(t) ==
    /\ call[t] = "retry"
    /\ \/ Authenticate(t)
       \/ Enter(t, "none") /\ UNCHANGED <<state, message, busy>>

\* No cookie; a cookie the helper never got, or refused, or took.
Outcome(t) ==
    /\ call[t] = "auth"
    /\ \/ state' \in {"auth_failed", "disconnected"} \cup (Reports \ {"idle"}) /\ message' \in Texts
       \/ state' = "connecting" /\ message' = "none"
    /\ Enter(t, "ending")
    /\ UNCHANGED busy

EndAuth(t) ==
    /\ call[t] = "ending"
    /\ busy' = FALSE
    /\ Enter(t, "none")
    /\ UNCHANGED <<state, message>>

-----------------------------------------------------------------------------
(* The lock sections in which Disconnect and Refresh apply their answer. *)

DisconnectEnds(t) ==
    /\ call[t] = "disconnect"
    /\ \/ message' \in Texts /\ UNCHANGED state
       \/ state' = "disconnected" /\ message' = "none"
    /\ Enter(t, "none")
    /\ UNCHANGED busy

Lively == {"connected", "degraded", "connecting"}

\* What a status answer makes of the state and the message.
Observe ==
    \/ /\ state' \in Lively \cap Reports
       /\ message' = IF state' = "connected" THEN "none" ELSE message
    \/ /\ state \in Lively
       /\ state' = "session_rejected" /\ message' \in Texts
    \/ /\ state \notin Lively \cup {"session_rejected"}
       /\ state' = "disconnected" /\ message' = "none"
    \/ /\ state = "session_rejected"
       /\ UNCHANGED <<state, message>>

RefreshEnds(t) ==
    /\ call[t] = "refresh"
    /\ \/ UNCHANGED <<state, message>> /\ Enter(t, "none")
       \/ ~busy /\ Observe /\ Enter(t, "none")
       \/ ~busy /\ state = "session_rejected" /\ UNCHANGED <<state, message>> /\ Enter(t, "retry")
    /\ UNCHANGED busy

\* The agent process ends and a later one begins.
Restart ==
    /\ state' = "idle"
    /\ message' = "none"
    /\ busy' = FALSE
    /\ call' = [t \in Tasks |-> "none"]

-----------------------------------------------------------------------------
\* What a call that has begun owes its caller.
Continue(t) ==
    Retry(t) \/ Outcome(t) \/ EndAuth(t) \/ DisconnectEnds(t) \/ RefreshEnds(t)

Next ==
    \/ \E t \in Tasks : Connect(t) \/ Refresh(t) \/ Disconnect(t) \/ Continue(t)
    \/ Restart

Spec == Init /\ [][Next]_vars

Fairness == \A t \in Tasks : WF_vars(Continue(t))
=============================================================================
