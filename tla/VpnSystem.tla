------------------------------ MODULE VpnSystem ------------------------------
(***************************************************************************)
(* The agent's Controller and the helper, joined by DoTunnel round trips   *)
(* over a Unix socket.  The helper is HelperService, which Supervisor      *)
(* implements.  A call is three steps: the agent asks, the helper handles  *)
(* the request, the agent takes its lock and applies the answer; anything  *)
(* may happen in between.  An answer can get lost after the helper acted,  *)
(* and a request can be handled after its caller has given up or died.     *)
(***************************************************************************)
EXTENDS Protocol, Naturals

CONSTANTS Tasks, AttemptCap, MaxCooldown, Backoff

VARIABLES
    state, message, authInFlight, terminal, attempt, cooldown, pc, reply,
    up, active, live, report,
    late     \* commands the helper may still handle for a caller that is gone

avars == <<state, message, authInFlight, terminal, attempt, cooldown, pc, reply>>
hvars == <<up, active, live, report>>
vars  == <<state, message, authInFlight, terminal, attempt, cooldown, pc, reply,
           up, active, live, report, late>>

Agent  == INSTANCE Controller
Helper == INSTANCE HelperService

Init == Agent!Init /\ Helper!Init /\ late = {}

-----------------------------------------------------------------------------
(* The agent between its calls, and the helper by itself. *)

AgentMoves ==
    /\ \/ \E t \in Tasks : \/ Agent!Connect(t) \/ Agent!Disconnect(t) \/ Agent!Refresh(t)
                           \/ Agent!Continue(t)
       \/ Agent!Tick
    /\ UNCHANGED <<hvars, late>>

HelperMoves ==
    /\ \/ UNCHANGED late /\ (Helper!Start \/ Helper!TunnelEnds \/ Helper!Clear)
       \/ UNCHANGED late /\ \E s \in LineStates : Helper!Line(s)
       \/ late' = {} /\ Helper!Vanish
    /\ UNCHANGED avars

-----------------------------------------------------------------------------
(* Supervisor.Handle, one disjunct of each command per outcome. *)

\* The helper has done its part; its answer arrives, or the deadline passes.
Answer(t, r) == Agent!Reply(t, r) \/ Agent!Reply(t, Lost)

HandleStatus(t) ==
    /\ pc[t] = "refreshing" /\ up
    /\ Agent!Reply(t, Ok(report))
    /\ UNCHANGED <<hvars, late>>

\* A slip: the answer is built from the state before the disconnect.
HandleDisconnectLate(t) ==
    /\ pc[t] = "disconnecting"
    /\ Helper!HangUp
    /\ Answer(t, Ok(report))
    /\ UNCHANGED late

HandleDisconnect(t) ==
    /\ pc[t] = "disconnecting"
    /\ Helper!HangUp
    /\ Answer(t, Ok("disconnected"))
    /\ UNCHANGED late

AcceptConnect(t) ==
    /\ pc[t] = "handing"
    /\ Helper!Accept
    /\ Answer(t, Ok("connecting"))
    /\ UNCHANGED late

\* "a tunnel is already active", or the host or the start of openconnect failed.
RefuseConnect(t) ==
    /\ pc[t] = "handing" /\ up
    /\ Agent!Reply(t, IF active THEN Rejected(report) ELSE Rejected("disconnected"))
    /\ UNCHANGED <<hvars, late>>

\* The commands of T's callers that a running helper may have and has not handled.
Pending(T) ==
    {IF pc[t] = "handing" THEN "connect" ELSE "disconnect" :
        t \in {u \in T : up /\ pc[u] \in {"handing", "disconnecting"} /\ reply[u] = Agent!NoReply}}

\* The request never reached the helper, a mere answer got lost, or the
\* deadline passed and the helper will handle the request after all.
CallFails(t) ==
    /\ Agent!CallFails(t)
    /\ late' \in {late, late \cup Pending({t})}
    /\ UNCHANGED hvars

\* The agent's process is replaced; the helper does not notice.
AgentRestarts ==
    /\ Agent!Restart
    /\ late' \in {late, late \cup Pending(Tasks)}
    /\ UNCHANGED hvars

\* A command whose caller is gone takes effect; nobody hears the answer.
HandleLate ==
    /\ \/ "connect" \in late /\ Helper!Accept /\ late' = late \ {"connect"}
       \/ "disconnect" \in late /\ Helper!HangUp /\ late' = late \ {"disconnect"}
    /\ UNCHANGED avars

Handle(t) ==
    HandleStatus(t) \/ HandleDisconnect(t) \/ AcceptConnect(t) \/ RefuseConnect(t)

Next ==
    \/ AgentMoves
    \/ HelperMoves
    \/ AgentRestarts
    \/ HandleLate
    \/ \E t \in Tasks : Handle(t) \/ CallFails(t)

Spec == Init /\ [][Next]_vars

(***************************************************************************)
(* As in Controller: goroutines run, calls and authentications end, time   *)
(* passes, the menu polls again and again, and every so often a poll gets  *)
(* an answer.                                                              *)
(***************************************************************************)
Fairness ==
    /\ \A t \in Tasks : WF_vars(Agent!Continue(t) /\ UNCHANGED <<hvars, late>>)
    /\ \A t \in Tasks : WF_vars(Handle(t) \/ CallFails(t))
    /\ SF_vars((\E t \in Tasks : Agent!Refresh(t)) /\ UNCHANGED <<hvars, late>>)
    /\ SF_vars(\E t \in Tasks : HandleStatus(t))

FairSpec == Spec /\ Fairness

-----------------------------------------------------------------------------
(* Properties. *)

\* The controller is never put in a situation its own specification leaves
\* out: joined to the real helper it is still a behaviour of Controller, so
\* what is proved of Controller holds of the system.
ImplementsController == Agent!Spec

AgentStays == <>[][~Agent!Restart]_vars

\* If the helper stays connected and nobody authenticates any more, the agent
\* shows so in the end, whatever answers were lost, late or refused on the way
\* and though it may itself have come up beside a tunnel it never started.
AgentSeesTunnel ==
    /\ AgentStays
    /\ <>[](up /\ report = "connected" /\ ~authInFlight)
    => <>[](state = "connected")

\* If the tunnel is gone for good, the agent stops showing one.
AgentSeesLoss == <>[](up /\ ~active) => <>[](state \notin Agent!Live)
=============================================================================
