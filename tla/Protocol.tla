------------------------------ MODULE Protocol ------------------------------
(***************************************************************************)
(* The vocabulary the agent and the helper share (internal/ipc/message.go) *)
(* and the outcomes of one round trip over the helper socket.              *)
(***************************************************************************)

\* ipc.State, the nine connection states, and "" for a missing field.
NoState == ""
States == {"idle", "authenticating", "auth_failed", "connecting", "connected",
           "degraded", "session_rejected", "disconnected", "unknown"}

\* The states a helper ever stores in Supervisor.state, hence ever reports.
HelperStates == {"idle", "connecting", "connected", "degraded", "disconnected"}

\* What a line of openconnect's output can turn the helper's state into
\* (classifyLine): the tunnel is configured, or reconnecting has failed.
LineStates == {"connected", "degraded"}

(***************************************************************************)
(* What ipc.Client.DoTunnel returns: "lost" stands for every error (dial   *)
(* refused, deadline, broken frame), "rejected" for a TunnelResponse whose *)
(* Error is set, "ok" for one whose Error is empty.  "none" marks a caller *)
(* that has no answer yet.                                                 *)
(***************************************************************************)
Replies == [kind : {"none", "lost", "rejected", "ok"}, state : States \cup {NoState}]

NoReply      == [kind |-> "none", state |-> NoState]
Lost         == [kind |-> "lost", state |-> NoState]
Ok(s)        == [kind |-> "ok", state |-> s]
Rejected(s)  == [kind |-> "rejected", state |-> s]

\* Every answer the helper's Handle can give to each command.
ConnectAnswers    == {Ok("connecting")} \cup {Rejected(s) : s \in HelperStates \ {"idle"}}
DisconnectAnswers == {Ok("disconnected")}
StatusAnswers     == {Ok(s) : s \in HelperStates}

\* normalizeState: an absent state takes the caller's fallback.
NormalizeState(s, fallback) == IF s = NoState THEN fallback ELSE s
=============================================================================
