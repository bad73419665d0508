----------------------------- MODULE Controller -----------------------------
(***************************************************************************)
(* The agent's Controller (internal/agent/controller.go): a nine-state     *)
(* machine behind one mutex, driven by any number of goroutines (the menu  *)
(* loop, one per CLI connection, one per asynchronous connect).  A call    *)
(* that talks to the helper or runs "openconnect --authenticate" does so   *)
(* OUTSIDE the mutex, so its lock sections are separate actions here and   *)
(* other calls run in between; each lock section is one action.            *)
(***************************************************************************)
EXTENDS Protocol, Naturals

CONSTANTS
    Tasks,       \* goroutines that call the controller, one call at a time
    AttemptCap,  \* retry counts above it are not told apart
    MaxCooldown, \* the longest backoff, in clock ticks
    Backoff      \* Backoff[n], the ticks to wait after the n-th attempt

\* nextBackoff is constant from AttemptCap on, so the cap loses nothing.
ASSUME BackoffAssumption ==
    /\ AttemptCap \in Nat \ {0}
    /\ MaxCooldown \in Nat
    /\ Backoff \in [1..AttemptCap -> 1..MaxCooldown]

VARIABLES
    state,        \* Controller.state
    message,      \* the kind of text in Controller.message
    authInFlight, \* Controller.authInFlight
    terminal,     \* Controller.terminal
    attempt,      \* Controller.attempt
    cooldown,     \* ticks from now to nextAttemptAt, 0 once it has passed
    pc,           \* where each task is
    reply         \* the DoTunnel result each task holds

vars == <<state, message, authInFlight, terminal, attempt, cooldown, pc, reply>>
retry == <<attempt, cooldown>>

Messages == {"none", "guidance", "auth_error", "unreachable", "refused", "dropped"}

Calling == {"disconnecting", "refreshing", "handing"}   \* inside DoTunnel
InAuth  == {"authenticating", "handing", "ending"}      \* inside runAuth
PCs     == {"idle", "reauth"} \cup Calling \cup InAuth

\* Every variable holds a value of the type its Go field has.
TypeOK ==
    /\ state \in States
    /\ message \in Messages
    /\ authInFlight \in BOOLEAN
    /\ terminal \in BOOLEAN
    /\ attempt \in 0..AttemptCap
    /\ cooldown \in 0..MaxCooldown
    /\ pc \in [Tasks -> PCs]
    /\ reply \in [Tasks -> Replies]

\* NewController.
Init ==
    /\ state = "idle"
    /\ message = "none"
    /\ authInFlight = FALSE
    /\ terminal = FALSE
    /\ attempt = 0
    /\ cooldown = 0
    /\ pc = [t \in Tasks |-> "idle"]
    /\ reply = [t \in Tasks |-> NoReply]

-----------------------------------------------------------------------------
(* Helpers of the lock sections. *)

Goto(t, label) == pc' = [pc EXCEPT ![t] = label]

\* Leave DoTunnel: the answer is consumed.
Return(t, label) == Goto(t, label) /\ reply' = [reply EXCEPT ![t] = NoReply]

\* A slip the properties must notice: the clock of the last backoff keeps running.
ResetAttemptOnly == attempt' = 0 /\ UNCHANGED cooldown

ResetRetry == attempt' = 0 /\ cooldown' = 0

\* A slip: the delay is added to the last nextAttemptAt, not to now.
ScheduleOnTop ==
    /\ attempt' = IF attempt < AttemptCap THEN attempt + 1 ELSE attempt
    /\ cooldown' = cooldown + Backoff[attempt']

ScheduleBackoff ==
    /\ attempt' = IF attempt < AttemptCap THEN attempt + 1 ELSE attempt
    /\ cooldown' = Backoff[attempt']

\* now().Before(nextAttemptAt)
CoolingDown == cooldown > 0

-----------------------------------------------------------------------------
(* Authentication: beginAuth, runAuth, failAuth, handToHelper, endAuth. *)

\* Slips: no single-flight check; the decision Refresh took is trusted.
MayBeginAnytime(manual) ==
    /\ state \notin {"connected", "connecting"}
    /\ manual \/ (~terminal /\ ~CoolingDown)
MayBeginUnchecked(manual) ==
    /\ ~authInFlight
    /\ state \notin {"connected", "connecting"}

MayBegin(manual) ==
    /\ ~authInFlight
    /\ state \notin {"connected", "connecting"}
    /\ manual \/ (~terminal /\ ~CoolingDown)

BeginAuth(t, manual) ==
    /\ MayBegin(manual)
    /\ authInFlight' = TRUE
    /\ state' = "authenticating"
    /\ message' = "none"
    /\ IF manual
       THEN terminal' = FALSE /\ ResetRetry
       ELSE UNCHANGED <<terminal, retry>>
    /\ Goto(t, "authenticating")
    /\ UNCHANGED reply

\* Connect.  A call that beginAuth refuses returns and changes nothing.
Connect(t) == pc[t] = "idle" /\ BeginAuth(t, TRUE)

\* A slip: an autonomous retry that is refused waits until it may begin.
ReauthInsists(t) == pc[t] = "reauth" /\ BeginAuth(t, FALSE)

\* reauth, the autonomous path: refusals collapse to a silent return.
Reauth(t) ==
    /\ pc[t] = "reauth"
    /\ \/ BeginAuth(t, FALSE)
       \/ /\ ~MayBegin(FALSE)
          /\ Goto(t, "idle")
          /\ UNCHANGED <<state, message, authInFlight, terminal, retry, reply>>

\* Authenticate failed because the keychain may not prompt: stop retrying.
AuthFailsKeychain(t) ==
    /\ pc[t] = "authenticating"
    /\ state' = "auth_failed"
    /\ terminal' = TRUE
    /\ message' = "guidance"
    /\ Goto(t, "ending")
    /\ UNCHANGED <<authInFlight, retry, reply>>

\* A slip: the failure is recorded but the state is not.
AuthFailsQuietly(t) ==
    /\ pc[t] = "authenticating"
    /\ message' = "auth_error"
    /\ ScheduleBackoff
    /\ Goto(t, "ending")
    /\ UNCHANGED <<state, authInFlight, terminal, reply>>

\* Authenticate failed for any other reason: back off.
AuthFails(t) ==
    /\ pc[t] = "authenticating"
    /\ state' = "auth_failed"
    /\ message' = "auth_error"
    /\ ScheduleBackoff
    /\ Goto(t, "ending")
    /\ UNCHANGED <<authInFlight, terminal, reply>>

\* Authenticate returned a cookie: handToHelper sends it, holding no lock.
AuthSucceeds(t) ==
    /\ pc[t] = "authenticating"
    /\ Goto(t, "handing")
    /\ UNCHANGED <<state, message, authInFlight, terminal, retry, reply>>

\* handToHelper's lock section, after DoTunnel(connect) has returned.
HandReturns(t) ==
    LET r == reply[t] IN
    /\ pc[t] = "handing"
    /\ \/ /\ r.kind = "lost"
          /\ state' = "disconnected"
          /\ message' = "unreachable"
          /\ ScheduleBackoff
       \/ /\ r.kind = "rejected"
          /\ state' = NormalizeState(r.state, "disconnected")
          /\ message' = "refused"
          /\ ScheduleBackoff
       \/ /\ r.kind = "ok"
          /\ state' = NormalizeState(r.state, "connecting")
          /\ message' = "none"
          /\ ResetRetry
    /\ Return(t, "ending")
    /\ UNCHANGED <<authInFlight, terminal>>

\* A slip: runAuth returns without the deferred endAuth.
EndAuthForgotten(t) ==
    /\ pc[t] = "ending"
    /\ Goto(t, "idle")
    /\ UNCHANGED <<state, message, authInFlight, terminal, retry, reply>>

\* The deferred endAuth: a lock section of its own, after the outcome's.
EndAuth(t) ==
    /\ pc[t] = "ending"
    /\ authInFlight' = FALSE
    /\ Goto(t, "idle")
    /\ UNCHANGED <<state, message, terminal, retry, reply>>

-----------------------------------------------------------------------------
(* Disconnect. *)

Disconnect(t) ==
    /\ pc[t] = "idle"
    /\ Goto(t, "disconnecting")
    /\ UNCHANGED <<state, message, authInFlight, terminal, retry, reply>>

DisconnectReturns(t) ==
    LET r == reply[t] IN
    /\ pc[t] = "disconnecting"
    /\ r # NoReply
    /\ ResetRetry
    /\ terminal' = FALSE
    /\ IF r.kind = "lost"
       THEN message' = "unreachable" /\ UNCHANGED state
       ELSE message' = "none" /\ state' = NormalizeState(r.state, "disconnected")
    /\ Return(t, "idle")
    /\ UNCHANGED authInFlight

-----------------------------------------------------------------------------
(* Refresh. *)

Live == {"connected", "degraded", "connecting"}
Down == {"disconnected", "idle"}

\* A slip: once disconnected, what the helper reports is taken for late output.
ReconcileStaysDown(current, helper) ==
    CASE helper \in Live                     -> IF current = "disconnected" THEN current ELSE helper
      [] helper \in Down /\ current \in Live -> "session_rejected"
      [] OTHER                               -> "disconnected"

\* reconcile: the agent's next state given the state the helper reports.
\* Its action is actionReauth exactly when the result is session_rejected.
Reconcile(current, helper) ==
    CASE helper \in Live                                        -> helper
      [] helper \in Down /\ current \in Live \cup {"session_rejected"}
                                                                -> "session_rejected"
      [] helper \in Down /\ current \notin Live \cup {"session_rejected"}
                                                                -> "disconnected"
      [] OTHER                                                  -> "unknown"

Refresh(t) ==
    /\ pc[t] = "idle"
    /\ Goto(t, "refreshing")
    /\ UNCHANGED <<state, message, authInFlight, terminal, retry, reply>>

\* A slip: every observation of the drop restarts the backoff clock.
NoteTransitionAlways(prev, next) ==
    CASE next = "connected"        -> ResetRetry /\ message' = "none"
      [] next = "disconnected"     -> message' = "none" /\ UNCHANGED retry
      [] next = "session_rejected" -> ScheduleBackoff /\ message' = "dropped"
      [] OTHER                     -> UNCHANGED <<message, retry>>

\* The switch that follows reconcile, on the previous and the next state.
NoteTransition(prev, next) ==
    CASE next = "connected"    -> ResetRetry /\ message' = "none"
      [] next = "disconnected" -> message' = "none" /\ UNCHANGED retry
      [] next = "session_rejected" /\ prev # "session_rejected"
                               -> ScheduleBackoff /\ message' = "dropped"
      [] OTHER                 -> UNCHANGED <<message, retry>>

\* readyToReauth; cooldown is only rescheduled when prev # next.
ReadyToReauth(prev, next) ==
    /\ next = "session_rejected"
    /\ prev = "session_rejected"
    /\ ~terminal
    /\ ~CoolingDown

\* An answer Refresh drops: the call failed, or an authentication is running
\* by now.  (The variant is a slip: only a failed call is dropped.)
DropsLostOnly(r) == r.kind = "lost"
DropsAnswer(r)   == r.kind = "lost" \/ authInFlight

RefreshReturns(t) ==
    LET r    == reply[t]
        next == Reconcile(state, NormalizeState(r.state, "unknown")) IN
    /\ pc[t] = "refreshing"
    /\ r # NoReply
    /\ \/ /\ DropsAnswer(r)
          /\ Return(t, "idle")
          /\ UNCHANGED <<state, message, retry>>
       \/ /\ ~DropsAnswer(r)
          /\ state' = next
          /\ NoteTransition(state, next)
          /\ Return(t, IF ReadyToReauth(state, next) THEN "reauth" ELSE "idle")
    /\ UNCHANGED <<authInFlight, terminal>>

-----------------------------------------------------------------------------
(* The environment: the helper's answers and the passing of time. *)

Answers(label) ==
    CASE label = "handing"       -> ConnectAnswers
      [] label = "disconnecting" -> DisconnectAnswers
      [] label = "refreshing"    -> StatusAnswers

Reply(t, r) ==
    /\ pc[t] \in Calling
    /\ reply[t] = NoReply
    /\ reply' = [reply EXCEPT ![t] = r]
    /\ UNCHANGED <<state, message, authInFlight, terminal, retry, pc>>

HelperAnswers(t) == pc[t] \in Calling /\ \E r \in Answers(pc[t]) : Reply(t, r)
CallFails(t)     == Reply(t, Lost)

Tick ==
    /\ cooldown > 0
    /\ cooldown' = cooldown - 1
    /\ UNCHANGED <<state, message, authInFlight, terminal, attempt, pc, reply>>

\* The agent process ends, its goroutines with it, and a later one begins anew.
\* Nothing of an agent moves in between, so both are one step.
Restart ==
    /\ state' = "idle"
    /\ message' = "none"
    /\ authInFlight' = FALSE
    /\ terminal' = FALSE
    /\ ResetRetry
    /\ pc' = [t \in Tasks |-> "idle"]
    /\ reply' = [t \in Tasks |-> NoReply]

-----------------------------------------------------------------------------
Outcome(t) == AuthFailsKeychain(t) \/ AuthFails(t) \/ AuthSucceeds(t)

\* The steps task t owes once its call has begun.
Continue(t) ==
    \/ Reauth(t)
    \/ Outcome(t)
    \/ HandReturns(t)
    \/ EndAuth(t)
    \/ DisconnectReturns(t)
    \/ RefreshReturns(t)

Next ==
    \/ \E t \in Tasks : Connect(t) \/ Disconnect(t) \/ Refresh(t) \/ Continue(t)
    \/ \E t \in Tasks : HelperAnswers(t) \/ CallFails(t)
    \/ Tick
    \/ Restart

Spec == Init /\ [][Next]_vars

(***************************************************************************)
(* Goroutines are scheduled; a DoTunnel call ends, by an answer or by its  *)
(* 30 s deadline; Authenticate ends (openconnect exits: nothing in the     *)
(* code bounds it, so this is an assumption about openconnect); time       *)
(* passes.  The menu's ticker fires over and over and the loop's select    *)
(* picks at random among ready cases, hence strong fairness of Refresh;    *)
(* and the helper is reachable again and again.                            *)
(***************************************************************************)
Fairness ==
    /\ \A t \in Tasks : WF_vars(Continue(t))
    /\ \A t \in Tasks : WF_vars(HelperAnswers(t) \/ CallFails(t))
    /\ WF_vars(Tick)

Polling ==
    /\ SF_vars(\E t \in Tasks : Refresh(t))
    /\ SF_vars(\E t \in Tasks : pc[t] = "refreshing" /\ HelperAnswers(t))

FairSpec == Spec /\ Fairness /\ Polling

-----------------------------------------------------------------------------
(* Properties. *)

\* Whether t's authentication starts in this step.
Starts(t) == pc[t] # "authenticating" /\ pc'[t] = "authenticating"

\* Whether this step is the outcome of t's authentication, or of its disconnect.
EndsAuth(t)       == pc[t] \in InAuth /\ pc'[t] = "ending"
EndsDisconnect(t) == pc[t] = "disconnecting" /\ pc'[t] = "idle"

\* One authentication at a time: authInFlight is set exactly while some task
\* is between beginAuth and endAuth, and never two of them are (the promise of
\* beginAuth, whose check and whose clearing are in different lock sections).
OneAuth ==
    /\ authInFlight <=> \E t \in Tasks : pc[t] \in InAuth
    /\ \A t, u \in Tasks : pc[t] \in InAuth /\ pc[u] \in InAuth => t = u

\* The state never stays "authenticating" once no authentication is left to
\* change it: whoever shows it can rely on an outcome still to come.
AuthenticatingIsBacked ==
    state = "authenticating" =>
        \E t \in Tasks : pc[t] \in {"authenticating", "handing"}

\* The cooldown on the clock is never longer than the backoff of the attempts
\* counted: no path clears one of attempt and nextAttemptAt and not the other.
CooldownFitsAttempts ==
    cooldown <= IF attempt = 0 THEN 0 ELSE Backoff[attempt]

\* Only states of the helper's reach the controller in an answer.
RepliesAreHelpers ==
    \A t \in Tasks : reply[t].state \in HelperStates \cup {NoState}

\* The inductive invariant behind the theorems of ControllerProofs.
IInv ==
    /\ TypeOK
    /\ OneAuth
    /\ AuthenticatingIsBacked
    /\ CooldownFitsAttempts
    /\ RepliesAreHelpers

\* While an authentication is in flight, the state changes only by its own
\* outcome or by the user's disconnect, as long as the agent lives: an answer
\* to a status call asked before or meanwhile never overwrites it (the early
\* return of Refresh).
AuthNotDisturbed ==
    [][ authInFlight /\ state' # state =>
            Restart \/ \E t \in Tasks : EndsAuth(t) \/ EndsDisconnect(t) ]_vars

\* A rejected session does not stay rejected: Refresh keeps observing it, its
\* backoff runs out and it is authenticated again, unless something else
\* changes the state first (the sticky session_rejected of reconcile).
RejectedIsRetried ==
    (state = "session_rejected" /\ ~terminal) ~> (state # "session_rejected")

\* The part of a call, in Orchestrator's terms, that a task at label is in.
Part(label) ==
    CASE label = "idle"          -> "none"
      [] label = "refreshing"    -> "refresh"
      [] label = "reauth"        -> "retry"
      [] label = "disconnecting" -> "disconnect"
      [] label = "ending"        -> "ending"
      [] OTHER                   -> "auth"

\* What the callers see of the controller, without backoff and round trips.
Callers == INSTANCE Orchestrator WITH
    Reports <- HelperStates,
    Texts   <- Messages \ {"none"},
    busy    <- authInFlight,
    call    <- [t \in Tasks |-> Part(pc[t])]

\* The controller keeps what its callers rely on: whatever interleaves, state
\* and message change only as Orchestrator says, and never during a poll or a
\* disconnect that has not been answered.
ImplementsOrchestrator == Callers!Spec

\* Every call returns, so that neither the menu's loop nor a connection's
\* goroutine is stuck for ever in one.
CallsReturn == Callers!Fairness

\* Whatever goes wrong in between, an authentication ends and frees the slot,
\* so that the next Connect is not refused for ever with errInProgress.
AuthSlotIsFreed == authInFlight ~> ~authInFlight
=============================================================================
