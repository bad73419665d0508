------------------------- MODULE ControllerHistory --------------------------
(***************************************************************************)
(* The Controller with history variables: what the user last asked for and *)
(* what has happened since.  They are never read by the controller's own   *)
(* actions; they let the properties compare a step with the past.          *)
(***************************************************************************)
EXTENDS Controller

CONSTANT MaxDrops   \* drops are not counted above it

ASSUME MaxDropsAssumption == MaxDrops \in Nat \ {0}

VARIABLES
    stopped,  \* a keychain failure happened, and since no user action or restart
    drops     \* drops observed since the tunnel was last seen up, or an action

hvars == <<state, message, authInFlight, terminal, attempt, cooldown, pc, reply,
           stopped, drops>>

HTypeOK ==
    /\ TypeOK
    /\ stopped \in BOOLEAN
    /\ drops \in 0..MaxDrops

HInit == Init /\ stopped = FALSE /\ drops = 0

UserConnects    == \E t \in Tasks : pc[t] = "idle" /\ Starts(t)
UserDisconnects == \E t \in Tasks : EndsDisconnect(t)
KeychainFails   == \E t \in Tasks : AuthFailsKeychain(t)
Dropped         == state # "session_rejected" /\ state' = "session_rejected"
SeenUp          == state # "connected" /\ state' = "connected"

HNext ==
    /\ Next
    /\ stopped' = IF UserConnects \/ UserDisconnects \/ Restart THEN FALSE
                  ELSE stopped \/ KeychainFails
    /\ drops' = CASE UserConnects \/ UserDisconnects \/ Restart \/ SeenUp -> 0
                  [] Dropped /\ drops < MaxDrops               -> drops + 1
                  [] OTHER                                     -> drops

HSpec == HInit /\ [][HNext]_hvars

HFairSpec == HSpec /\ Fairness /\ Polling

\* After a keychain failure no authentication starts on its own until the user
\* connects or disconnects, even one that Refresh had decided on before the
\* failure (failAuth: "stop autonomous retries"; the prompt storm of auth.go).
KeychainFailureStops ==
    [][ stopped => \A t \in Tasks : Starts(t) => pc[t] = "idle" ]_hvars

\* Backoff is exponential over consecutive rejections of the session.  The code
\* does not keep this: a helper that merely accepts a cookie resets the count.
BackoffGrowsWithDrops ==
    [][ Dropped => attempt' >= IF drops' < AttemptCap THEN drops' ELSE AttemptCap ]_hvars
=============================================================================
