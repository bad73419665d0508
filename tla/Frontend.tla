------------------------------ MODULE Frontend ------------------------------
(***************************************************************************)
(* The two front ends of the agent over one controller: the menu's event   *)
(* loop (internal/menu) and the control socket of the CLI                  *)
(* (internal/agent/server.go, cmd/).  The controller is Orchestrator,      *)
(* which Controller implements.  Both make a call, wait for its end, and   *)
(* then read State and Message in two lock sections, the menu to show      *)
(* them and a connection's handler to answer with them.  A connect of the  *)
(* CLI runs in a goroutine of its own and is answered at once.             *)
(***************************************************************************)
EXTENDS Protocol

CONSTANTS
    Menu,    \* the goroutine of the menu's loop
    Clients, \* connections of the CLI that may be open at one time
    Spawned, \* connects the agent server may have started at one time
    Reports, \* states the helper answers with
    Texts    \* texts the controller's message can be

ASSUME GoroutinesDiffer ==
    Menu \notin Clients \cup Spawned /\ Clients \cap Spawned = {}

ASSUME ReportsAssumption == Reports \subseteq HelperStates /\ "none" \notin Texts

Readers  == {Menu} \cup Clients
Tasks    == Readers \cup Spawned
Commands == {"connect", "disconnect", "status"}

VARIABLES
    state, message, busy, call,  \* of the controller
    request, \* what each reader works on, "none" while it waits
    at,      \* how far it is
    seen,    \* what State() returned to it, until Message() returns too
    shown,   \* the state and message on display in the menu bar
    ready,   \* connects that are started and have not called yet
    calm     \* history: nothing has changed since the reader's call returned, and
             \* it has not called or answered since

cvars == <<state, message, busy, call>>
fvars == <<request, at, seen, shown, ready>>
vars  == <<state, message, busy, call, request, at, seen, shown, ready, calm>>

Ctrl == INSTANCE Orchestrator

Picture == <<state, message>>
Blank   == <<NoState, "none">>   \* "Status: starting"

Phases == {"waiting", "calling", "called", "reading"}

\* The values of the variables; a reader that waits has no request, and one that
\* has read a state, and only that one, still has to read the message.
TypeOK ==
    /\ state \in States /\ message \in Texts \cup {"none"} /\ busy \in BOOLEAN
    /\ call \in [Tasks -> Ctrl!Parts]
    /\ request \in [Readers -> Commands \cup {"none", "render"}]
    /\ at \in [Readers -> Phases]
    /\ seen \in [Readers -> States \cup {NoState}]
    /\ shown \in (States \cup {NoState}) \X (Texts \cup {"none"})
    /\ ready \subseteq Spawned
    /\ calm \in [Readers -> BOOLEAN]
    /\ \A r \in Readers :
          /\ at[r] = "waiting" <=> request[r] = "none"
          /\ at[r] = "reading" <=> seen[r] # NoState

\* An agent that starts renders once before it enters the loop.
Start ==
    [ request |-> [r \in Readers |-> IF r = Menu THEN "render" ELSE "none"],
      at      |-> [r \in Readers |-> IF r = Menu THEN "called" ELSE "waiting"],
      seen    |-> [r \in Readers |-> NoState] ]

Init ==
    /\ Ctrl!Init
    /\ request = Start.request /\ at = Start.at /\ seen = Start.seen
    /\ shown = Blank
    /\ ready = {}
    /\ calm = [r \in Readers |-> r = Menu]

-----------------------------------------------------------------------------
(* The menu. *)

ConnectEnabled(s)    == s \notin {"connected", "connecting", "authenticating", "degraded"}
DisconnectEnabled(s) == s \notin {"idle", "disconnected"}

\* A slip: the loop polls only while it shows a tunnel.
ClickableWhileUp(command) ==
    CASE command = "connect"    -> ConnectEnabled(shown[1])
      [] command = "disconnect" -> DisconnectEnabled(shown[1])
      [] command = "status"     -> DisconnectEnabled(shown[1])

\* What the user can click is decided by what is shown, not by what is.
Clickable(command) ==
    CASE command = "connect"    -> ConnectEnabled(shown[1])
      [] command = "disconnect" -> DisconnectEnabled(shown[1])
      [] command = "status"     -> TRUE

\* select takes a click or a tick.  A click while the loop is busy is dropped
\* by systray, a tick waits in its channel.
Picks(command) ==
    /\ at[Menu] = "waiting"
    /\ Clickable(command)
    /\ request' = [request EXCEPT ![Menu] = command]
    /\ at' = [at EXCEPT ![Menu] = "calling"]
    /\ UNCHANGED <<cvars, seen, shown, ready>>

-----------------------------------------------------------------------------
(* The control socket. *)

\* A connection is accepted and its request read.  (A connect only while the
\* bound on Spawned leaves a goroutine for it.)
Accepts(c, command) ==
    /\ at[c] = "waiting"
    /\ command = "connect" => \E g \in Spawned \ ready : call[g] = "none"
    /\ request' = [request EXCEPT ![c] = command]
    /\ at' = [at EXCEPT ![c] = "calling"]
    /\ UNCHANGED <<cvars, seen, shown, ready>>

\* dispatch starts a goroutine for Connect and does not wait for it.
Spawns(c) ==
    /\ at[c] = "calling" /\ request[c] = "connect"
    /\ \E g \in Spawned \ ready :
          /\ call[g] = "none"
          /\ ready' = ready \cup {g}
    /\ at' = [at EXCEPT ![c] = "called"]
    /\ UNCHANGED <<cvars, request, seen, shown>>

\* A slip: a connect that is refused waits for its turn.
SpawnedInsists(g) ==
    /\ g \in ready
    /\ Ctrl!Connect(g)
    /\ ready' = ready \ {g}
    /\ UNCHANGED <<request, at, seen, shown>>

\* The goroutine gets to run: beginAuth accepts or refuses it.
SpawnedCalls(g) ==
    /\ g \in ready
    /\ \/ Ctrl!Connect(g)
       \/ Ctrl!Refuses /\ UNCHANGED cvars
    /\ ready' = ready \ {g}
    /\ UNCHANGED <<request, at, seen, shown>>

-----------------------------------------------------------------------------
(* Both: make the call, see it through, read the controller. *)

\* A slip: dispatch waits for a connect like for any other command.
CallsAnything(r) ==
    /\ at[r] = "calling"
    /\ \/ request[r] = "disconnect" /\ Ctrl!Disconnect(r)
       \/ request[r] = "status" /\ Ctrl!Refresh(r)
       \/ request[r] = "connect" /\ Ctrl!Connect(r)
       \/ request[r] = "connect" /\ Ctrl!Refuses /\ UNCHANGED cvars
    /\ at' = [at EXCEPT ![r] = "called"]
    /\ UNCHANGED <<request, seen, shown, ready>>

\* A slip: the loop does not render after a connect that was refused.
CallsUnrendered(r) ==
    /\ at[r] = "calling"
    /\ \/ /\ \/ request[r] = "disconnect" /\ Ctrl!Disconnect(r)
             \/ request[r] = "status" /\ Ctrl!Refresh(r)
             \/ request[r] = "connect" /\ r = Menu /\ Ctrl!Connect(r)
          /\ at' = [at EXCEPT ![r] = "called"]
       \/ /\ request[r] = "connect" /\ r = Menu /\ Ctrl!Refuses /\ UNCHANGED cvars
          /\ at' = [at EXCEPT ![r] = "waiting"]
    /\ UNCHANGED <<request, seen, shown, ready>>

\* Only the menu's loop itself connects; connections have Spawns for it.
Calls(r) ==
    /\ at[r] = "calling"
    /\ \/ request[r] = "disconnect" /\ Ctrl!Disconnect(r)
       \/ request[r] = "status" /\ Ctrl!Refresh(r)
       \/ request[r] = "connect" /\ r = Menu /\ Ctrl!Connect(r)
       \/ request[r] = "connect" /\ r = Menu /\ Ctrl!Refuses /\ UNCHANGED cvars
    /\ at' = [at EXCEPT ![r] = "called"]
    /\ UNCHANGED <<request, seen, shown, ready>>

CallGoesOn(t) == Ctrl!Continue(t) /\ UNCHANGED fvars

\* A slip: the state is read before the call has returned.
ReadsStateEarly(r) ==
    /\ at[r] = "called"
    /\ seen' = [seen EXCEPT ![r] = state]
    /\ at' = [at EXCEPT ![r] = "reading"]
    /\ UNCHANGED <<cvars, request, shown, ready>>

\* State(), the first of the two lock sections.
ReadsState(r) ==
    /\ at[r] = "called" /\ call[r] = "none"
    /\ seen' = [seen EXCEPT ![r] = state]
    /\ at' = [at EXCEPT ![r] = "reading"]
    /\ UNCHANGED <<cvars, request, shown, ready>>

\* A slip: what was read stays.
FinishForgets(r) ==
    /\ request' = [request EXCEPT ![r] = "none"]
    /\ at' = [at EXCEPT ![r] = "waiting"]
    /\ UNCHANGED seen

Finish(r) ==
    /\ request' = [request EXCEPT ![r] = "none"]
    /\ at' = [at EXCEPT ![r] = "waiting"]
    /\ seen' = [seen EXCEPT ![r] = NoState]

\* Message(), and the display changes.
Shows ==
    /\ at[Menu] = "reading"
    /\ shown' = <<seen[Menu], message>>
    /\ Finish(Menu)
    /\ UNCHANGED <<cvars, ready>>

\* Message(), and the answer is written, whether or not the client still waits
\* for it: a deadline that has passed there changes nothing here.  (The answer
\* to a connect has a fixed text instead of the message.)
Answers(c) ==
    /\ at[c] = "reading"
    /\ Finish(c)
    /\ UNCHANGED <<cvars, shown, ready>>

-----------------------------------------------------------------------------
\* The agent ends, by Quit or a signal, with every call, connection and display;
\* a later one starts.
AgentRestarts ==
    /\ Ctrl!Restart
    /\ request' = Start.request /\ at' = Start.at /\ seen' = Start.seen
    /\ shown' = Blank
    /\ ready' = {}

\* The step in which r's call returns to it.
Returns(r) ==
    /\ call'[r] = "none"
    /\ \/ call[r] # "none"
       \/ at[r] = "calling" /\ at'[r] # "calling"

Watches ==
    calm' = [r \in Readers |->
                \/ Returns(r)
                \/ /\ calm[r] /\ UNCHANGED Picture
                   /\ at'[r] \in {"called", "reading"} \/ (r = Menu /\ at'[r] = "waiting")]

\* What each goroutine does next by itself.
MenuRuns       == Picks("status") \/ Calls(Menu) \/ CallGoesOn(Menu) \/ ReadsState(Menu) \/ Shows
HandlerRuns(c) == Spawns(c) \/ Calls(c) \/ CallGoesOn(c) \/ ReadsState(c) \/ Answers(c)
SpawnedRuns(g) == SpawnedCalls(g) \/ CallGoesOn(g)

Next ==
    /\ \/ MenuRuns \/ Picks("connect") \/ Picks("disconnect")
       \/ \E c \in Clients : HandlerRuns(c) \/ \E command \in Commands : Accepts(c, command)
       \/ \E g \in Spawned : SpawnedRuns(g)
       \/ AgentRestarts
    /\ Watches

Spec == Init /\ [][Next]_vars

(***************************************************************************)
(* Every goroutine runs: calls return (CallsReturn of Controller), and the *)
(* ticker goes off again and again.                                        *)
(***************************************************************************)
Fairness ==
    /\ WF_vars(MenuRuns /\ Watches)
    /\ \A c \in Clients : WF_vars(HandlerRuns(c) /\ Watches)
    /\ \A g \in Spawned : WF_vars(SpawnedRuns(g) /\ Watches)

FairSpec == Spec /\ Fairness

-----------------------------------------------------------------------------
(* Properties. *)

\* While the loop waits, the menu shows what the controller says, unless it has
\* changed since the loop's last call returned: no operation, failed or refused
\* ones included, leaves the display behind (the render after every action).
ShownIsCurrent == at[Menu] = "waiting" /\ calm[Menu] => shown = Picture

\* A call is under way only for a request that makes it, and while its reader
\* waits for it.
CallsAreRequests ==
    \A r \in Readers : call[r] # "none" =>
        /\ at[r] = "called"
        /\ r \in Clients => request[r] = (IF call[r] = "disconnect" THEN "disconnect" ELSE "status")

\* What a calm reader has read is what the controller still says.
CalmIsCurrent ==
    \A r \in Readers : calm[r] =>
        /\ call[r] = "none" /\ at[r] # "calling"
        /\ at[r] = "reading" => seen[r] = state

\* The inductive invariant behind the theorems of FrontendProofs.
FInv ==
    /\ TypeOK
    /\ CallsAreRequests
    /\ CalmIsCurrent
    /\ ShownIsCurrent

\* An answer to a disconnect or a status describes the controller after the
\* call, not before it, unless something else has changed it meanwhile ("the
\* printed state reflects the post-disconnect status").
AnswersAreCurrent ==
    [][ \A c \in Clients :
            Answers(c) /\ request[c] # "connect" /\ calm[c] => seen[c] = state ]_vars

\* No connection waits for an authentication it asked for, nor does one that
\* asks for a disconnect; a status that finds a retry due is the only request
\* that can last as long as an authentication.
OnlyStatusLasts ==
    \A c \in Clients : call[c] \in {"auth", "ending"} => request[c] = "status"

\* If the controller comes to rest, the menu shows its state and message in the
\* end, although its loop is deaf while a call of its own runs and the two are
\* read one after the other.
MenuCatchesUp ==
    <>[][UNCHANGED Picture /\ ~AgentRestarts]_vars => <>[](shown = Picture)

\* No handler and no spawned connect hangs: a connection's goroutine ends even
\* if its client has long gone, and so does a connect nobody waits for.
HandlersEnd ==
    /\ \A c \in Clients : at[c] # "waiting" ~> at[c] = "waiting"
    /\ \A g \in Spawned : g \in ready ~> g \notin ready /\ call[g] = "none"
=============================================================================
