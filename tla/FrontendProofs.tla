--------------------------- MODULE FrontendProofs ---------------------------
(***************************************************************************)
(* What holds of the front ends for any number of connections and spawned  *)
(* connects, and any texts.                                                *)
(***************************************************************************)
EXTENDS Frontend, TLAPS

\* The menu reads the controller, and a spawned connect never does.
LEMMA Goroutines ==
    /\ Menu \in Readers /\ Clients \subseteq Readers
    /\ Readers \subseteq Tasks /\ Spawned \subseteq Tasks
    /\ Menu \notin Clients
    /\ Readers \cap Spawned = {}
  BY GoroutinesDiffer DEF Readers, Tasks

\* A call that goes on moves its own task alone, to the authentication it
\* may retry, the end of one, or its return.
LEMMA CallsMoveOn ==
  ASSUME TypeOK, NEW t \in Tasks, Ctrl!Continue(t)
  PROVE  /\ call[t] # "none"
         /\ call' \in [Tasks -> Ctrl!Parts]
         /\ \A u \in Tasks : u # t => call'[u] = call[u]
         /\ call'[t] \in {"none", "retry", "auth", "ending"}
         /\ call[t] = "disconnect" => call'[t] = "none"
         /\ state' \in States /\ message' \in Texts \cup {"none"} /\ busy' \in BOOLEAN
  <1> USE DEF TypeOK, Ctrl!Enter, Ctrl!Parts, States
  <1>1. CASE Ctrl!Retry(t)
    BY <1>1 DEF Ctrl!Retry, Ctrl!Authenticate
  <1>2. CASE Ctrl!Outcome(t)
    BY <1>2, ReportsAssumption DEF Ctrl!Outcome, HelperStates
  <1>3. CASE Ctrl!EndAuth(t)
    BY <1>3 DEF Ctrl!EndAuth
  <1>4. CASE Ctrl!DisconnectEnds(t)
    BY <1>4 DEF Ctrl!DisconnectEnds
  <1>5. CASE Ctrl!RefreshEnds(t)
    <2>1. CASE Ctrl!Observe
      BY <1>5, <2>1, ReportsAssumption DEF Ctrl!RefreshEnds, Ctrl!Observe, Ctrl!Lively, HelperStates
    <2>2. CASE UNCHANGED <<state, message>>
      BY <1>5, <2>2 DEF Ctrl!RefreshEnds
    <2> QED
      BY <1>5, <2>1, <2>2 DEF Ctrl!RefreshEnds
  <1> QED
    BY <1>1, <1>2, <1>3, <1>4, <1>5 DEF Ctrl!Continue

\* A call that begins moves its own task alone, from where it was in no call.
LEMMA CallsBegin ==
  ASSUME TypeOK, NEW t \in Tasks,
         Ctrl!Connect(t) \/ Ctrl!Refresh(t) \/ Ctrl!Disconnect(t)
  PROVE  /\ call[t] = "none"
         /\ call' \in [Tasks -> Ctrl!Parts]
         /\ \A u \in Tasks : u # t => call'[u] = call[u]
         /\ state' \in States /\ message' \in Texts \cup {"none"} /\ busy' \in BOOLEAN
         /\ Ctrl!Connect(t) => call'[t] = "auth"
         /\ Ctrl!Refresh(t) => call'[t] = "refresh"
         /\ Ctrl!Disconnect(t) => call'[t] = "disconnect"
  <1> USE DEF TypeOK, Ctrl!Enter, Ctrl!Parts, States
  <1>1. CASE Ctrl!Connect(t)
    BY <1>1 DEF Ctrl!Connect, Ctrl!Authenticate, Ctrl!Refresh, Ctrl!Disconnect, Ctrl!Begin
  <1>2. CASE Ctrl!Refresh(t)
    BY <1>2 DEF Ctrl!Connect, Ctrl!Authenticate, Ctrl!Refresh, Ctrl!Disconnect, Ctrl!Begin
  <1>3. CASE Ctrl!Disconnect(t)
    BY <1>3 DEF Ctrl!Connect, Ctrl!Authenticate, Ctrl!Refresh, Ctrl!Disconnect, Ctrl!Begin
  <1> QED
    BY <1>1, <1>2, <1>3

\* The steps of a front end, one by one.
LEMMA Steps ==
  ASSUME Next
  PROVE  /\ Watches
         /\ \/ \E command \in Commands : Picks(command)
            \/ \E c \in Clients : \/ \E command \in Commands : Accepts(c, command)
                                  \/ Spawns(c) \/ Answers(c)
            \/ \E g \in Spawned : SpawnedCalls(g)
            \/ \E r \in Readers : Calls(r) \/ ReadsState(r)
            \/ \E t \in Tasks : CallGoesOn(t)
            \/ Shows
            \/ AgentRestarts
  BY DEF Next, MenuRuns, HandlerRuns, SpawnedRuns, Commands, Readers, Tasks

\* The invariant holds of an agent that starts.
LEMMA StartsWell == Init => FInv
  <1> SUFFICES ASSUME Init PROVE FInv
    OBVIOUS
  <1> USE DEF Init, Start, Ctrl!Init
  <1>1. TypeOK
    BY Goroutines DEF TypeOK, Ctrl!Parts, States, NoState, Phases, Blank
  <1>2. CallsAreRequests
    BY Goroutines DEF CallsAreRequests
  <1>3. CalmIsCurrent
    BY Goroutines DEF CalmIsCurrent
  <1>4. ShownIsCurrent
    BY Goroutines DEF ShownIsCurrent
  <1> QED
    BY <1>1, <1>2, <1>3, <1>4 DEF FInv

LEMMA TypesKept ==
  ASSUME FInv, Next
  PROVE  TypeOK'
  <1> USE Goroutines DEF Phases, Commands, fvars, cvars
  <1> TypeOK /\ CallsAreRequests
    BY DEF FInv
  <1>1. calm' \in [Readers -> BOOLEAN]
    BY Steps DEF Watches
  <1>2. ASSUME NEW command \in Commands, NEW r \in Readers, Picks(command) \/ Accepts(r, command)
        PROVE  TypeOK'
    BY <1>1, <1>2 DEF Picks, Accepts, TypeOK
  <1>3. ASSUME NEW c \in Clients, Spawns(c)
        PROVE  TypeOK'
    BY <1>1, <1>3 DEF Spawns, TypeOK
  <1>4. ASSUME NEW g \in Spawned, SpawnedCalls(g)
        PROVE  TypeOK'
    <2>1. Ctrl!Connect(g) \/ UNCHANGED cvars
      BY <1>4 DEF SpawnedCalls
    <2> QED
      BY <1>1, <1>4, <2>1, CallsBegin DEF SpawnedCalls, TypeOK
  <1>5. ASSUME NEW r \in Readers, Calls(r)
        PROVE  TypeOK'
    <2>1. Ctrl!Connect(r) \/ Ctrl!Refresh(r) \/ Ctrl!Disconnect(r) \/ UNCHANGED cvars
      BY <1>5 DEF Calls
    <2>2. /\ call' \in [Tasks -> Ctrl!Parts]
          /\ state' \in States /\ message' \in Texts \cup {"none"} /\ busy' \in BOOLEAN
      BY <2>1, CallsBegin DEF TypeOK
    <2>3. /\ at[r] = "calling" /\ at' = [at EXCEPT ![r] = "called"]
          /\ UNCHANGED <<request, seen, shown, ready>>
      BY <1>5 DEF Calls
    <2> QED
      BY <1>1, <2>2, <2>3 DEF TypeOK
  <1>6. ASSUME NEW r \in Readers, ReadsState(r)
        PROVE  TypeOK'
    BY <1>1, <1>6 DEF ReadsState, TypeOK, States, NoState
  <1>7. ASSUME NEW t \in Tasks, CallGoesOn(t)
        PROVE  TypeOK'
    BY <1>1, <1>7, CallsMoveOn DEF CallGoesOn, TypeOK
  <1>8. CASE Shows
    BY <1>1, <1>8 DEF Shows, Finish, TypeOK
  <1>9. ASSUME NEW c \in Clients, Answers(c)
        PROVE  TypeOK'
    BY <1>1, <1>9 DEF Answers, Finish, TypeOK
  <1>10. CASE AgentRestarts
    BY <1>1, <1>10 DEF AgentRestarts, Start, Ctrl!Restart, TypeOK, Ctrl!Parts, States, NoState, Blank
  <1> QED
    BY Steps, <1>2, <1>3, <1>4, <1>5, <1>6, <1>7, <1>8, <1>9, <1>10

\* Only a reader's own request makes it call, and it waits for the return.
LEMMA RequestsKept ==
  ASSUME FInv, Next
  PROVE  CallsAreRequests'
  <1> USE Goroutines DEF Commands, fvars, cvars
  <1> TypeOK /\ CallsAreRequests
    BY DEF FInv
  <1>1. ASSUME NEW command \in Commands, NEW r \in Readers, Picks(command) \/ Accepts(r, command)
        PROVE  CallsAreRequests'
    BY <1>1 DEF Picks, Accepts, TypeOK, CallsAreRequests
  <1>2. ASSUME NEW c \in Clients, Spawns(c)
        PROVE  CallsAreRequests'
    BY <1>2 DEF Spawns, TypeOK, CallsAreRequests
  <1>3. ASSUME NEW g \in Spawned, SpawnedCalls(g)
        PROVE  CallsAreRequests'
    <2>1. Ctrl!Connect(g) \/ UNCHANGED cvars
      BY <1>3 DEF SpawnedCalls
    <2>2. \A r \in Readers : call'[r] = call[r]
      BY <2>1, CallsBegin
    <2> QED
      BY <1>3, <2>2 DEF SpawnedCalls, CallsAreRequests
  <1>4. ASSUME NEW r \in Readers, Calls(r)
        PROVE  CallsAreRequests'
    <2>1. /\ at[r] = "calling" /\ at' = [at EXCEPT ![r] = "called"]
          /\ request' = request
      BY <1>4 DEF Calls
    <2>2. \A u \in Tasks : u # r => call'[u] = call[u]
      BY <1>4, CallsBegin DEF Calls
    <2>3. call[r] = "none"
      BY <2>1 DEF CallsAreRequests
    <2>4. r \in Clients /\ call'[r] # "none" =>
              request[r] = (IF call'[r] = "disconnect" THEN "disconnect" ELSE "status")
      BY <1>4, <2>3, CallsBegin DEF Calls
    <2> QED
      BY <2>1, <2>2, <2>4 DEF CallsAreRequests, TypeOK
  <1>5. ASSUME NEW r \in Readers, ReadsState(r)
        PROVE  CallsAreRequests'
    BY <1>5 DEF ReadsState, TypeOK, CallsAreRequests
  <1>6. ASSUME NEW t \in Tasks, CallGoesOn(t)
        PROVE  CallsAreRequests'
    BY <1>6, CallsMoveOn DEF CallGoesOn, CallsAreRequests
  <1>7. CASE Shows
    BY <1>7 DEF Shows, Finish, TypeOK, CallsAreRequests
  <1>8. ASSUME NEW c \in Clients, Answers(c)
        PROVE  CallsAreRequests'
    BY <1>8 DEF Answers, Finish, TypeOK, CallsAreRequests
  <1>9. CASE AgentRestarts
    BY <1>9 DEF AgentRestarts, Ctrl!Restart, CallsAreRequests
  <1> QED
    BY Steps, <1>1, <1>2, <1>3, <1>4, <1>5, <1>6, <1>7, <1>8, <1>9

\* A reader that is in no call gets into one by Calls alone, and only Calls, a
\* pick or an accepted request have to do with "calling".
LEMMA OutsideCalls ==
  ASSUME FInv, Next, NEW r \in Readers, call[r] = "none", at[r] # "calling"
  PROVE  call'[r] = "none"
  <1> USE Goroutines DEF cvars
  <1> TypeOK
    BY DEF FInv
  <1>1. ASSUME NEW g \in Spawned, SpawnedCalls(g)
        PROVE  call'[r] = "none"
    BY <1>1, CallsBegin DEF SpawnedCalls
  <1>2. ASSUME NEW u \in Readers, Calls(u)
        PROVE  call'[r] = "none"
    BY <1>2, CallsBegin DEF Calls
  <1>3. ASSUME NEW t \in Tasks, CallGoesOn(t)
        PROVE  call'[r] = "none"
    BY <1>3, CallsMoveOn DEF CallGoesOn
  <1>4. CASE AgentRestarts
    BY <1>4 DEF AgentRestarts, Ctrl!Restart
  <1> QED
    BY Steps, <1>1, <1>2, <1>3, <1>4
       DEF Picks, Accepts, Spawns, Answers, ReadsState, Shows

\* Where a reader can get to "reading", and with what.
LEMMA ReadsTheState ==
  ASSUME FInv, Next, NEW r \in Readers, at'[r] = "reading"
  PROVE  \/ at[r] = "reading" /\ seen'[r] = seen[r]
         \/ at[r] = "called" /\ call[r] = "none" /\ seen'[r] = state
  <1> USE Goroutines DEF fvars, TypeOK
  <1> TypeOK
    BY DEF FInv
  <1>1. ASSUME NEW u \in Readers, NEW command \in Commands,
               Picks(command) \/ Accepts(u, command) \/ Calls(u) \/ ReadsState(u)
        PROVE  \/ at[r] = "reading" /\ seen'[r] = seen[r]
               \/ at[r] = "called" /\ call[r] = "none" /\ seen'[r] = state
    BY <1>1 DEF Picks, Accepts, Calls, ReadsState
  <1>2. ASSUME NEW c \in Clients, Spawns(c) \/ Answers(c)
        PROVE  at[r] = "reading" /\ seen'[r] = seen[r]
    BY <1>2 DEF Spawns, Answers, Finish
  <1>3. CASE Shows
    BY <1>3 DEF Shows, Finish
  <1>4. CASE AgentRestarts
    BY <1>4 DEF AgentRestarts, Start
  <1>5. ASSUME NEW g \in Spawned, SpawnedCalls(g)
        PROVE  at[r] = "reading" /\ seen'[r] = seen[r]
    BY <1>5 DEF SpawnedCalls
  <1>6. ASSUME NEW t \in Tasks, CallGoesOn(t)
        PROVE  at[r] = "reading" /\ seen'[r] = seen[r]
    BY <1>6 DEF CallGoesOn
  <1> QED
    BY Steps, <1>1, <1>2, <1>3, <1>4, <1>5, <1>6 DEF Commands

\* A reader begins to call only from where it waits.
LEMMA CallsFromWaiting ==
  ASSUME FInv, Next, NEW r \in Readers, at'[r] = "calling"
  PROVE  at[r] \in {"waiting", "calling"}
  <1> USE Goroutines DEF fvars, TypeOK
  <1> TypeOK
    BY DEF FInv
  <1>1. ASSUME NEW u \in Readers, NEW command \in Commands,
               Picks(command) \/ Accepts(u, command) \/ Calls(u) \/ ReadsState(u)
        PROVE  at[r] \in {"waiting", "calling"}
    BY <1>1 DEF Picks, Accepts, Calls, ReadsState
  <1>2. ASSUME NEW c \in Clients, Spawns(c) \/ Answers(c)
        PROVE  at[r] = "calling"
    BY <1>2 DEF Spawns, Answers, Finish
  <1>3. CASE Shows
    BY <1>3 DEF Shows, Finish
  <1>4. CASE AgentRestarts
    BY <1>4 DEF AgentRestarts, Start
  <1>5. ASSUME NEW g \in Spawned, SpawnedCalls(g)
        PROVE  at[r] = "calling"
    BY <1>5 DEF SpawnedCalls
  <1>6. ASSUME NEW t \in Tasks, CallGoesOn(t)
        PROVE  at[r] = "calling"
    BY <1>6 DEF CallGoesOn
  <1> QED
    BY Steps, <1>1, <1>2, <1>3, <1>4, <1>5, <1>6 DEF Commands

\* The loop gets back to waiting by rendering, and waits with the display as is.
LEMMA WaitsAfterRender ==
  ASSUME FInv, Next, at'[Menu] = "waiting"
  PROVE  Shows \/ (at[Menu] = "waiting" /\ shown' = shown)
  <1> USE Goroutines DEF fvars, TypeOK
  <1> TypeOK
    BY DEF FInv
  <1>1. ASSUME NEW u \in Readers, NEW command \in Commands,
               Picks(command) \/ (u # Menu /\ Accepts(u, command)) \/ Calls(u) \/ ReadsState(u)
        PROVE  at[Menu] = "waiting" /\ shown' = shown
    BY <1>1 DEF Picks, Accepts, Calls, ReadsState
  <1>2. ASSUME NEW c \in Clients, Spawns(c) \/ Answers(c)
        PROVE  at[Menu] = "waiting" /\ shown' = shown
    BY <1>2 DEF Spawns, Answers, Finish
  <1>3. CASE AgentRestarts
    BY <1>3 DEF AgentRestarts, Start
  <1>4. ASSUME NEW g \in Spawned, SpawnedCalls(g)
        PROVE  at[Menu] = "waiting" /\ shown' = shown
    BY <1>4 DEF SpawnedCalls
  <1>5. ASSUME NEW t \in Tasks, CallGoesOn(t)
        PROVE  at[Menu] = "waiting" /\ shown' = shown
    BY <1>5 DEF CallGoesOn
  <1> QED
    BY Steps, <1>1, <1>2, <1>3, <1>4, <1>5 DEF Commands

\* A reader is calm after a step because its call has just returned, or because
\* it was calm and nothing it can see has changed.
LEMMA CalmKept ==
  ASSUME FInv, Next
  PROVE  CalmIsCurrent'
  <1> SUFFICES ASSUME NEW r \in Readers, calm'[r]
               PROVE  /\ call'[r] = "none" /\ at'[r] # "calling"
                      /\ at'[r] = "reading" => seen'[r] = state'
    BY DEF CalmIsCurrent
  <1>1. \/ Returns(r)
        \/ /\ calm[r] /\ UNCHANGED Picture
           /\ at'[r] \in {"called", "reading"} \/ (r = Menu /\ at'[r] = "waiting")
    BY Steps DEF Watches
  <1>2. CASE Returns(r)
    <2>1. /\ call'[r] = "none"
          /\ \/ call[r] # "none" /\ at[r] = "called"
             \/ at[r] = "calling" /\ at'[r] # "calling"
      BY <1>2 DEF Returns, FInv, CallsAreRequests
    <2>2. at'[r] # "calling"
      BY <2>1, CallsFromWaiting
    <2>3. at'[r] # "reading"
      BY <2>1, ReadsTheState
    <2> QED
      BY <2>1, <2>2, <2>3
  <1>3. CASE calm[r] /\ UNCHANGED Picture /\ at'[r] \in {"called", "reading", "waiting"}
    <2>1. /\ call[r] = "none" /\ at[r] # "calling"
          /\ at[r] = "reading" => seen[r] = state
      BY <1>3 DEF FInv, CalmIsCurrent
    <2>2. call'[r] = "none"
      BY <2>1, OutsideCalls
    <2>3. at'[r] = "reading" => seen'[r] = state'
      BY <1>3, <2>1, ReadsTheState DEF Picture
    <2> QED
      BY <1>3, <2>2, <2>3
  <1> QED
    BY <1>1, <1>2, <1>3

\* The display is behind only if the controller has moved since the loop's last
\* call returned.
LEMMA DisplayKept ==
  ASSUME FInv, Next
  PROVE  ShownIsCurrent'
  <1> USE Goroutines
  <1> SUFFICES ASSUME at'[Menu] = "waiting", calm'[Menu]
               PROVE  shown' = Picture'
    BY DEF ShownIsCurrent
  <1>1. Shows \/ (at[Menu] = "waiting" /\ shown' = shown)
    BY WaitsAfterRender
  <1>2. at[Menu] \in {"waiting", "reading"}
    BY <1>1 DEF Shows
  <1>3. ~Returns(Menu)
    BY <1>2 DEF Returns, FInv, CallsAreRequests
  <1>4. calm[Menu] /\ UNCHANGED Picture
    BY <1>3, Steps DEF Watches
  <1>5. CASE Shows
    <2>1. seen[Menu] = state
      BY <1>4, <1>5 DEF Shows, FInv, CalmIsCurrent
    <2> QED
      BY <1>4, <1>5, <2>1 DEF Shows, Picture
  <1>6. CASE at[Menu] = "waiting" /\ shown' = shown
    BY <1>4, <1>6 DEF FInv, ShownIsCurrent
  <1> QED
    BY <1>1, <1>5, <1>6

LEMMA InvariantKept ==
  ASSUME FInv, [Next]_vars
  PROVE  FInv'
  <1>1. CASE Next
    BY <1>1, TypesKept, RequestsKept, CalmKept, DisplayKept DEF FInv
  <1>2. CASE UNCHANGED vars
    BY <1>2 DEF vars, FInv, TypeOK, CallsAreRequests, CalmIsCurrent, ShownIsCurrent, Picture
  <1> QED
    BY <1>1, <1>2

LEMMA Invariance == Spec => []FInv
  BY StartsWell, InvariantKept, PTL DEF Spec

-----------------------------------------------------------------------------
\* The readers' variables keep their types, and who waits has no request.
THEOREM TypeCorrectness == Spec => []TypeOK
  <1>1. FInv => TypeOK
    BY DEF FInv
  <1> QED
    BY <1>1, Invariance, PTL

\* The menu of an idle loop shows the controller's state and message, unless they
\* have changed since the loop's last call returned.
THEOREM DisplayIsCurrent == Spec => []ShownIsCurrent
  <1>1. FInv => ShownIsCurrent
    BY DEF FInv
  <1> QED
    BY <1>1, Invariance, PTL

\* However many connections and spawned connects there are, a connection's own
\* goroutine authenticates only for a status request.
THEOREM OnlyStatusWaits == Spec => []OnlyStatusLasts
  <1>1. FInv => OnlyStatusLasts
    BY Goroutines DEF FInv, CallsAreRequests, OnlyStatusLasts
  <1> QED
    BY <1>1, Invariance, PTL

\* An answer written while nothing has changed since the call returned carries
\* the controller's state.
THEOREM AnswersDescribeTheEnd == Spec => AnswersAreCurrent
  <1>1. FInv /\ [Next]_vars =>
            [ \A c \in Clients :
                  Answers(c) /\ request[c] # "connect" /\ calm[c] => seen[c] = state ]_vars
    BY Goroutines DEF FInv, CalmIsCurrent, Answers
  <1> QED
    BY <1>1, Invariance, PTL DEF Spec, AnswersAreCurrent
=============================================================================
