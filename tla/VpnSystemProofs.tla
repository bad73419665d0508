--------------------------- MODULE VpnSystemProofs ---------------------------
(***************************************************************************)
(* The agent joined to the helper's service is a behaviour of Controller:  *)
(* the helper's answers are among those Controller allows for, whenever    *)
(* they are given and whether or not they arrive.  So the theorems of      *)
(* ControllerProofs hold of the joined system.                             *)
(***************************************************************************)
EXTENDS VpnSystem, TLAPS

\* What the answers depend on: the helper reports a state of its own, and not
\* "idle" once it has a tunnel.
HelperInv ==
    /\ report \in HelperStates
    /\ active => report # "idle"

\* The helper's own steps and its handling of requests keep HelperInv.
LEMMA HelperInvKept ==
  ASSUME HelperInv, [Next]_vars
  PROVE  HelperInv'
  <1> USE DEF HelperInv, HelperStates
  <1>1. CASE UNCHANGED vars
    BY <1>1 DEF vars
  <1>2. CASE AgentMoves
    BY <1>2 DEF AgentMoves, hvars
  <1>3. CASE HelperMoves
    BY <1>3 DEF HelperMoves, LineStates, Helper!Start, Helper!TunnelEnds, Helper!Clear, Helper!Vanish,
                Helper!Line
  <1>4. ASSUME NEW t \in Tasks, Handle(t) \/ CallFails(t)
        PROVE  HelperInv'
    BY <1>4 DEF Handle, HandleStatus, HandleDisconnect, AcceptConnect, RefuseConnect,
                CallFails, hvars, Helper!HangUp, Helper!Accept
  <1>5. CASE AgentRestarts \/ HandleLate
    BY <1>5 DEF AgentRestarts, HandleLate, hvars, Helper!HangUp, Helper!Accept
  <1> QED
    BY <1>1, <1>2, <1>3, <1>4, <1>5 DEF Next

\* Every answer of the helper is one Controller expects at that point.
LEMMA AnswerIsExpected ==
  ASSUME HelperInv, NEW t \in Tasks, Handle(t)
  PROVE  Agent!HelperAnswers(t) \/ Agent!CallFails(t)
  <1> USE DEF Agent!HelperAnswers, Agent!CallFails, Agent!Answers, Agent!Calling, Agent!Ok,
              Agent!Rejected, Agent!Lost, Agent!NoState, Answer, Ok, Rejected, Lost, NoState
  <1>1. CASE HandleStatus(t)
    BY <1>1 DEF HandleStatus, HelperInv, Agent!StatusAnswers, Agent!HelperStates, HelperStates
  <1>2. CASE HandleDisconnect(t)
    BY <1>2 DEF HandleDisconnect, Agent!DisconnectAnswers
  <1>3. CASE AcceptConnect(t)
    BY <1>3 DEF AcceptConnect, Agent!ConnectAnswers
  <1>4. CASE RefuseConnect(t)
    <2>1. Rejected(report) \in Agent!ConnectAnswers \/ ~active
      BY DEF HelperInv, Agent!ConnectAnswers, Agent!HelperStates, HelperStates
    <2>2. Rejected("disconnected") \in Agent!ConnectAnswers
      BY DEF Agent!ConnectAnswers, Agent!HelperStates
    <2> QED
      BY <1>4, <2>1, <2>2 DEF RefuseConnect
  <1> QED
    BY <1>1, <1>2, <1>3, <1>4 DEF Handle

\* The joined system implements the controller's specification.
THEOREM Composition == Spec => ImplementsController
  <1>1. Init => Agent!Init /\ HelperInv
    BY DEF Init, Helper!Init, HelperInv, HelperStates
  <1>2. HelperInv /\ [Next]_vars => HelperInv'
    BY HelperInvKept
  <1>3. HelperInv /\ [Next]_vars => [Agent!Next]_(Agent!vars)
    <2> SUFFICES ASSUME HelperInv, [Next]_vars PROVE [Agent!Next]_(Agent!vars)
      OBVIOUS
    <2>1. CASE UNCHANGED vars
      BY <2>1 DEF vars, Agent!vars
    <2>2. CASE AgentMoves
      BY <2>2 DEF AgentMoves, Agent!Next
    <2>3. CASE HelperMoves
      BY <2>3 DEF HelperMoves, avars, Agent!vars
    <2>4. ASSUME NEW t \in Tasks, Handle(t) \/ CallFails(t)
          PROVE  Agent!Next
      BY <2>4, AnswerIsExpected DEF CallFails, Agent!Next
    <2>5. CASE AgentRestarts
      BY <2>5 DEF AgentRestarts, Agent!Next
    <2>6. CASE HandleLate
      BY <2>6 DEF HandleLate, avars, Agent!vars
    <2> QED
      BY <2>1, <2>2, <2>3, <2>4, <2>5, <2>6 DEF Next
  <1> QED
    BY <1>1, <1>2, <1>3, PTL DEF Spec, ImplementsController, Agent!Spec

-----------------------------------------------------------------------------
(* The theorems of ControllerProofs, carried over.  They are stated there  *)
(* of another instance of Controller, whose definitions spell the same     *)
(* formulas as those of Agent.                                             *)

Proved == INSTANCE ControllerProofs WITH stopped <- FALSE, drops <- 0, MaxDrops <- 1

LEMMA SameInit == Agent!Init => Proved!Init
  BY DEF Agent!Init, Proved!Init, Agent!NoReply, Proved!NoReply, Agent!NoState, Proved!NoState

LEMMA SameSteps == [Agent!Next]_(Agent!vars) => [Proved!Next]_(Proved!vars)
  <1> USE DEF
        Agent!NoState, Proved!NoState, Agent!States, Proved!States, Agent!HelperStates,
         Proved!HelperStates, Agent!NoReply, Proved!NoReply, Agent!Lost, Proved!Lost, Agent!Ok,
         Proved!Ok, Agent!Rejected, Proved!Rejected, Agent!NormalizeState,
         Proved!NormalizeState, Agent!ConnectAnswers, Proved!ConnectAnswers,
         Agent!DisconnectAnswers, Proved!DisconnectAnswers, Agent!StatusAnswers,
         Proved!StatusAnswers, Agent!Calling, Proved!Calling
  <1> QED
    BY DEF Agent!retry, Proved!retry, Agent!Goto, Proved!Goto, Agent!Return, Proved!Return,
         Agent!CoolingDown, Proved!CoolingDown, Agent!ResetRetry, Proved!ResetRetry,
         Agent!ScheduleBackoff, Proved!ScheduleBackoff, Agent!MayBegin, Proved!MayBegin,
         Agent!BeginAuth, Proved!BeginAuth, Agent!Connect, Proved!Connect, Agent!Reauth,
         Proved!Reauth, Agent!AuthFailsKeychain, Proved!AuthFailsKeychain, Agent!AuthFails,
         Proved!AuthFails, Agent!AuthSucceeds, Proved!AuthSucceeds, Agent!Outcome,
         Proved!Outcome, Agent!HandReturns, Proved!HandReturns, Agent!EndAuth, Proved!EndAuth,
         Agent!Disconnect, Proved!Disconnect, Agent!DisconnectReturns, Proved!DisconnectReturns,
         Agent!Live, Proved!Live, Agent!Down, Proved!Down, Agent!Reconcile, Proved!Reconcile,
         Agent!NoteTransition, Proved!NoteTransition, Agent!ReadyToReauth, Proved!ReadyToReauth,
         Agent!DropsAnswer, Proved!DropsAnswer, Agent!Refresh, Proved!Refresh,
         Agent!RefreshReturns, Proved!RefreshReturns, Agent!Continue, Proved!Continue,
         Agent!Answers, Proved!Answers, Agent!Reply, Proved!Reply, Agent!HelperAnswers,
         Proved!HelperAnswers, Agent!CallFails, Proved!CallFails, Agent!Tick, Proved!Tick,
         Agent!Restart, Proved!Restart, Agent!Next, Proved!Next, Agent!vars, Proved!vars

LEMMA SameSafety ==
  Proved!OneAuth /\ Proved!AuthenticatingIsBacked /\ Proved!CooldownFitsAttempts
  => Agent!OneAuth /\ Agent!AuthenticatingIsBacked /\ Agent!CooldownFitsAttempts
  BY DEF Agent!OneAuth, Proved!OneAuth, Agent!InAuth, Proved!InAuth,
         Agent!AuthenticatingIsBacked, Proved!AuthenticatingIsBacked,
         Agent!CooldownFitsAttempts, Proved!CooldownFitsAttempts

LEMMA SameCallersInit == Proved!Callers!Init => Agent!Callers!Init
  BY DEF Agent!Callers!Init, Proved!Callers!Init, Agent!Part, Proved!Part

LEMMA SameCallersSteps ==
  [Proved!Callers!Next]_(Proved!Callers!vars) => [Agent!Callers!Next]_(Agent!Callers!vars)
  <1> USE DEF Agent!Part, Proved!Part, Agent!Messages, Proved!Messages, Agent!States, Proved!States,
              Agent!HelperStates, Proved!HelperStates
  <1> QED
    BY DEF Agent!Callers!Init, Proved!Callers!Init, Agent!Callers!Next, Proved!Callers!Next,
         Agent!Callers!Connect, Proved!Callers!Connect, Agent!Callers!Refresh,
         Proved!Callers!Refresh, Agent!Callers!Disconnect, Proved!Callers!Disconnect,
         Agent!Callers!Continue, Proved!Callers!Continue, Agent!Callers!Restart,
         Proved!Callers!Restart, Agent!Callers!Begin, Proved!Callers!Begin, Agent!Callers!Enter,
         Proved!Callers!Enter, Agent!Callers!Authenticate, Proved!Callers!Authenticate,
         Agent!Callers!Refuses, Proved!Callers!Refuses, Agent!Callers!Retry,
         Proved!Callers!Retry, Agent!Callers!Outcome, Proved!Callers!Outcome,
         Agent!Callers!EndAuth, Proved!Callers!EndAuth, Agent!Callers!DisconnectEnds,
         Proved!Callers!DisconnectEnds, Agent!Callers!Lively, Proved!Callers!Lively,
         Agent!Callers!Observe, Proved!Callers!Observe, Agent!Callers!RefreshEnds,
         Proved!Callers!RefreshEnds, Agent!Callers!vars, Proved!Callers!vars

\* With a real helper at the other end, answers that get lost, requests handled
\* for callers that are gone and agents replaced at any point, the controller
\* still authenticates once at a time, "authenticating" still has a goroutine
\* behind it and the two retry fields agree (beginAuth, runAuth, Refresh).
THEOREM JoinedSafety ==
    ASSUME Agent!BackoffAssumption
    PROVE  Spec => []( /\ Agent!OneAuth
                       /\ Agent!AuthenticatingIsBacked
                       /\ Agent!CooldownFitsAttempts )
  <1>1. Proved!BackoffAssumption /\ Proved!MaxDropsAssumption
    BY DEF Agent!BackoffAssumption, Proved!BackoffAssumption, Proved!MaxDropsAssumption
  <1>2. /\ Proved!Spec => []Proved!OneAuth
        /\ Proved!Spec => []Proved!AuthenticatingIsBacked
        /\ Proved!Spec => []Proved!CooldownFitsAttempts
    BY <1>1, Proved!SingleFlight, Proved!NoGhostAuthentication, Proved!BackoffAgreement
  <1> QED
    BY <1>2, SameInit, SameSteps, SameSafety, Composition, PTL
       DEF ImplementsController, Agent!Spec, Proved!Spec

\* The joined system keeps what the menu and the agent server rely on: with the
\* helper's real answers too, state and message change only as Orchestrator says
\* (the interfaces of agent/server.go and menu/view.go).
THEOREM JoinedImplementation ==
    ASSUME Agent!BackoffAssumption
    PROVE  Spec => Agent!ImplementsOrchestrator
  <1>1. Proved!BackoffAssumption /\ Proved!MaxDropsAssumption
    BY DEF Agent!BackoffAssumption, Proved!BackoffAssumption, Proved!MaxDropsAssumption
  <1>2. Proved!Spec => Proved!ImplementsOrchestrator
    BY <1>1, Proved!Implementation
  <1> QED
    BY <1>2, SameInit, SameSteps, SameCallersInit, SameCallersSteps, Composition, PTL
       DEF ImplementsController, Agent!Spec, Proved!Spec, Agent!ImplementsOrchestrator,
           Proved!ImplementsOrchestrator, Agent!Callers!Spec, Proved!Callers!Spec
=============================================================================
