-------------------------- MODULE ControllerProofs --------------------------
(***************************************************************************)
(* What holds of the Controller for any number of goroutines and any       *)
(* backoff table, and what nextBackoff fills the table with for any base   *)
(* and any cap.                                                            *)
(***************************************************************************)
EXTENDS ControllerHistory, RetryBackoff, Integers, WellFoundedInduction, TLAPS

USE DEF Goto, Return, ResetRetry, retry, CoolingDown

\* The empty answer is one of the replies a task can hold.
LEMMA NoReplyIsReply == NoReply \in Replies /\ NoReply.state = NoState
  BY DEF NoReply, Replies

\* Every answer the environment may put in a task's hands is a well-formed
\* reply whose state the helper can really report (the Answers of DoTunnel).
LEMMA AnswersAreReplies ==
    ASSUME NEW l \in Calling, NEW r \in Answers(l) \cup {Lost}
    PROVE  /\ r \in Replies
           /\ r.state \in HelperStates \cup {NoState}
           /\ r # NoReply
  <1> DEFINE Good(x) == /\ x \in Replies
                        /\ x.state \in HelperStates \cup {NoState}
                        /\ x # NoReply
  <1>1. Good(Lost)
    BY DEF Replies, Lost, NoReply
  <1>2. ASSUME NEW s \in HelperStates PROVE Good(Ok(s)) /\ Good(Rejected(s))
    BY DEF Replies, Ok, Rejected, NoReply, HelperStates, States
  <1>3. Answers(l) \subseteq {Ok(s) : s \in HelperStates} \cup {Rejected(s) : s \in HelperStates}
    <2>1. CASE l = "handing"
      BY <2>1 DEF Answers, ConnectAnswers, HelperStates
    <2>2. CASE l = "disconnecting"
      BY <2>2 DEF Answers, DisconnectAnswers, HelperStates
    <2>3. CASE l = "refreshing"
      BY <2>3 DEF Answers, StatusAnswers
    <2> QED
      BY <2>1, <2>2, <2>3 DEF Calling
  <1> QED
    BY <1>1, <1>2, <1>3

\* reconcile yields a state of the machine, and never "authenticating": a
\* status answer cannot make the agent look as if it were authenticating.
LEMMA ReconcileRange ==
    ASSUME NEW c \in States, NEW h \in HelperStates \cup {NoState, "unknown"}
    PROVE  /\ Reconcile(c, h) \in States
           /\ Reconcile(c, h) # "authenticating"
  BY DEF Reconcile, Live, Down, States, HelperStates, NoState

\* scheduleBackoffLocked keeps the retry counter and the clock in range and
\* in agreement, whatever they were.
LEMMA BackoffFits ==
    ASSUME attempt \in 0..AttemptCap, ScheduleBackoff
    PROVE  /\ attempt' \in 1..AttemptCap
           /\ cooldown' \in 0..MaxCooldown
           /\ CooldownFitsAttempts'
  <1>1. attempt' \in 1..AttemptCap
    BY BackoffAssumption DEF ScheduleBackoff
  <1>2. cooldown' = Backoff[attempt'] /\ Backoff[attempt'] \in 1..MaxCooldown
    BY <1>1, BackoffAssumption DEF ScheduleBackoff
  <1> QED
    BY <1>1, <1>2, BackoffAssumption DEF CooldownFitsAttempts

\* The initial state of NewController satisfies the invariant.
LEMMA InitIInv == Init => IInv
  <1> SUFFICES ASSUME Init PROVE IInv
    OBVIOUS
  <1>1. TypeOK
    <2>1. state \in States /\ message \in Messages /\ "idle" \in PCs
      BY DEF Init, States, Messages, PCs
    <2>2. attempt \in 0..AttemptCap /\ cooldown \in 0..MaxCooldown
      BY BackoffAssumption DEF Init
    <2>3. authInFlight \in BOOLEAN /\ terminal \in BOOLEAN
      BY DEF Init
    <2> QED
      BY <2>1, <2>2, <2>3, NoReplyIsReply DEF Init, TypeOK
  <1>2. OneAuth
    BY DEF Init, OneAuth, InAuth
  <1>3. AuthenticatingIsBacked /\ CooldownFitsAttempts
    BY DEF Init, AuthenticatingIsBacked, CooldownFitsAttempts
  <1>4. RepliesAreHelpers
    BY DEF Init, RepliesAreHelpers, NoReply
  <1> QED
    BY <1>1, <1>2, <1>3, <1>4 DEF IInv

-----------------------------------------------------------------------------
(* One lemma per kind of step: each keeps the inductive invariant. *)

\* beginAuth, from Connect or from reauth: the caller enters the slot only
\* when it is free, so it is the slot's one occupant.
LEMMA BeginAuthKeeps ==
    ASSUME IInv, NEW t \in Tasks, NEW manual \in BOOLEAN,
           pc[t] \in {"idle", "reauth"}, BeginAuth(t, manual)
    PROVE  IInv'
  <1> USE DEF BeginAuth, MayBegin
  <1>1. TypeOK'
    <2>1. "authenticating" \in PCs /\ "authenticating" \in States /\ "none" \in Messages
      BY DEF PCs, InAuth, States, Messages
    <2>2. attempt' \in 0..AttemptCap /\ cooldown' \in 0..MaxCooldown
      BY BackoffAssumption DEF IInv, TypeOK
    <2>3. authInFlight' \in BOOLEAN /\ terminal' \in BOOLEAN
      BY DEF IInv, TypeOK
    <2>4. pc' \in [Tasks -> PCs]
      BY <2>1 DEF IInv, TypeOK
    <2> QED
      BY <2>1, <2>2, <2>3, <2>4 DEF IInv, TypeOK
  <1>2. OneAuth'
    BY DEF IInv, TypeOK, OneAuth, InAuth
  <1>3. AuthenticatingIsBacked'
    BY DEF IInv, TypeOK, AuthenticatingIsBacked
  <1>4. CooldownFitsAttempts' /\ RepliesAreHelpers'
    BY DEF IInv, CooldownFitsAttempts, RepliesAreHelpers
  <1> QED
    BY <1>1, <1>2, <1>3, <1>4 DEF IInv

\* The three outcomes of Authenticate and the lock section of handToHelper:
\* the task stays in the slot, and a state it leaves behind is a final one.
LEMMA OutcomeKeeps ==
    ASSUME IInv, NEW t \in Tasks, Outcome(t) \/ HandReturns(t)
    PROVE  IInv'
  <1>1. CASE AuthFailsKeychain(t)
    BY <1>1, BackoffAssumption
       DEF AuthFailsKeychain, IInv, TypeOK, OneAuth, AuthenticatingIsBacked,
           CooldownFitsAttempts, RepliesAreHelpers, States, Messages, PCs, InAuth
  <1>2. CASE AuthFails(t)
    <2>1. /\ attempt' \in 1..AttemptCap
          /\ cooldown' \in 0..MaxCooldown
          /\ CooldownFitsAttempts'
      BY <1>2, BackoffFits DEF AuthFails, IInv, TypeOK
    <2>2. TypeOK'
      BY <1>2, <2>1, BackoffAssumption
         DEF AuthFails, IInv, TypeOK, States, Messages, PCs, InAuth
    <2>3. OneAuth' /\ AuthenticatingIsBacked' /\ RepliesAreHelpers'
      BY <1>2 DEF AuthFails, IInv, TypeOK, OneAuth, AuthenticatingIsBacked,
                  RepliesAreHelpers, InAuth
    <2> QED
      BY <2>1, <2>2, <2>3 DEF IInv
  <1>3. CASE AuthSucceeds(t)
    BY <1>3
       DEF AuthSucceeds, IInv, TypeOK, OneAuth, AuthenticatingIsBacked,
           CooldownFitsAttempts, RepliesAreHelpers, PCs, InAuth, Calling
  <1>4. CASE HandReturns(t)
    <2> USE <1>4 DEF HandReturns
    <2>1. /\ attempt' \in 0..AttemptCap
          /\ cooldown' \in 0..MaxCooldown
          /\ CooldownFitsAttempts'
      BY BackoffFits, BackoffAssumption DEF IInv, TypeOK, CooldownFitsAttempts
    <2>2. state' \in States \ {"authenticating"}
      BY DEF IInv, RepliesAreHelpers, NormalizeState, HelperStates, NoState, States
    <2>3. TypeOK'
      BY <2>1, <2>2
         DEF IInv, TypeOK, Messages, PCs, InAuth, Replies, NoReply
    <2>4. OneAuth' /\ AuthenticatingIsBacked'
      BY <2>2 DEF IInv, TypeOK, OneAuth, AuthenticatingIsBacked, InAuth
    <2>5. RepliesAreHelpers'
      BY DEF IInv, TypeOK, RepliesAreHelpers, NoReply
    <2> QED
      BY <2>1, <2>3, <2>4, <2>5 DEF IInv
  <1> QED
    BY <1>1, <1>2, <1>3, <1>4 DEF Outcome

\* endAuth: the occupant, and no other task, leaves the slot and clears the flag.
LEMMA EndAuthKeeps ==
    ASSUME IInv, NEW t \in Tasks, EndAuth(t)
    PROVE  IInv'
  <1> USE DEF EndAuth
  <1>1. TypeOK' /\ CooldownFitsAttempts' /\ RepliesAreHelpers'
    BY DEF IInv, TypeOK, CooldownFitsAttempts, RepliesAreHelpers, PCs
  <1>2. OneAuth' /\ AuthenticatingIsBacked'
    BY DEF IInv, TypeOK, OneAuth, AuthenticatingIsBacked, InAuth
  <1> QED
    BY <1>1, <1>2 DEF IInv

\* Disconnect's lock section: it may run in the middle of an authentication,
\* whose slot it leaves alone.
LEMMA DisconnectKeeps ==
    ASSUME IInv, NEW t \in Tasks, DisconnectReturns(t)
    PROVE  IInv'
  <1> USE DEF DisconnectReturns
  <1>1. /\ state' \in States
        /\ state' = "authenticating" => state = "authenticating"
    BY DEF IInv, TypeOK, RepliesAreHelpers, NormalizeState, HelperStates, NoState, States
  <1>2. TypeOK' /\ CooldownFitsAttempts'
    <2>1. CooldownFitsAttempts' /\ attempt' \in 0..AttemptCap /\ cooldown' \in 0..MaxCooldown
      BY BackoffAssumption DEF CooldownFitsAttempts
    <2>2. pc' \in [Tasks -> PCs] /\ reply' \in [Tasks -> Replies] /\ message' \in Messages
      BY NoReplyIsReply DEF IInv, TypeOK, PCs, Messages
    <2> QED
      BY <1>1, <2>1, <2>2 DEF IInv, TypeOK
  <1>3. OneAuth' /\ AuthenticatingIsBacked'
    BY <1>1 DEF IInv, TypeOK, OneAuth, AuthenticatingIsBacked, InAuth
  <1>4. RepliesAreHelpers'
    BY DEF IInv, TypeOK, RepliesAreHelpers, NoReply
  <1> QED
    BY <1>2, <1>3, <1>4 DEF IInv

\* Refresh's lock section: dropped, or a transition of reconcile's.
LEMMA RefreshKeeps ==
    ASSUME IInv, NEW t \in Tasks, RefreshReturns(t)
    PROVE  IInv'
  <1> DEFINE seen == NormalizeState(reply[t].state, "unknown")
             next == Reconcile(state, seen)
  <1>1. pc[t] = "refreshing"
    BY DEF RefreshReturns
  <1>2. /\ reply' = [reply EXCEPT ![t] = NoReply]
        /\ \E l \in {"idle", "reauth"} : pc' = [pc EXCEPT ![t] = l]
        /\ UNCHANGED <<authInFlight, terminal>>
    BY DEF RefreshReturns
  <1>3. \/ UNCHANGED <<state, message, retry>>
        \/ state' = next /\ NoteTransition(state, next)
    BY DEF RefreshReturns
  <1>4. next \in States /\ next # "authenticating"
    BY ReconcileRange DEF IInv, TypeOK, RepliesAreHelpers, NormalizeState
  <1>5. /\ attempt' \in 0..AttemptCap
        /\ cooldown' \in 0..MaxCooldown
        /\ CooldownFitsAttempts'
        /\ message' \in Messages
    <2>1. \/ UNCHANGED <<message, retry>>
          \/ ResetRetry /\ message' \in Messages
          \/ UNCHANGED retry /\ message' \in Messages
          \/ ScheduleBackoff /\ message' \in Messages
      BY <1>3 DEF NoteTransition, Messages
    <2> QED
      BY <2>1, BackoffFits, BackoffAssumption DEF IInv, TypeOK, CooldownFitsAttempts
  <1>6. TypeOK'
    BY <1>2, <1>3, <1>4, <1>5 DEF IInv, TypeOK, PCs, Replies, NoReply
  <1>7. OneAuth' /\ AuthenticatingIsBacked'
    BY <1>1, <1>2, <1>3, <1>4
       DEF IInv, TypeOK, OneAuth, AuthenticatingIsBacked, InAuth
  <1>8. RepliesAreHelpers'
    BY <1>2 DEF IInv, TypeOK, RepliesAreHelpers, NoReply
  <1> QED
    BY <1>5, <1>6, <1>7, <1>8 DEF IInv

\* A task that enters a call, or gives up reauth, touches nothing but itself.
LEMMA MoveKeeps ==
    ASSUME IInv, NEW t \in Tasks, pc[t] \in {"idle", "reauth"},
           NEW l \in {"idle", "disconnecting", "refreshing"}, Goto(t, l),
           UNCHANGED <<state, message, authInFlight, terminal, retry, reply>>
    PROVE  IInv'
  BY DEF IInv, TypeOK, OneAuth, AuthenticatingIsBacked, CooldownFitsAttempts,
         RepliesAreHelpers, PCs, InAuth, Calling

\* An answer, or its loss, only fills the caller's hands.
LEMMA ReplyKeeps ==
    ASSUME IInv, NEW t \in Tasks, HelperAnswers(t) \/ CallFails(t)
    PROVE  IInv'
  <1>1. PICK r \in Replies : Reply(t, r) /\ r.state \in HelperStates \cup {NoState}
    BY AnswersAreReplies DEF HelperAnswers, CallFails, Calling, Reply
  <1>2. TypeOK' /\ RepliesAreHelpers'
    BY <1>1 DEF IInv, TypeOK, RepliesAreHelpers, Reply
  <1> QED
    BY <1>1, <1>2 DEF IInv, OneAuth, AuthenticatingIsBacked, CooldownFitsAttempts, Reply

\* The clock only runs down.
LEMMA TickKeeps == IInv /\ Tick => IInv'
  BY BackoffAssumption
     DEF Tick, IInv, TypeOK, OneAuth, AuthenticatingIsBacked,
         CooldownFitsAttempts, RepliesAreHelpers

\* A new agent begins as the first one did, whatever the last one was doing.
LEMMA RestartKeeps == Restart => IInv'
  <1> SUFFICES ASSUME Restart PROVE IInv'
    OBVIOUS
  <1>1. TypeOK'
    <2>1. "idle" \in States /\ "none" \in Messages /\ "idle" \in PCs
      BY DEF States, Messages, PCs
    <2>2. attempt' \in 0..AttemptCap /\ cooldown' \in 0..MaxCooldown
      BY BackoffAssumption DEF Restart
    <2>3. pc' \in [Tasks -> PCs] /\ reply' \in [Tasks -> Replies]
      BY <2>1, NoReplyIsReply DEF Restart
    <2> QED
      BY <2>1, <2>2, <2>3 DEF Restart, TypeOK
  <1>2. OneAuth' /\ AuthenticatingIsBacked'
    BY DEF Restart, OneAuth, AuthenticatingIsBacked, InAuth
  <1>3. CooldownFitsAttempts' /\ RepliesAreHelpers'
    BY NoReplyIsReply DEF Restart, CooldownFitsAttempts, RepliesAreHelpers
  <1> QED
    BY <1>1, <1>2, <1>3 DEF IInv

\* Every operation of the controller, and every step the helper takes on its behalf.
LEMMA NextKeeps == IInv /\ [Next]_vars => IInv'
  <1> SUFFICES ASSUME IInv, [Next]_vars PROVE IInv'
    OBVIOUS
  <1>1. ASSUME NEW t \in Tasks, Connect(t) PROVE IInv'
    BY <1>1, BeginAuthKeeps DEF Connect
  <1>2. ASSUME NEW t \in Tasks, Disconnect(t) \/ Refresh(t) PROVE IInv'
    BY <1>2, MoveKeeps DEF Disconnect, Refresh
  <1>3. ASSUME NEW t \in Tasks, Reauth(t) PROVE IInv'
    BY <1>3, BeginAuthKeeps, MoveKeeps DEF Reauth
  <1>4. ASSUME NEW t \in Tasks, Continue(t) PROVE IInv'
    BY <1>3, <1>4, OutcomeKeeps, EndAuthKeeps, DisconnectKeeps, RefreshKeeps
       DEF Continue
  <1>5. ASSUME NEW t \in Tasks, HelperAnswers(t) \/ CallFails(t) PROVE IInv'
    BY <1>5, ReplyKeeps
  <1>6. CASE UNCHANGED vars
    BY <1>6
       DEF vars, IInv, TypeOK, OneAuth, AuthenticatingIsBacked,
           CooldownFitsAttempts, RepliesAreHelpers
  <1> QED
    BY <1>1, <1>2, <1>4, <1>5, <1>6, TickKeeps, RestartKeeps DEF Next

-----------------------------------------------------------------------------
(* Theorems of the controller alone. *)

\* IInv holds in every reachable state of the controller.
THEOREM Invariance == Spec => []IInv
  BY InitIInv, NextKeeps, PTL DEF Spec

\* Type correctness.
THEOREM TypeCorrectness == Spec => []TypeOK
  <1>1. IInv => TypeOK
    BY DEF IInv
  <1> QED
    BY <1>1, Invariance, PTL

\* However many goroutines call the controller, at most one authentication is
\* in flight, and the flag says exactly whether one is.
THEOREM SingleFlight == Spec => []OneAuth
  <1>1. IInv => OneAuth
    BY DEF IInv
  <1> QED
    BY <1>1, Invariance, PTL

\* A state of "authenticating" always has an authentication behind it.
THEOREM NoGhostAuthentication == Spec => []AuthenticatingIsBacked
  <1>1. IInv => AuthenticatingIsBacked
    BY DEF IInv
  <1> QED
    BY <1>1, Invariance, PTL

\* The retry counter and the cooldown agree, for every backoff table.
THEOREM BackoffAgreement == Spec => []CooldownFitsAttempts
  <1>1. IInv => CooldownFitsAttempts
    BY DEF IInv
  <1> QED
    BY <1>1, Invariance, PTL

\* Only the authentication in flight and the user's disconnect change the
\* state while one is in flight; no poll does.
THEOREM PollsDoNotDisturb == Spec => AuthNotDisturbed
  <1> DEFINE Own == Restart \/ \E t \in Tasks : EndsAuth(t) \/ EndsDisconnect(t)
  <1>1. IInv /\ [Next]_vars => (authInFlight /\ state' # state => Own)
    <2> SUFFICES ASSUME IInv, [Next]_vars, authInFlight, state' # state PROVE Own
      OBVIOUS
    <2>1. ASSUME NEW t \in Tasks, BeginAuth(t, TRUE) \/ BeginAuth(t, FALSE) PROVE FALSE
      BY <2>1 DEF BeginAuth, MayBegin
    <2>2. ASSUME NEW t \in Tasks, Outcome(t) \/ HandReturns(t) PROVE Own
      BY <2>2 DEF Outcome, AuthFailsKeychain, AuthFails, AuthSucceeds, HandReturns,
                  IInv, TypeOK, InAuth, EndsAuth
    <2>3. ASSUME NEW t \in Tasks, DisconnectReturns(t) PROVE Own
      BY <2>3 DEF DisconnectReturns, EndsDisconnect, IInv, TypeOK
    <2>4. ASSUME NEW t \in Tasks, RefreshReturns(t) PROVE FALSE
      BY <2>4 DEF RefreshReturns, DropsAnswer
    <2>5. \/ \E t \in Tasks : \/ BeginAuth(t, TRUE) \/ BeginAuth(t, FALSE)
                              \/ Outcome(t) \/ HandReturns(t)
                              \/ DisconnectReturns(t) \/ RefreshReturns(t)
          \/ Restart
          \/ UNCHANGED state
      BY DEF Next, vars, Connect, Disconnect, Refresh, Continue, Reauth, EndAuth,
             HelperAnswers, CallFails, Reply, Tick
    <2> QED
      BY <2>1, <2>2, <2>3, <2>4, <2>5
  <1> QED
    BY <1>1, Invariance, PTL DEF Spec, AuthNotDisturbed

-----------------------------------------------------------------------------
(* The controller implements Orchestrator. *)

\* A task holds an answer only inside the round trip it is an answer to.
AnswersFit ==
    \A t \in Tasks :
        reply[t] # NoReply =>
            pc[t] \in Calling /\ reply[t] \in Answers(pc[t]) \cup {Lost}

\* Answers come while the caller waits, and are consumed when it goes on.
LEMMA AnswersFitStep == IInv /\ AnswersFit /\ [Next]_vars => AnswersFit'
  <1> SUFFICES ASSUME IInv, AnswersFit, [Next]_vars PROVE AnswersFit'
    OBVIOUS
  <1> USE DEF AnswersFit
  <1>1. ASSUME NEW t \in Tasks, NEW l, pc[t] \notin Calling, Goto(t, l), UNCHANGED reply
        PROVE  AnswersFit'
    BY <1>1 DEF IInv, TypeOK
  <1>2. ASSUME NEW t \in Tasks, NEW l, Return(t, l) PROVE AnswersFit'
    BY <1>2 DEF IInv, TypeOK
  <1>3. ASSUME NEW t \in Tasks, NEW r, Reply(t, r), r \in Answers(pc[t]) \cup {Lost}
        PROVE  AnswersFit'
    BY <1>3 DEF Reply, IInv, TypeOK
  <1>4. CASE UNCHANGED <<pc, reply>>
    BY <1>4
  <1>5. CASE Restart
    BY <1>5 DEF Restart
  <1>6. ASSUME NEW t \in Tasks, Connect(t) \/ Disconnect(t) \/ Refresh(t) \/ Reauth(t)
                              \/ Outcome(t) \/ EndAuth(t)
        PROVE  AnswersFit'
    <2>1. pc[t] \notin Calling
      BY <1>6 DEF Connect, Disconnect, Refresh, Reauth, Outcome, EndAuth, AuthFailsKeychain,
                  AuthFails, AuthSucceeds, Calling
    <2>2. UNCHANGED reply /\ \E l : Goto(t, l)
      BY <1>6 DEF Connect, Disconnect, Refresh, Reauth, Outcome, EndAuth, AuthFailsKeychain,
                  AuthFails, AuthSucceeds, BeginAuth
    <2> QED
      BY <1>1, <2>1, <2>2
  <1>7. ASSUME NEW t \in Tasks, HandReturns(t) \/ DisconnectReturns(t) \/ RefreshReturns(t)
        PROVE  \E l : Return(t, l)
    BY <1>7 DEF HandReturns, DisconnectReturns, RefreshReturns
  <1>8. ASSUME NEW t \in Tasks, HelperAnswers(t) \/ CallFails(t) PROVE AnswersFit'
    BY <1>3, <1>8 DEF HelperAnswers, CallFails
  <1>9. CASE UNCHANGED vars \/ Tick
    BY <1>4, <1>9 DEF vars, Tick
  <1> QED
    BY <1>2, <1>5, <1>6, <1>7, <1>8, <1>9 DEF Next, Continue

\* The mapping of program counters.
LEMMA Parts ==
    /\ Part("idle") = "none" /\ Part("refreshing") = "refresh" /\ Part("reauth") = "retry"
    /\ Part("disconnecting") = "disconnect" /\ Part("ending") = "ending"
    /\ Part("authenticating") = "auth" /\ Part("handing") = "auth"
  BY DEF Part

\* A move of the program counter is a move of the call it stands for.
LEMMA MoveIsEnter ==
    ASSUME TypeOK, NEW t \in Tasks, NEW l, Goto(t, l)
    PROVE  Callers!Enter(t, Part(l))
  BY DEF TypeOK, Callers!Enter

\* beginAuth, by whichever path, is Authenticate.
LEMMA BeginIsAuthenticate ==
    ASSUME TypeOK, NEW t \in Tasks, NEW manual \in BOOLEAN, BeginAuth(t, manual)
    PROVE  Callers!Authenticate(t)
  <1>1. Callers!Enter(t, "auth")
    BY MoveIsEnter, Parts DEF BeginAuth
  <1> QED
    BY <1>1 DEF BeginAuth, MayBegin, Callers!Authenticate, Callers!Refuses

\* The outcomes of Authenticate and of handToHelper are Outcome's, and a
\* cookie on its way to the helper is not seen.
LEMMA OutcomeIsOutcome ==
    ASSUME TypeOK, AnswersFit, NEW t \in Tasks, Outcome(t) \/ HandReturns(t)
    PROVE  Callers!Outcome(t) \/ UNCHANGED Callers!vars
  <1> DEFINE part == [u \in Tasks |-> Part(pc[u])]
  <1>1. ASSUME pc[t] \in {"authenticating", "handing"}, Goto(t, "ending")
        PROVE  part[t] = "auth" /\ Callers!Enter(t, "ending")
    BY <1>1, MoveIsEnter, Parts
  <1>2. CASE AuthFailsKeychain(t) \/ AuthFails(t)
    BY <1>1, <1>2 DEF AuthFailsKeychain, AuthFails, Messages, Callers!Outcome
  <1>3. CASE AuthSucceeds(t)
    <2>1. part' = part
      BY <1>3, Parts DEF AuthSucceeds, TypeOK
    <2> QED
      BY <1>3, <2>1 DEF AuthSucceeds, Callers!vars
  <1>4. CASE HandReturns(t)
    <2>1. part[t] = "auth" /\ Callers!Enter(t, "ending") /\ UNCHANGED authInFlight
      BY <1>1, <1>4 DEF HandReturns
    <2>2. reply[t] \in ConnectAnswers \cup {Lost}
      BY <1>4 DEF HandReturns, AnswersFit, Answers, NoReply
    <2>3. \/ state' = "disconnected" /\ message' = "unreachable"
          \/ state' \in HelperStates \ {"idle"} /\ message' = "refused"
          \/ state' = "connecting" /\ message' = "none"
      <3>1. CASE reply[t] = Lost
        <4>1. reply[t].kind = "lost"
          BY <3>1 DEF Lost
        <4> QED
          BY <1>4, <4>1 DEF HandReturns
      <3>2. CASE reply[t] = Ok("connecting")
        BY <1>4, <3>2 DEF HandReturns, Ok, NormalizeState, NoState
      <3>3. ASSUME NEW s \in HelperStates \ {"idle"}, reply[t] = Rejected(s)
            PROVE  state' = s /\ message' = "refused"
        <4>1. reply[t].kind = "rejected" /\ reply[t].state = s
          BY <3>3 DEF Rejected
        <4>2. NormalizeState(s, "disconnected") = s
          BY DEF NormalizeState, NoState, HelperStates
        <4> QED
          BY <1>4, <4>1, <4>2 DEF HandReturns
      <3> QED
        BY <2>2, <3>1, <3>2, <3>3 DEF ConnectAnswers
    <2> QED
      BY <2>1, <2>3 DEF Callers!Outcome, Messages
  <1> QED
    BY <1>2, <1>3, <1>4 DEF Outcome

\* The lock section of Disconnect.
LEMMA DisconnectIsDisconnect ==
    ASSUME TypeOK, AnswersFit, NEW t \in Tasks, DisconnectReturns(t)
    PROVE  Callers!DisconnectEnds(t)
  <1>1. [u \in Tasks |-> Part(pc[u])][t] = "disconnect" /\ Callers!Enter(t, "none")
    BY MoveIsEnter, Parts DEF DisconnectReturns
  <1>2. reply[t] \in DisconnectAnswers \cup {Lost}
    BY DEF DisconnectReturns, AnswersFit, Answers
  <1>3. CASE reply[t] = Lost
    BY <1>1, <1>3 DEF DisconnectReturns, Callers!DisconnectEnds, Lost, Messages
  <1>4. CASE reply[t] = Ok("disconnected")
    <2>1. state' = "disconnected" /\ message' = "none"
      BY <1>4 DEF DisconnectReturns, Ok, NormalizeState, NoState
    <2> QED
      BY <1>1, <2>1 DEF DisconnectReturns, Callers!DisconnectEnds
  <1> QED
    BY <1>2, <1>3, <1>4 DEF DisconnectAnswers

\* The lock section of Refresh, with and without a decision to retry.
LEMMA RefreshIsRefresh ==
    ASSUME TypeOK, AnswersFit, NEW t \in Tasks, RefreshReturns(t)
    PROVE  Callers!RefreshEnds(t)
  <1> DEFINE s    == reply[t].state
             next == Reconcile(state, s)
  <1>1. [u \in Tasks |-> Part(pc[u])][t] = "refresh" /\ UNCHANGED authInFlight
    BY Parts DEF RefreshReturns
  <1>2. CASE DropsAnswer(reply[t])
    BY <1>1, <1>2, MoveIsEnter, Parts DEF RefreshReturns, Callers!RefreshEnds
  <1>3. CASE ~DropsAnswer(reply[t])
    <2>1. s \in HelperStates
      BY <1>3 DEF RefreshReturns, AnswersFit, Answers, StatusAnswers, DropsAnswer, Ok, Lost
    <2>2. NormalizeState(s, "unknown") = s
      BY <2>1 DEF NormalizeState, HelperStates, NoState
    <2>3. state' = next /\ NoteTransition(state, next) /\ ~authInFlight
      BY <1>3, <2>2 DEF RefreshReturns, DropsAnswer
    <2>4. Callers!Observe
      BY <2>1, <2>3 DEF Callers!Observe, Callers!Lively, Reconcile, NoteTransition, Live, Down,
                        HelperStates, Messages
    <2>5. CASE ReadyToReauth(state, next)
      <3>1. state = "session_rejected" /\ UNCHANGED <<state, message>>
        BY <2>3, <2>5 DEF ReadyToReauth, NoteTransition
      <3>2. Callers!Enter(t, "retry")
        BY <1>3, <2>2, <2>5, MoveIsEnter, Parts DEF RefreshReturns
      <3> QED
        BY <1>1, <2>3, <3>1, <3>2 DEF Callers!RefreshEnds
    <2>6. CASE ~ReadyToReauth(state, next)
      <3>1. Callers!Enter(t, "none")
        BY <1>3, <2>2, <2>6, MoveIsEnter, Parts DEF RefreshReturns
      <3> QED
        BY <1>1, <2>3, <2>4, <3>1 DEF Callers!RefreshEnds
    <2> QED
      BY <2>5, <2>6
  <1> QED
    BY <1>2, <1>3

\* The controller is an Orchestrator: its callers may rely on that module.
THEOREM Implementation == Spec => ImplementsOrchestrator
  <1>1. Init => Callers!Init /\ AnswersFit
    BY Parts DEF Init, Callers!Init, AnswersFit
  <1>2. IInv /\ AnswersFit /\ [Next]_vars => [Callers!Next]_(Callers!vars)
    <2> SUFFICES ASSUME IInv, AnswersFit, [Next]_vars
                 PROVE  Callers!Next \/ UNCHANGED Callers!vars
      OBVIOUS
    <2>0. TypeOK
      BY DEF IInv
    <2> DEFINE part == [u \in Tasks |-> Part(pc[u])]
    <2>1. ASSUME NEW t \in Tasks, Connect(t) PROVE Callers!Connect(t)
      BY <2>0, <2>1, BeginIsAuthenticate, Parts DEF Connect, Callers!Connect
    <2>2. ASSUME NEW t \in Tasks, Disconnect(t) PROVE Callers!Disconnect(t)
      BY <2>0, <2>2, MoveIsEnter, Parts DEF Disconnect, Callers!Disconnect, Callers!Begin
    <2>3. ASSUME NEW t \in Tasks, Refresh(t) PROVE Callers!Refresh(t)
      BY <2>0, <2>3, MoveIsEnter, Parts DEF Refresh, Callers!Refresh, Callers!Begin
    <2>4. ASSUME NEW t \in Tasks, Reauth(t) PROVE Callers!Retry(t)
      <3>1. part[t] = "retry"
        BY <2>4, Parts DEF Reauth
      <3>2. CASE BeginAuth(t, FALSE)
        BY <2>0, <3>1, <3>2, BeginIsAuthenticate DEF Callers!Retry
      <3>3. CASE Goto(t, "idle") /\ UNCHANGED <<state, message, authInFlight>>
        BY <2>0, <3>1, <3>3, MoveIsEnter, Parts DEF Callers!Retry
      <3> QED
        BY <2>4, <3>2, <3>3 DEF Reauth
    <2>5. ASSUME NEW t \in Tasks, EndAuth(t) PROVE Callers!EndAuth(t)
      BY <2>0, <2>5, MoveIsEnter, Parts DEF EndAuth, Callers!EndAuth
    <2>6. ASSUME NEW t \in Tasks, Continue(t)
          PROVE  Callers!Continue(t) \/ UNCHANGED Callers!vars
      BY <2>0, <2>4, <2>5, <2>6, OutcomeIsOutcome, DisconnectIsDisconnect, RefreshIsRefresh
         DEF Continue, Callers!Continue
    <2>7. CASE Restart
      <3>1. part' = [u \in Tasks |-> "none"]
        BY <2>7, Parts DEF Restart
      <3> QED
        BY <2>7, <3>1 DEF Restart, Callers!Restart, Callers!Next
    <2>8. ASSUME UNCHANGED <<state, message, authInFlight, pc>> PROVE UNCHANGED Callers!vars
      BY <2>8 DEF Callers!vars
    <2>9. ASSUME NEW t \in Tasks, HelperAnswers(t) \/ CallFails(t) PROVE UNCHANGED Callers!vars
      BY <2>8, <2>9 DEF HelperAnswers, CallFails, Reply
    <2>10. CASE UNCHANGED vars \/ Tick
      BY <2>8, <2>10 DEF vars, Tick
    <2> QED
      BY <2>1, <2>2, <2>3, <2>6, <2>7, <2>9, <2>10 DEF Next, Callers!Next
  <1> QED
    BY <1>1, <1>2, AnswersFitStep, Invariance, PTL DEF Spec, ImplementsOrchestrator, Callers!Spec

-----------------------------------------------------------------------------
(* Theorems of the controller with its history. *)

\* The history variables do not constrain the controller.
LEMMA HistoryIsController == HSpec => Spec
  <1>1. HInit => Init
    BY DEF HInit
  <1>2. [HNext]_hvars => [Next]_vars
    BY DEF HNext, hvars, vars
  <1> QED
    BY <1>1, <1>2, PTL DEF HSpec, Spec

\* Unless the user has acted since, a keychain failure is still recorded in
\* the terminal flag: no other path clears it.
StoppedIsTerminal == stopped => terminal

LEMMA StoppedIsTerminalStep ==
    IInv /\ StoppedIsTerminal /\ [HNext]_hvars => StoppedIsTerminal'
  <1> SUFFICES ASSUME IInv, StoppedIsTerminal, HNext PROVE StoppedIsTerminal'
    BY DEF StoppedIsTerminal, hvars
  <1> USE DEF StoppedIsTerminal
  <1>1. CASE UserConnects \/ UserDisconnects \/ Restart
    BY <1>1 DEF HNext
  <1>2. CASE KeychainFails
    BY <1>2 DEF KeychainFails, AuthFailsKeychain
  <1>3. CASE ~UserConnects /\ ~UserDisconnects /\ ~Restart /\ ~KeychainFails
    <2>1. stopped' => stopped
      BY <1>3 DEF HNext
    <2>2. ASSUME NEW t \in Tasks, Connect(t) PROVE UserConnects
      BY <2>2 DEF Connect, BeginAuth, UserConnects, Starts, IInv, TypeOK
    <2>3. ASSUME NEW t \in Tasks, DisconnectReturns(t) PROVE UserDisconnects
      BY <2>3 DEF DisconnectReturns, UserDisconnects, EndsDisconnect, IInv, TypeOK
    <2>4. UNCHANGED terminal
      BY <1>3, <2>2, <2>3
         DEF HNext, Next, Disconnect, Refresh, Continue, Outcome, AuthFails,
             AuthSucceeds, HandReturns, EndAuth, Reauth, BeginAuth, RefreshReturns,
             HelperAnswers, CallFails, Reply, Tick, KeychainFails
    <2> QED
      BY <2>1, <2>4
  <1> QED
    BY <1>1, <1>2, <1>3

\* A keychain failure stops autonomous authentication until the user acts,
\* however many polls had already decided to re-authenticate.
THEOREM KeychainFailureIsTerminal == HSpec => KeychainFailureStops
  <1> DEFINE Stop == stopped => \A t \in Tasks : Starts(t) => pc[t] = "idle"
  <1>1. HInit => StoppedIsTerminal
    BY DEF HInit, StoppedIsTerminal
  <1>2. IInv /\ StoppedIsTerminal /\ [HNext]_hvars => Stop
    <2> SUFFICES ASSUME IInv, StoppedIsTerminal, [HNext]_hvars, stopped,
                        NEW t \in Tasks, Starts(t)
                 PROVE  pc[t] = "idle"
      OBVIOUS
    <2>1. terminal
      BY DEF StoppedIsTerminal
    <2>2. PICK u \in Tasks : Connect(u) \/ Reauth(u)
      BY DEF HNext, hvars, Next, Starts, Disconnect, Refresh, Continue, Outcome,
             AuthFailsKeychain, AuthFails, AuthSucceeds, HandReturns, EndAuth,
             DisconnectReturns, RefreshReturns, HelperAnswers, CallFails, Reply, Tick,
             Restart, IInv, TypeOK
    <2>3. ~Reauth(u)
      BY <2>1 DEF Reauth, BeginAuth, MayBegin, Starts, IInv, TypeOK
    <2> QED
      BY <2>2, <2>3 DEF Connect, BeginAuth, Starts, IInv, TypeOK
  <1> QED
    BY <1>1, <1>2, StoppedIsTerminalStep, Invariance, HistoryIsController, PTL
       DEF HSpec, KeychainFailureStops

\* The count of drops stays within its bound, beside well-typed variables.
THEOREM HTypeCorrectness == HSpec => []HTypeOK
  <1> DEFINE Counted == stopped \in BOOLEAN /\ drops \in 0..MaxDrops
  <1>1. HInit => Counted
    <2>1. 0 \in 0..MaxDrops
      BY MaxDropsAssumption
    <2> QED
      BY <2>1 DEF HInit
  <1>2. Counted /\ [HNext]_hvars => Counted'
    <2> SUFFICES ASSUME Counted, [HNext]_hvars PROVE Counted'
      OBVIOUS
    <2>1. CASE UNCHANGED hvars
      BY <2>1 DEF hvars
    <2>2. CASE HNext
      <3>1. stopped' \in BOOLEAN
        BY <2>2 DEF HNext
      <3>2. \/ drops' = 0
            \/ drops < MaxDrops /\ drops' = drops + 1
            \/ drops' = drops
        BY <2>2 DEF HNext
      <3> QED
        BY <3>1, <3>2, MaxDropsAssumption
    <2> QED
      BY <2>1, <2>2
  <1>3. Counted /\ TypeOK => HTypeOK
    BY DEF HTypeOK
  <1> QED
    BY <1>1, <1>2, <1>3, TypeCorrectness, HistoryIsController, PTL DEF HSpec

-----------------------------------------------------------------------------
(* The table: nextBackoff. *)

\* What holds of 1 and passes from each number to the next holds of all.
LEMMA Upwards ==
    ASSUME NEW I, 1 \in I, \A n \in Nat \ {0} : n \in I => n + 1 \in I
    PROVE  \A n \in Nat \ {0} : n \in I
  <1> DEFINE Out    == {n \in Nat \ {0} : n \notin I}
             Before == OpToRel(<, Nat)
  <1> SUFFICES ASSUME Out # {} PROVE FALSE
    OBVIOUS
  <1>1. PICK x \in Out : \A y \in Out : <<y, x>> \notin Before
    <2>1. Out \subseteq Nat /\ IsWellFoundedOn(Before, Nat)
      BY NatLessThanWellFounded
    <2> HIDE DEF Before, Out
    <2> QED
      BY <2>1, WFMin
  <1>2. x \in Nat \ {0} /\ x \notin I /\ x # 1
    BY <1>1
  <1>3. x - 1 \in Nat \ {0} /\ (x - 1) + 1 = x /\ x - 1 < x
    <2> HIDE DEF Out, Before
    <2> QED
      BY <1>2
  <1>4. x - 1 \in Out
    <2>1. x - 1 \notin I
      BY <1>2, <1>3
    <2> QED
      BY <1>3, <2>1
  <1>5. <<x - 1, x>> \in Before
    <2> HIDE DEF Out
    <2> DEFINE p == x - 1
    <2>1. p \in Nat /\ x \in Nat /\ p < x
      BY <1>2, <1>3
    <2> HIDE DEF p
    <2>2. <<p, x>> \in Before
      BY <2>1 DEF OpToRel
    <2> QED
      BY <2>2 DEF p
  <1> QED
    BY <1>1, <1>4, <1>5

\* A turn of nextBackoff's loop, and the values of its first n turns.
Turn(v, max) == IF v * 2 >= max THEN max ELSE v * 2

Turns(f, n, base, max) ==
    /\ f \in [1..n -> Nat]
    /\ f[1] = base
    /\ \A i \in 1..n : i # n => f[i + 1] = Turn(f[i], max)

LEMMA TurnsExist ==
    ASSUME NEW base \in Nat, NEW max \in Nat
    PROVE  \A n \in Nat \ {0} : \E f : Turns(f, n, base, max)
  <1> DEFINE I == {n \in Nat \ {0} : \E f : Turns(f, n, base, max)}
  <1>1. 1 \in I
    <2>1. Turns([i \in 1..1 |-> base], 1, base, max)
      BY DEF Turns
    <2> QED
      BY <2>1
  <1>2. ASSUME NEW n \in Nat \ {0}, n \in I PROVE n + 1 \in I
    <2>1. PICK f : Turns(f, n, base, max)
      BY <1>2
    <2> DEFINE g == [i \in 1..(n + 1) |-> IF i = n + 1 THEN Turn(f[n], max) ELSE f[i]]
    <2>2. /\ n \in 1..n /\ 1 \in 1..n /\ n + 1 # n /\ n + 1 \in Nat \ {0}
          /\ 1..n \subseteq 1..(n + 1) /\ 1 \in 1..(n + 1) /\ n + 1 \in 1..(n + 1) /\ 1 # n + 1
          /\ \A i \in 1..(n + 1) : i # n + 1 => i \in 1..n
          /\ \A i \in 1..n : i # n + 1 /\ i + 1 \in 1..(n + 1) /\ (i # n => i + 1 # n + 1)
      OBVIOUS
    <2>3. Turn(f[n], max) \in Nat
      BY <2>1, <2>2 DEF Turns, Turn
    <2>4. g \in [1..(n + 1) -> Nat]
      BY <2>1, <2>2, <2>3 DEF Turns
    <2>5. g[1] = base
      BY <2>1, <2>2 DEF Turns
    <2>6. ASSUME NEW i \in 1..(n + 1), i # n + 1 PROVE g[i + 1] = Turn(g[i], max)
      <3>1. i \in 1..n /\ i + 1 \in 1..(n + 1) /\ g[i] = f[i]
        BY <2>2, <2>6
      <3>2. CASE i = n
        BY <2>2, <3>1, <3>2
      <3>3. CASE i # n
        <4>1. g[i + 1] = f[i + 1]
          BY <2>2, <3>1, <3>3
        <4> QED
          BY <2>1, <3>1, <3>3, <4>1 DEF Turns
      <3> QED
        BY <3>2, <3>3
    <2> HIDE DEF g
    <2>7. Turns(g, n + 1, base, max)
      BY <2>4, <2>5, <2>6 DEF Turns
    <2> QED
      BY <2>2, <2>7
  <1> HIDE DEF I
  <1>3. \A n \in Nat \ {0} : n \in I
    BY <1>1, <1>2, Upwards
  <1> QED
    BY <1>3 DEF I

LEMMA TurnsAgree ==
    ASSUME NEW base \in Nat, NEW max \in Nat, NEW m \in Nat \ {0}, NEW n \in Nat \ {0}, m <= n,
           NEW f, NEW g, Turns(f, m, base, max), Turns(g, n, base, max)
    PROVE  f[m] = g[m]
  <1> DEFINE I == {i \in Nat \ {0} : i <= m => f[i] = g[i]}
  <1>1. 1 \in I
    BY DEF Turns
  <1>2. ASSUME NEW i \in Nat \ {0}, i \in I PROVE i + 1 \in I
    <2> SUFFICES ASSUME i + 1 <= m PROVE f[i + 1] = g[i + 1]
      OBVIOUS
    <2>1. i <= m /\ i \in 1..m /\ i # m /\ i \in 1..n /\ i # n
      OBVIOUS
    <2>2. f[i] = g[i]
      BY <1>2, <2>1
    <2> QED
      BY <2>1, <2>2 DEF Turns
  <1> HIDE DEF I
  <1>3. m \in I
    BY <1>1, <1>2, Upwards
  <1> QED
    BY <1>3 DEF I

\* The recursive function of RetryBackoff is there, and is what its equation says.
LEMMA DoubledMeans ==
    ASSUME NEW base \in Nat, NEW max \in Nat
    PROVE  LET d == Doubled(base, max) IN
           /\ d \in [Nat \ {0} -> Nat]
           /\ d[1] = base
           /\ \A n \in Nat \ {0} : d[n + 1] = Turn(d[n], max)
  <1> DEFINE Fits(d) == d = [i \in Nat \ {0} |->
                                IF i = 1 THEN base
                                ELSE IF d[i - 1] * 2 >= max THEN max ELSE d[i - 1] * 2]
             t(i) == CHOOSE f : Turns(f, i, base, max)
             F == [i \in Nat \ {0} |-> t(i)[i]]
  <1>1. Doubled(base, max) = CHOOSE d : Fits(d)
    BY DEF Doubled
  <1>2. \A i \in Nat \ {0} : Turns(t(i), i, base, max)
    BY TurnsExist
  <1> HIDE DEF t
  <1>3. ASSUME NEW i \in Nat \ {0}
        PROVE  F[i] = t(i)[i] /\ F[i] \in Nat
    <2>1. F[i] = t(i)[i] /\ i \in 1..i
      OBVIOUS
    <2>2. t(i) \in [1..i -> Nat]
      BY <1>2 DEF Turns
    <2> QED
      BY <2>1, <2>2
  <1>4. F[1] = base
    BY <1>2, <1>3 DEF Turns
  <1>5. ASSUME NEW i \in Nat \ {0}, i # 1 PROVE F[i] = Turn(F[i - 1], max)
    <2> HIDE DEF F
    <2>1. i - 1 \in Nat \ {0} /\ i - 1 <= i /\ i - 1 \in 1..i /\ i - 1 # i /\ (i - 1) + 1 = i
      BY <1>5
    <2>2. t(i - 1)[i - 1] = t(i)[i - 1]
      BY <1>2, <2>1, TurnsAgree
    <2>3. t(i)[(i - 1) + 1] = Turn(t(i)[i - 1], max)
      BY <1>2, <2>1 DEF Turns
    <2> QED
      BY <1>3, <2>1, <2>2, <2>3
  <1>6. Fits(F)
    <2> DEFINE G == [i \in Nat \ {0} |-> IF i = 1 THEN base
                       ELSE IF F[i - 1] * 2 >= max THEN max ELSE F[i - 1] * 2]
    <2>1. ASSUME NEW i \in Nat \ {0} PROVE F[i] = G[i]
      <3>1. CASE i = 1
        BY <1>4, <3>1
      <3>2. CASE i # 1
        <4> HIDE DEF F
        <4> QED
          BY <1>5, <3>2 DEF Turn
      <3> QED
        BY <3>1, <3>2
    <2>2. F = [i \in Nat \ {0} |-> F[i]] /\ G = [i \in Nat \ {0} |-> G[i]]
      OBVIOUS
    <2> HIDE DEF G
    <2>3. F = G
      BY <2>1, <2>2
    <2> QED
      BY <2>3 DEF G
  <1>7. PICK d : d = Doubled(base, max) /\ Fits(d)
    <2> HIDE DEF Fits, F
    <2> QED
      BY <1>1, <1>6
  <1>8. d[1] = base
    BY <1>7
  <1>9. ASSUME NEW n \in Nat \ {0} PROVE d[n + 1] = Turn(d[n], max)
    <2>1. n + 1 \in Nat \ {0} /\ n + 1 # 1 /\ (n + 1) - 1 = n
      OBVIOUS
    <2>2. d[n + 1] = IF d[(n + 1) - 1] * 2 >= max THEN max ELSE d[(n + 1) - 1] * 2
      BY <1>7, <2>1
    <2> QED
      BY <2>1, <2>2 DEF Turn
  <1>10. d \in [Nat \ {0} -> Nat]
    <2> DEFINE I == {i \in Nat \ {0} : d[i] \in Nat}
    <2>1. 1 \in I
      BY <1>8
    <2>2. ASSUME NEW n \in Nat \ {0}, n \in I PROVE n + 1 \in I
      BY <1>9, <2>2 DEF Turn
    <2> HIDE DEF I
    <2>3. \A n \in Nat \ {0} : n \in I
      BY <2>1, <2>2, Upwards
    <2>4. \A n \in Nat \ {0} : d[n] \in Nat
      BY <2>3 DEF I
    <2>5. d = [i \in Nat \ {0} |-> d[i]]
      BY <1>7
    <2> QED
      BY <2>4, <2>5
  <1> QED
    BY <1>7, <1>8, <1>9, <1>10

\* nextBackoff, for every base and cap: it stays between one tick and the cap,
\* doubles until it reaches the cap, which it does, and never decreases; and once
\* two attempts in a row wait as long, all later ones do, so that the
\* controller's table loses nothing where it ends.
THEOREM BackoffSchedule ==
    ASSUME NEW base \in Nat \ {0}, NEW max \in Nat \ {0}
    PROVE  \A n \in Nat \ {0} :
             /\ NextBackoff(n, base, max) \in 1..max
             /\ NextBackoff(n + 1, base, max) = Turn(NextBackoff(n, base, max), max)
             /\ NextBackoff(n, base, max) <= NextBackoff(n + 1, base, max)
             /\ n >= max => NextBackoff(n, base, max) = max
             /\ NextBackoff(n + 1, base, max) = NextBackoff(n, base, max) =>
                  \A m \in Nat : m >= n => NextBackoff(m, base, max) = NextBackoff(n, base, max)
  <1> DEFINE b(n) == NextBackoff(n, base, max)
             d == Doubled(base, max)
  <1>1. /\ d \in [Nat \ {0} -> Nat]
        /\ d[1] = base
        /\ \A n \in Nat \ {0} : d[n + 1] = Turn(d[n], max)
    BY DoubledMeans
  <1>2. b(1) = IF base > max THEN max ELSE base
    BY DEF NextBackoff
  <1>3. ASSUME NEW n \in Nat \ {0}, n # 1 PROVE b(n) = d[n]
    BY <1>3 DEF NextBackoff
  <1> HIDE DEF d, b
  <1>4. ASSUME NEW n \in Nat \ {0} PROVE b(n + 1) = Turn(b(n), max)
    <2>1. b(n + 1) = d[n + 1] /\ d[n + 1] = Turn(d[n], max)
      BY <1>1, <1>3
    <2>2. CASE n = 1
      BY <1>1, <1>2, <2>1, <2>2 DEF Turn
    <2>3. CASE n # 1
      BY <1>3, <2>1, <2>3
    <2> QED
      BY <2>2, <2>3
  <1>5. \A n \in Nat \ {0} : b(n) \in 1..max
    <2> DEFINE I == {n \in Nat \ {0} : b(n) \in 1..max}
    <2>1. 1 \in I
      BY <1>2
    <2>2. ASSUME NEW n \in Nat \ {0}, n \in I PROVE n + 1 \in I
      BY <1>4, <2>2 DEF Turn
    <2> HIDE DEF I
    <2>3. \A n \in Nat \ {0} : n \in I
      BY <2>1, <2>2, Upwards
    <2> QED
      BY <2>3 DEF I
  <1>6. ASSUME NEW n \in Nat \ {0} PROVE b(n) <= b(n + 1)
    BY <1>4, <1>5 DEF Turn
  <1>7. ASSUME NEW n \in Nat \ {0}, b(n + 1) = b(n), NEW m \in Nat, m >= n
        PROVE  b(m) = b(n)
    <2> DEFINE I == {i \in Nat \ {0} : b(n + (i - 1)) = b(n)}
    <2>1. 1 \in I
      <3>1. n + (1 - 1) = n
        OBVIOUS
      <3> QED
        BY <3>1
    <2>2. ASSUME NEW i \in Nat \ {0}, i \in I PROVE i + 1 \in I
      <3>1. n + (i - 1) \in Nat \ {0} /\ n + ((i + 1) - 1) = (n + (i - 1)) + 1
        OBVIOUS
      <3>2. b(n + ((i + 1) - 1)) = Turn(b(n + (i - 1)), max)
        BY <1>4, <3>1
      <3>3. b(n + 1) = Turn(b(n), max)
        BY <1>4
      <3> QED
        BY <1>7, <2>2, <3>2, <3>3
    <2>3. (m - n) + 1 \in Nat \ {0} /\ n + (((m - n) + 1) - 1) = m
      BY <1>7
    <2> HIDE DEF I
    <2>4. (m - n) + 1 \in I
      BY <2>1, <2>2, <2>3, Upwards
    <2> QED
      BY <2>3, <2>4 DEF I
  <1>8. ASSUME NEW n \in Nat \ {0}, n >= max PROVE b(n) = max
    <2> DEFINE I == {i \in Nat \ {0} : b(i) >= i \/ b(i) = max}
    <2>1. 1 \in I
      BY <1>5
    <2>2. ASSUME NEW i \in Nat \ {0}, i \in I PROVE i + 1 \in I
      <3>1. b(i + 1) = Turn(b(i), max) /\ b(i) \in 1..max
        BY <1>4, <1>5
      <3>2. b(i) >= i \/ b(i) = max
        BY <2>2
      <3> QED
        BY <3>1, <3>2 DEF Turn
    <2> HIDE DEF I
    <2>3. n \in I
      BY <2>1, <2>2, Upwards
    <2>4. b(n) >= n \/ b(n) = max
      BY <2>3 DEF I
    <2> QED
      BY <1>5, <1>8, <2>4
  <1> QED
    BY <1>4, <1>5, <1>6, <1>7, <1>8 DEF b
=============================================================================
