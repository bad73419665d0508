--------------------------- MODULE SupervisorProofs ---------------------------
(***************************************************************************)
(* Theorems of Supervisor under a reliable record (~RecordGaps), for any   *)
(* number of connections, tunnels and PIDs, across shutdowns, crashes and  *)
(* restarts.  The argument: every openconnect that exists is the current   *)
(* one, the one connect is starting, or an orphan on record; the mutex     *)
(* excludes the first two from each other, and an orphan on record keeps   *)
(* the next helper from starting.                                          *)
(***************************************************************************)
EXTENDS Supervisor, TLAPS

\* NewSupervisor in a fresh system.
LEMMA InitIInv == Init => IInv
  <1> SUFFICES ASSUME Init PROVE IInv
    OBVIOUS
  <1> USE SupervisorAssumption DEF Init, Blank
  <1>1. TypeOK
    BY DEF TypeOK, HelperStates
  <1>2. MutexIsConnects
    BY DEF MutexIsConnects, Workers
  <1>3. ChildrenAreKept /\ PidsAreDistinct
    BY DEF ChildrenAreKept, PidsAreDistinct
  <1>4. DownIsBlank /\ RecordCoversTunnel
    BY DEF DownIsBlank, RecordCoversTunnel, Running
  <1>5. SupervisedIsCurrent /\ ReportMatchesChild
    BY DEF SupervisedIsCurrent, ReportMatchesChild
  <1> QED
    BY <1>1, <1>2, <1>3, <1>4, <1>5 DEF IInv

\* Steps of the operating system: processes end, PIDs of strangers come and go.
LEMMA SystemKeeps ==
  ASSUME IInv,
         \/ \E k \in Tunnels : ChildExits(k)
         \/ \E p \in Pids : ForeignStarts(p) \/ ForeignExits(p)
  PROVE  IInv'
  <1> USE SupervisorAssumption
      DEF IInv, TypeOK, MutexIsConnects, ChildrenAreKept, PidsAreDistinct, DownIsBlank,
          RecordCoversTunnel, SupervisedIsCurrent, ReportMatchesChild, Workers, Held,
          Running, run, tunnel, timers, work
  <1>1. ASSUME NEW k \in Tunnels, ChildExits(k) PROVE IInv'
    BY <1>1 DEF ChildExits, Remains, HasParent
  <1>2. ASSUME NEW p \in Pids, ForeignStarts(p) \/ ForeignExits(p) PROVE IInv'
    BY <1>2 DEF ForeignStarts, ForeignExits
  <1> QED
    BY <1>1, <1>2

\* SIGKILL turns a tunnel into a zombie or removes it; it never makes one.
LEMMA KillKeeps ==
  ASSUME IInv, NEW k \in Tunnels, Timer(k)
  PROVE  IInv'
  <1> USE SupervisorAssumption
      DEF IInv, TypeOK, MutexIsConnects, ChildrenAreKept, PidsAreDistinct, DownIsBlank,
          RecordCoversTunnel, SupervisedIsCurrent, ReportMatchesChild, Workers, Held,
          Running, os, run, tunnel, timers, work
  <1>1. CASE Escalates(k)
    BY <1>1 DEF Escalates, Sigkill, Group, Remains, HasParent
  <1>2. CASE StandsDown(k)
    BY <1>2 DEF StandsDown
  <1>3. CASE EscalatesBlindly(k)
    BY <1>3 DEF EscalatesBlindly, Sigkill, Group, Remains, HasParent
  <1> QED
    BY <1>1, <1>2, <1>3 DEF Timer

\* A helper starts only on a record whose process is gone: no orphan is left.
LEMMA NoOrphanAtStart ==
  ASSUME IInv, Start
  PROVE  Running = {}
  <1> SUFFICES ASSUME NEW k \in Running PROVE FALSE
    OBVIOUS
  <1>1. file = pid[k] /\ pid[k] \in Pids
    BY SupervisorAssumption
       DEF Start, IInv, RecordCoversTunnel, DownIsBlank, ChildrenAreKept, Held, Running, Workers
  <1>2. Alive(pid[k])
    BY DEF Alive, Running
  <1> QED
    BY <1>1, <1>2, SupervisorAssumption DEF Start, ReconcileAllows

\* So a new helper finds no process that is its to reap.
LEMMA StartKeeps ==
  ASSUME IInv, Start
  PROVE  IInv'
  <1>1. \A k \in Tunnels : proc[k] = "none"
    BY NoOrphanAtStart, SupervisorAssumption
       DEF Start, IInv, ChildrenAreKept, DownIsBlank, Running, Held, Workers
  <1> QED
    BY <1>1, SupervisorAssumption
       DEF Start, ClearState, IInv, TypeOK, MutexIsConnects, ChildrenAreKept, PidsAreDistinct, DownIsBlank,
           RecordCoversTunnel, SupervisedIsCurrent, ReportMatchesChild, Workers, Held,
           Running, os, run, tunnel, timers, work

\* The lock sections of connect.
LEMMA ConnectKeeps ==
  ASSUME IInv, ~RecordGaps, NEW h \in Handlers,
         Connecting(h) \/ \E k \in Tunnels, p \in Pids : ConnectSpawns(h, k, p)
  PROVE  IInv'
  <1> USE SupervisorAssumption
      DEF IInv, TypeOK, MutexIsConnects, ChildrenAreKept, PidsAreDistinct, DownIsBlank,
          RecordCoversTunnel, SupervisedIsCurrent, ReportMatchesChild, Workers, Held,
          Running, os, run, tunnel, timers, work, HelperStates
  <1>1. ASSUME NEW k \in Tunnels, NEW p \in Pids, ConnectSpawns(h, k, p) PROVE IInv'
    BY <1>1 DEF ConnectSpawns, Unused, Alive, SlotFree
  <1>2. CASE ConnectRecords(h)
    BY <1>2 DEF ConnectRecords, WriteState
  <1>3. CASE ConnectWriteFails(h)
    BY <1>3 DEF ConnectWriteFails, Sigterm, Group
  <1>4. CASE ConnectReaps(h)
    BY <1>4 DEF ConnectReaps
  <1> QED
    BY <1>1, <1>2, <1>3, <1>4 DEF Connecting

\* The steps of supervise.
LEMMA SuperviseKeeps ==
  ASSUME IInv, ~RecordGaps, NEW k \in Tunnels,
         Supervise(k) \/ ScanStops(k) \/ \E s \in LineStates : Line(k, s)
  PROVE  IInv'
  <1> USE SupervisorAssumption
      DEF IInv, TypeOK, MutexIsConnects, ChildrenAreKept, PidsAreDistinct, DownIsBlank,
          RecordCoversTunnel, SupervisedIsCurrent, ReportMatchesChild, Workers, Held,
          Running, os, run, tunnel, timers, work, HelperStates, SupMoves
  <1>1. CASE ScanEnds(k) \/ ScanStops(k)
    BY <1>1 DEF ScanEnds, ScanStops
  <1>2. CASE Reaps(k)
    BY <1>2 DEF Reaps
  <1>3. CASE ClosesDone(k)
    BY <1>3 DEF ClosesDone
  <1>4. CASE Clears(k)
    BY <1>4 DEF Clears, ClearTunnel, ClearState
  <1>5. CASE \E s \in LineStates : Line(k, s)
    BY <1>5 DEF Line, LineStates, WriteState
  <1> QED
    BY <1>1, <1>2, <1>3, <1>4, <1>5 DEF Supervise

\* disconnect and the SIGTERM that follows it.
LEMMA DisconnectKeeps ==
  ASSUME IInv, NEW w \in Workers, Disconnect(w) \/ Terminates(w)
  PROVE  IInv'
  <1> USE SupervisorAssumption
      DEF IInv, TypeOK, MutexIsConnects, ChildrenAreKept, PidsAreDistinct, DownIsBlank,
          RecordCoversTunnel, SupervisedIsCurrent, ReportMatchesChild, Workers, Held,
          Running, os, run, tunnel, timers, work, HelperStates
  <1>1. CASE Disconnect(w)
    BY <1>1 DEF Disconnect
  <1>2. CASE Terminates(w)
    BY <1>2 DEF Terminates, Sigterm, Escalation, Group
  <1> QED
    BY <1>1, <1>2

\* The helper process ends: what runs on is the tunnel on record.
LEMMA VanishKeeps ==
  ASSUME IInv, ~RecordGaps, Vanishes \/ AsksShutdown
  PROVE  IInv'
  <1> USE SupervisorAssumption
      DEF IInv, TypeOK, MutexIsConnects, ChildrenAreKept, PidsAreDistinct, DownIsBlank,
          RecordCoversTunnel, SupervisedIsCurrent, ReportMatchesChild, Workers, Held,
          Running, os, run, tunnel, timers, work, HelperStates
  <1>1. CASE AsksShutdown
    BY <1>1 DEF AsksShutdown
  <1>2. CASE Vanishes
    <2>1. mu = NoOne /\ mu' = NoOne /\ cmd' = NoTunnel /\ up' = FALSE
      BY <1>2 DEF Vanishes
    <2>2. TypeOK' /\ DownIsBlank' /\ ReportMatchesChild'
      BY <1>2, <2>1 DEF Vanishes
    <2>3. MutexIsConnects'
      BY <1>2, <2>1 DEF Vanishes
    <2>4. ChildrenAreKept' /\ PidsAreDistinct'
      BY <1>2, <2>1 DEF Vanishes
    <2>5. RecordCoversTunnel' /\ SupervisedIsCurrent'
      BY <1>2, <2>1 DEF Vanishes
    <2> QED
      BY <2>2, <2>3, <2>4, <2>5
  <1> QED
    BY <1>1, <1>2

\* With a reliable record the inductive invariant holds of every reachable state.
THEOREM Invariance == ~RecordGaps => (Spec => []IInv)
  <1> SUFFICES ASSUME ~RecordGaps PROVE Spec => []IInv
    OBVIOUS
  <1>1. IInv /\ [Next]_vars => IInv'
    <2> SUFFICES ASSUME IInv, [Next]_vars PROVE IInv'
      OBVIOUS
    <2>1. CASE UNCHANGED vars
      BY <2>1 DEF vars, IInv, TypeOK, MutexIsConnects, ChildrenAreKept, PidsAreDistinct,
                  DownIsBlank, RecordCoversTunnel, SupervisedIsCurrent, ReportMatchesChild,
                  Held, Running
    <2>2. CASE Environment
      BY <2>2, SystemKeeps, SuperviseKeeps, VanishKeeps DEF Environment
    <2>3. CASE \E h \in Handlers : Connecting(h) \/ \E k \in Tunnels, p \in Pids : ConnectSpawns(h, k, p)
      BY <2>3, ConnectKeeps
    <2>4. CASE \E w \in Workers : Disconnect(w) \/ Terminates(w)
      BY <2>4, DisconnectKeeps
    <2>5. CASE \E k \in Tunnels : Supervise(k) \/ Timer(k)
      BY <2>5, SuperviseKeeps, KillKeeps
    <2>6. CASE Start \/ Exits \/ Crashes
      BY <2>6, StartKeeps, VanishKeeps DEF Exits, Crashes
    <2> QED
      BY <2>1, <2>2, <2>3, <2>4, <2>5, <2>6 DEF Next
  <1> QED
    BY <1>1, InitIInv, PTL DEF Spec

\* Two processes that run are the same process.
LEMMA OneTunnelOfIInv == IInv => OneTunnel
  <1> SUFFICES ASSUME IInv, NEW j \in Running, NEW k \in Running PROVE j = k
    BY DEF OneTunnel
  <1> USE SupervisorAssumption
      DEF IInv, TypeOK, MutexIsConnects, ChildrenAreKept, DownIsBlank, RecordCoversTunnel,
          PidsAreDistinct, Held, Running, Workers
  <1>1. CASE ~up
    BY <1>1
  <1>2. CASE up
    BY <1>2
  <1> QED
    BY <1>1, <1>2

\* However connects, disconnects, crashes and restarts interleave, no two
\* openconnect processes run at once, as long as the record is reliable.
THEOREM SingleTunnel == ~RecordGaps => (Spec => []OneTunnel)
  <1> SUFFICES ASSUME ~RecordGaps PROVE Spec => []OneTunnel
    OBVIOUS
  <1> QED
    BY Invariance, OneTunnelOfIInv, PTL

\* The record covers the tunnel at every moment a helper may end or start.
THEOREM RecordIsKept == ~RecordGaps => (Spec => []RecordCoversTunnel)
  <1> SUFFICES ASSUME ~RecordGaps PROVE Spec => []RecordCoversTunnel
    OBVIOUS
  <1>1. IInv => RecordCoversTunnel
    BY DEF IInv
  <1> QED
    BY <1>1, Invariance, PTL

\* The supervised tunnel is the current one: output is never superseded and
\* the slot is never freed for a process that still has a supervisor.
THEOREM SupervisionIsExact == ~RecordGaps => (Spec => []SupervisedIsCurrent)
  <1> SUFFICES ASSUME ~RecordGaps PROVE Spec => []SupervisedIsCurrent
    OBVIOUS
  <1>1. IInv => SupervisedIsCurrent
    BY DEF IInv
  <1> QED
    BY <1>1, Invariance, PTL

\* What status answers agrees with the child the helper has.
THEOREM ReportIsHonest == ~RecordGaps => (Spec => []ReportMatchesChild)
  <1> SUFFICES ASSUME ~RecordGaps PROVE Spec => []ReportMatchesChild
    OBVIOUS
  <1>1. IInv => ReportMatchesChild
    BY DEF IInv
  <1> QED
    BY <1>1, Invariance, PTL

-----------------------------------------------------------------------------
(* The helper implements HelperService. *)

\* While a helper serves, what runs is its current tunnel or connect's.
LEMMA PublishedIsCurrent ==
  ASSUME IInv, up, NEW k \in Published
  PROVE  cmd = k /\ mu = NoOne
  BY SupervisorAssumption
     DEF IInv, MutexIsConnects, ChildrenAreKept, TypeOK, Published, Running, Workers, Held

\* Steps of connect: only the one that publishes the tunnel can be told.
LEMMA ConnectSimulates ==
  ASSUME IInv, NEW h \in Handlers,
         Connecting(h) \/ \E k \in Tunnels, p \in Pids : ConnectSpawns(h, k, p)
  PROVE  [Service!Next]_(Service!vars)
  <1> USE SupervisorAssumption
      DEF IInv, TypeOK, MutexIsConnects, Workers, Held, Published, Running,
          os, run, tunnel, timers, work, Service!vars
  <1>1. ASSUME NEW k \in Tunnels, NEW p \in Pids, ConnectSpawns(h, k, p)
        PROVE  UNCHANGED Service!vars
    BY <1>1 DEF ConnectSpawns, Unused
  <1>2. CASE ConnectRecords(h)
    <2>1. up /\ cmd = NoTunnel /\ Published = {}
      BY <1>2, PublishedIsCurrent DEF ConnectRecords
    <2>2. Service!Accept
      BY <1>2, <2>1 DEF ConnectRecords, Service!Accept
    <2> QED
      BY <2>2 DEF Service!Next
  <1>3. CASE ConnectWriteFails(h)
    BY <1>3 DEF ConnectWriteFails
  <1>4. CASE ConnectReaps(h)
    BY <1>4 DEF ConnectReaps
  <1> QED
    BY <1>1, <1>2, <1>3, <1>4 DEF Connecting

\* Steps of supervise: lines move the report, the last step frees the slot.
LEMMA SuperviseSimulates ==
  ASSUME IInv, NEW k \in Tunnels,
         Supervise(k) \/ ScanStops(k) \/ \E s \in LineStates : Line(k, s)
  PROVE  [Service!Next]_(Service!vars)
  <1> USE SupervisorAssumption
      DEF IInv, TypeOK, Workers, Held, Published, Running, SupMoves,
          os, run, tunnel, timers, work, Service!vars
  <1>1. up /\ cmd = k
    BY DEF Supervise, ScanEnds, ScanStops, Reaps, ClosesDone, Clears, Line,
           SupervisedIsCurrent, DownIsBlank
  <1>2. CASE ScanEnds(k) \/ ScanStops(k) \/ ClosesDone(k) \/ Reaps(k)
    BY <1>2 DEF ScanEnds, ScanStops, ClosesDone, Reaps
  <1>3. CASE Clears(k)
    <2>1. Published = {}
      BY <1>1, <1>3, PublishedIsCurrent DEF Clears, ChildrenAreKept
    <2>2. Service!Clear
      BY <1>1, <1>3, <2>1 DEF Clears, ClearTunnel, Service!Clear
    <2> QED
      BY <2>2 DEF Service!Next
  <1>4. ASSUME NEW s \in LineStates, Line(k, s)
        PROVE  Service!Line(s)
    BY <1>1, <1>4 DEF Line, Service!Line
  <1> QED
    BY <1>2, <1>3, <1>4 DEF Supervise, LineStates, Service!LineStates, Service!Next

\* Ends of processes: the service's tunnel ends, or nothing it shows changes.
LEMMA EndsSimulate ==
  ASSUME IInv,
         \/ \E k \in Tunnels : ChildExits(k) \/ Timer(k)
         \/ \E p \in Pids : ForeignStarts(p) \/ ForeignExits(p)
  PROVE  [Service!Next]_(Service!vars)
  <1> USE DEF Held, Published, Running, os, run, tunnel, timers, work, Service!vars
  <1>1. UNCHANGED <<up, cmd, state, mu, target>>
    BY DEF ChildExits, Timer, Escalates, StandsDown, EscalatesBlindly, ForeignStarts, ForeignExits
  <1>2. Running' \subseteq Running
    BY DEF ChildExits, Timer, Escalates, StandsDown, EscalatesBlindly, Sigkill, Remains,
           ForeignStarts, ForeignExits, IInv, TypeOK
  <1>3. Published' \subseteq Published
    BY <1>1, <1>2
  <1>4. CASE Published # {} /\ Published' = {}
    BY <1>1, <1>4 DEF Service!TunnelEnds, Service!Next
  <1>5. CASE ~(Published # {} /\ Published' = {})
    BY <1>1, <1>3, <1>5
  <1> QED
    BY <1>4, <1>5

\* The helper process starts, ends, or is asked to end.
LEMMA ProcessSimulates ==
  ASSUME IInv, ~RecordGaps, Start \/ Exits \/ Crashes \/ AsksShutdown
  PROVE  [Service!Next]_(Service!vars)
  <1> USE SupervisorAssumption
      DEF Held, Published, Running, os, run, tunnel, timers, work, Service!vars
  <1>1. CASE Start
    <2>1. Published = {}
      BY <1>1, NoOrphanAtStart
    <2>2. Service!Start
      BY <1>1, <2>1 DEF Start, Service!Start
    <2> QED
      BY <2>2 DEF Service!Next
  <1>2. CASE Vanishes
    <2>1. mu = NoOne /\ mu' = NoOne
      BY <1>2 DEF Vanishes
    <2>2. Published' = Published
      BY <1>2, <2>1 DEF Vanishes, Workers, IInv, TypeOK
    <2>3. Service!Vanish
      BY <1>2, <2>2 DEF Vanishes, Service!Vanish
    <2> QED
      BY <2>3 DEF Service!Next
  <1>3. CASE AsksShutdown
    BY <1>3 DEF AsksShutdown
  <1> QED
    BY <1>1, <1>2, <1>3 DEF Exits, Crashes

\* disconnect moves the report at once; its SIGTERM shows in nothing.
LEMMA DisconnectSimulates ==
  ASSUME IInv, NEW w \in Workers, Disconnect(w) \/ Terminates(w)
  PROVE  [Service!Next]_(Service!vars)
  <1> USE SupervisorAssumption
      DEF Held, Published, Running, os, run, tunnel, timers, work, Workers, Service!vars
  <1>1. CASE Disconnect(w)
    <2>1. mu = NoOne /\ mu' = NoOne
      BY <1>1 DEF Disconnect
    <2>2. Published' = Published
      BY <1>1, <2>1 DEF Disconnect
    <2>3. Service!HangUp
      BY <1>1, <2>2 DEF Disconnect, Service!HangUp
    <2> QED
      BY <2>3 DEF Service!Next
  <1>2. CASE Terminates(w)
    <2>1. \A k \in Tunnels : Held(k)' <=> Held(k)
      BY <1>2 DEF Terminates, IInv, TypeOK, MutexIsConnects
    <2> QED
      BY <1>2, <2>1 DEF Terminates
  <1> QED
    BY <1>1, <1>2

\* With a reliable record the helper keeps HelperService's promise: one slot,
\* one openconnect, a report that follows them, and no start beside an orphan.
THEOREM Implementation == ~RecordGaps => (Spec => ImplementsService)
  <1> SUFFICES ASSUME ~RecordGaps PROVE Spec => Service!Spec
    BY DEF ImplementsService
  <1>1. Init => Service!Init
    BY SupervisorAssumption DEF Init, Blank, Service!Init, Published, Running
  <1>2. IInv /\ [Next]_vars => [Service!Next]_(Service!vars)
    <2> SUFFICES ASSUME IInv, [Next]_vars PROVE [Service!Next]_(Service!vars)
      OBVIOUS
    <2>1. CASE UNCHANGED vars
      BY <2>1 DEF vars, Service!vars, Published, Running, Held
    <2>2. CASE Environment
      BY <2>2, EndsSimulate, SuperviseSimulates, ProcessSimulates DEF Environment
    <2>3. CASE \E h \in Handlers : Connecting(h) \/ \E k \in Tunnels, p \in Pids : ConnectSpawns(h, k, p)
      BY <2>3, ConnectSimulates
    <2>4. CASE \E w \in Workers : Disconnect(w) \/ Terminates(w)
      BY <2>4, DisconnectSimulates
    <2>5. CASE \E k \in Tunnels : Supervise(k) \/ Timer(k)
      BY <2>5, SuperviseSimulates, EndsSimulate
    <2>6. CASE Start \/ Exits \/ Crashes
      BY <2>6, ProcessSimulates
    <2> QED
      BY <2>1, <2>2, <2>3, <2>4, <2>5, <2>6 DEF Next
  <1> QED
    BY <1>1, <1>2, Invariance, PTL DEF Spec, Service!Spec

\* Where no record is missing the helper's variables keep their types, PIDs and
\* tunnels that are used again included.
THEOREM TypeCorrectness == ~RecordGaps => (Spec => []TypeOK)
  <1>1. IInv => TypeOK
    BY DEF IInv
  <1> QED
    BY <1>1, Invariance, PTL
=============================================================================
