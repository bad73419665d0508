----------------------------- MODULE Supervisor -----------------------------
(***************************************************************************)
(* The privileged helper (internal/helper/supervisor.go, state.go): one    *)
(* process that starts, watches and kills one openconnect at a time, and   *)
(* keeps its PID in a state file so that a restarted helper can tell.      *)
(* Each lock section is one action, except connect's, which is split where *)
(* the process may die in between or block while it holds the mutex.       *)
(* The operating system is part of the model: processes, their zombies,    *)
(* PIDs that are used again, unrelated processes, the end of the helper.   *)
(***************************************************************************)
EXTENDS Protocol, FiniteSets

CONSTANTS
    Tunnels,   \* identities of exec.Cmd values, each an openconnect group
    Pids,      \* process (and process group) ids of the machine
    Handlers,  \* goroutines that serve socket connections
    Ctx,       \* the goroutine that waits for ctx.Done in Run
    NoTunnel, NoPid, NoOne,
    RecordGaps \* may a state file write fail, or the helper end in connect?

Workers == Handlers \cup {Ctx}

ASSUME SupervisorAssumption ==
    /\ NoTunnel \notin Tunnels
    /\ NoPid \notin Pids
    /\ Ctx \notin Handlers
    /\ NoOne \notin Workers
    /\ RecordGaps \in BOOLEAN

VARIABLES
    \* the operating system
    proc,       \* each tunnel's openconnect: "none", "running" or "zombie"
    pid,        \* the PID it has, or had
    termed,     \* running tunnels that have been sent a SIGTERM
    foreign,    \* PIDs of unrelated processes
    file,       \* the PID recorded in state.json, or NoPid
    \* the helper process
    up,         \* is the helper serving?
    shutdown,   \* "no", "asked" (ctx is done), "tearing" (disconnect called)
    mu,         \* the connect call that holds the mutex between two actions
    cmd,        \* Supervisor.cmd
    state,      \* Supervisor.state
    assignedIP, \* the tunnel whose address is in Supervisor.assignedIP
    sup,        \* where each tunnel's supervise goroutine is
    armed,      \* tunnels with a SIGKILL timer that watches done
    blind,      \* tunnels with a SIGKILL timer that watches nothing
    hpc,        \* where each worker is
    target      \* the tunnel a worker is busy with

os == <<proc, pid, termed, foreign>>
run == <<up, shutdown>>
tunnel == <<cmd, state, assignedIP>>
timers == <<armed, blind>>
work == <<mu, hpc, target>>
vars == <<proc, pid, termed, foreign, file, up, shutdown, mu, cmd, state,
          assignedIP, sup, armed, blind, hpc, target>>

\* Every variable holds a value of its type.
TypeOK ==
    /\ proc \in [Tunnels -> {"none", "running", "zombie"}]
    /\ pid \in [Tunnels -> Pids \cup {NoPid}]
    /\ termed \subseteq Tunnels
    /\ foreign \subseteq Pids
    /\ file \in Pids \cup {NoPid}
    /\ up \in BOOLEAN
    /\ shutdown \in {"no", "asked", "tearing"}
    /\ mu \in Handlers \cup {NoOne}
    /\ cmd \in Tunnels \cup {NoTunnel}
    /\ state \in HelperStates
    /\ assignedIP \in Tunnels \cup {NoTunnel}
    /\ sup \in [Tunnels -> {"none", "scan", "wait", "close", "clear"}]
    /\ armed \subseteq Tunnels
    /\ blind \subseteq Tunnels
    /\ hpc \in [Workers -> {"idle", "spawned", "reaping", "terminate"}]
    /\ target \in [Workers -> Tunnels \cup {NoTunnel}]

\* What every new helper process begins with (NewSupervisor).
Blank ==
    /\ shutdown = "no"
    /\ mu = NoOne
    /\ cmd = NoTunnel
    /\ state = "idle"
    /\ assignedIP = NoTunnel
    /\ sup = [k \in Tunnels |-> "none"]
    /\ armed = {}
    /\ blind = {}
    /\ hpc = [w \in Workers |-> "idle"]
    /\ target = [w \in Workers |-> NoTunnel]

Init ==
    /\ proc = [k \in Tunnels |-> "none"]
    /\ pid = [k \in Tunnels |-> NoPid]
    /\ termed = {}
    /\ foreign = {}
    /\ file = NoPid
    /\ up = FALSE
    /\ Blank

-----------------------------------------------------------------------------
(* The operating system. *)

Running == {k \in Tunnels : proc[k] = "running"}

\* kill(p, 0) succeeds: a process, even a zombie, has this PID.
Alive(p) == p \in foreign \/ \E k \in Tunnels : proc[k] # "none" /\ pid[k] = p

\* Nobody refers to this exec.Cmd any more, so the identity can serve again.
Unused(k) ==
    /\ proc[k] = "none"
    /\ sup[k] = "none"
    /\ k \notin armed \cup blind
    /\ \A w \in Workers : target[w] # k

\* The helper process that started k is still there to wait for it.
HasParent(k) ==
    sup[k] # "none" \/ \E w \in Workers : target[w] = k /\ hpc[w] \in {"spawned", "reaping"}

\* What is left of a tunnel that ends: launchd reaps an orphan at once.
Remains(k) == IF HasParent(k) THEN "zombie" ELSE "none"

\* The running tunnels in the process group that PID p names.
Group(p) == {j \in Running : pid[j] = p}

Sigterm(k) == termed' = termed \cup Group(pid[k])

Sigkill(k) ==
    /\ proc' = [j \in Tunnels |-> IF j \in Group(pid[k]) THEN Remains(j) ELSE proc[j]]
    /\ termed' = termed \ Group(pid[k])
    /\ foreign' = foreign \ {pid[k]}
    /\ UNCHANGED pid

ChildExits(k) ==
    /\ k \in Running
    /\ proc' = [proc EXCEPT ![k] = Remains(k)]
    /\ termed' = termed \ {k}
    /\ UNCHANGED <<pid, foreign, file, run, tunnel, sup, timers, work>>

ForeignStarts(p) ==
    /\ ~Alive(p)
    /\ foreign' = foreign \cup {p}
    /\ UNCHANGED <<proc, pid, termed, file, run, tunnel, sup, timers, work>>

ForeignExits(p) ==
    /\ p \in foreign
    /\ foreign' = foreign \ {p}
    /\ UNCHANGED <<proc, pid, termed, file, run, tunnel, sup, timers, work>>

-----------------------------------------------------------------------------
(* The state file. *)

\* A slip: the record is written before s.cmd is set, so nothing is.
WriteStateEarly(k) == file' = IF cmd = NoTunnel THEN file ELSE pid[k]

\* writeStateLocked is best effort: temporary file, then rename.
WriteState(k) == file' = pid[k] \/ (RecordGaps /\ UNCHANGED file)

\* So is its removal: the record of a tunnel that is gone may stay.
ClearState == file' = NoPid \/ (RecordGaps /\ UNCHANGED file)

\* reconcile lets the helper start unless the recorded PID is alive.  (The
\* variant is a slip: the record is dropped without looking.)
ReconcileTrusting == TRUE
ReconcileAllows   == file = NoPid \/ ~Alive(file)

\* Run up to Serve.  A refused start ends the process and launchd tries again.
Start ==
    /\ ~up
    /\ ReconcileAllows
    /\ up' = TRUE
    /\ ClearState
    /\ UNCHANGED <<os, shutdown, tunnel, sup, timers, work>>

-----------------------------------------------------------------------------
(* connect. *)

\* The one check that keeps a second tunnel out.  (The variant is a slip: the
\* state is asked instead of the process.)
SlotLooksFree == state \in {"idle", "disconnected"}
SlotFree      == cmd = NoTunnel

\* Checks passed, cmd.Start done.  A refused host or a failed Start leaves
\* everything as it was and only answers.
ConnectSpawns(h, k, p) ==
    /\ up /\ mu = NoOne /\ hpc[h] = "idle"
    /\ SlotFree
    /\ Unused(k) /\ ~Alive(p)
    /\ proc' = [proc EXCEPT ![k] = "running"]
    /\ pid' = [pid EXCEPT ![k] = p]
    /\ mu' = h
    /\ hpc' = [hpc EXCEPT ![h] = "spawned"]
    /\ target' = [target EXCEPT ![h] = k]
    /\ UNCHANGED <<termed, foreign, file, run, tunnel, sup, timers>>

\* The cookie is written: publish the tunnel, record it, supervise it.
ConnectRecords(h) ==
    LET k == target[h] IN
    /\ hpc[h] = "spawned"
    /\ cmd' = k
    /\ state' = "connecting"
    /\ assignedIP' = NoTunnel
    /\ WriteState(k)
    /\ sup' = [sup EXCEPT ![k] = "scan"]
    /\ mu' = NoOne
    /\ hpc' = [hpc EXCEPT ![h] = "idle"]
    /\ target' = [target EXCEPT ![h] = NoTunnel]
    /\ UNCHANGED <<os, run, timers>>

\* The cookie cannot be written: terminateGroup(pgid, nil), then cmd.Wait,
\* still under the mutex.
ConnectWriteFails(h) ==
    /\ hpc[h] = "spawned"
    /\ Sigterm(target[h])
    /\ blind' = blind \cup {target[h]}
    /\ hpc' = [hpc EXCEPT ![h] = "reaping"]
    /\ UNCHANGED <<proc, pid, foreign, file, run, tunnel, sup, armed, mu, target>>

ConnectReaps(h) ==
    /\ hpc[h] = "reaping"
    /\ proc[target[h]] = "zombie"
    /\ proc' = [proc EXCEPT ![target[h]] = "none"]
    /\ mu' = NoOne
    /\ hpc' = [hpc EXCEPT ![h] = "idle"]
    /\ target' = [target EXCEPT ![h] = NoTunnel]
    /\ UNCHANGED <<pid, termed, foreign, file, run, tunnel, sup, timers>>

-----------------------------------------------------------------------------
(* supervise: read lines, wait, close done, clear. *)

\* A line that scan.go classifies, from the child or still in the pipe.
Line(k, s) ==
    /\ sup[k] = "scan" /\ mu = NoOne
    /\ cmd = k
    /\ state' = s
    /\ assignedIP' = IF s = "connected" THEN k ELSE assignedIP
    /\ WriteState(k)
    /\ UNCHANGED <<os, run, cmd, sup, timers, work>>

SupMoves(k, from, to) == sup[k] = from /\ sup' = [sup EXCEPT ![k] = to]

\* End of file: the child's end of the pipe is closed.
ScanEnds(k) ==
    /\ proc[k] # "running"
    /\ SupMoves(k, "scan", "wait")
    /\ UNCHANGED <<os, file, run, tunnel, timers, work>>

\* The scanner gives up on a line over 1 MiB while the child lives on.
ScanStops(k) ==
    /\ proc[k] = "running"
    /\ SupMoves(k, "scan", "wait")
    /\ UNCHANGED <<os, file, run, tunnel, timers, work>>

\* cmd.Wait returns; the PID is free from here on.
Reaps(k) ==
    /\ proc[k] = "zombie"
    /\ SupMoves(k, "wait", "close")
    /\ proc' = [proc EXCEPT ![k] = "none"]
    /\ UNCHANGED <<pid, termed, foreign, file, run, tunnel, timers, work>>

ClosesDone(k) ==
    /\ SupMoves(k, "close", "clear")
    /\ UNCHANGED <<os, file, run, tunnel, timers, work>>

\* Slips: the last lock section forgets the state and the address; or it
\* reports a state no client expects from a helper.
ClearCmdOnly   == cmd' = NoTunnel /\ UNCHANGED <<state, assignedIP>>
ClearToUnknown == cmd' = NoTunnel /\ state' = "unknown" /\ assignedIP' = NoTunnel
ClearTunnel    == cmd' = NoTunnel /\ state' = "disconnected" /\ assignedIP' = NoTunnel

Clears(k) ==
    /\ mu = NoOne
    /\ SupMoves(k, "clear", "none")
    /\ IF cmd = k
       THEN ClearTunnel /\ ClearState
       ELSE UNCHANGED <<tunnel, file>>
    /\ UNCHANGED <<os, run, timers, work>>

-----------------------------------------------------------------------------
(* disconnect and terminateGroup. *)

\* disconnect's lock section.  The Ctx goroutine calls it once, on ctx.Done.
Disconnect(w) ==
    /\ up /\ mu = NoOne /\ hpc[w] = "idle"
    /\ IF w = Ctx
       THEN shutdown = "asked" /\ shutdown' = "tearing"
       ELSE UNCHANGED shutdown
    /\ state' = "disconnected"
    /\ IF cmd = NoTunnel
       THEN UNCHANGED <<hpc, target>>
       ELSE /\ hpc' = [hpc EXCEPT ![w] = "terminate"]
            /\ target' = [target EXCEPT ![w] = cmd]
    /\ UNCHANGED <<os, file, up, mu, cmd, assignedIP, sup, timers>>

\* Whether terminateGroup starts the timer that escalates to SIGKILL.  (The
\* variant is a slip: SIGTERM is trusted.)
NoEscalation(k) == UNCHANGED timers
Escalation(k)   == armed' = armed \cup {k} /\ UNCHANGED blind

\* terminateGroup, after the mutex was released.
Terminates(w) ==
    /\ hpc[w] = "terminate"
    /\ Sigterm(target[w])
    /\ Escalation(target[w])
    /\ hpc' = [hpc EXCEPT ![w] = "idle"]
    /\ target' = [target EXCEPT ![w] = NoTunnel]
    /\ UNCHANGED <<proc, pid, foreign, file, run, mu, tunnel, sup>>

\* supervise has closed the tunnel's done channel.
DoneClosed(k) == sup[k] \in {"none", "clear"}

\* The grace period is over: SIGKILL.  A closed done does not prevent it when
\* both are ready, since select picks either.
Escalates(k) ==
    /\ k \in armed
    /\ Sigkill(k)
    /\ armed' = armed \ {k}
    /\ UNCHANGED <<file, run, tunnel, sup, blind, work>>

StandsDown(k) ==
    /\ k \in armed
    /\ DoneClosed(k)
    /\ armed' = armed \ {k}
    /\ UNCHANGED <<os, file, run, tunnel, sup, blind, work>>

EscalatesBlindly(k) ==
    /\ k \in blind
    /\ Sigkill(k)
    /\ blind' = blind \ {k}
    /\ UNCHANGED <<file, run, tunnel, sup, armed, work>>

-----------------------------------------------------------------------------
(* The end of the helper process. *)

\* SIGTERM from launchd: ctx is done.
AsksShutdown ==
    /\ up /\ shutdown = "no"
    /\ shutdown' = "asked"
    /\ UNCHANGED <<os, file, up, tunnel, sup, timers, work>>

\* The process is gone, with every goroutine and every timer, and the next
\* one begins blank; its children are not.  Zombies go with their parent.
Vanishes ==
    /\ up
    /\ RecordGaps \/ mu = NoOne
    /\ up' = FALSE /\ shutdown' = "no" /\ mu' = NoOne
    /\ cmd' = NoTunnel /\ state' = "idle" /\ assignedIP' = NoTunnel
    /\ sup' = [k \in Tunnels |-> "none"]
    /\ armed' = {} /\ blind' = {}
    /\ hpc' = [w \in Workers |-> "idle"]
    /\ target' = [w \in Workers |-> NoTunnel]
    /\ proc' = [k \in Tunnels |-> IF proc[k] = "zombie" THEN "none" ELSE proc[k]]
    /\ UNCHANGED <<pid, termed, foreign, file>>

\* Serve returns once the shutdown goroutine has disconnected and closed.
Exits == shutdown = "tearing" /\ hpc[Ctx] = "idle" /\ Vanishes

Crashes == Vanishes

-----------------------------------------------------------------------------
Connecting(h) == ConnectRecords(h) \/ ConnectWriteFails(h) \/ ConnectReaps(h)

Supervise(k) == ScanEnds(k) \/ Reaps(k) \/ ClosesDone(k) \/ Clears(k)

Timer(k) == Escalates(k) \/ StandsDown(k) \/ EscalatesBlindly(k)

Environment ==
    \/ \E k \in Tunnels : ChildExits(k) \/ ScanStops(k) \/ \E s \in LineStates : Line(k, s)
    \/ \E p \in Pids : ForeignStarts(p) \/ ForeignExits(p)
    \/ AsksShutdown

Next ==
    \/ Start
    \/ \E h \in Handlers : Connecting(h) \/ \E k \in Tunnels, p \in Pids : ConnectSpawns(h, k, p)
    \/ \E w \in Workers : Disconnect(w) \/ Terminates(w)
    \/ \E k \in Tunnels : Supervise(k) \/ Timer(k)
    \/ Exits
    \/ Crashes
    \/ Environment

Spec == Init /\ [][Next]_vars

(***************************************************************************)
(* Goroutines are scheduled, timers go off, launchd starts the helper      *)
(* again (KeepAlive).  Nothing obliges openconnect to exit on SIGTERM, and *)
(* no line, crash or shutdown ever has to happen.                          *)
(***************************************************************************)
Fairness ==
    /\ \A w \in Workers : WF_vars(Terminates(w))
    /\ \A h \in Handlers : WF_vars(Connecting(h))
    /\ \A k \in Tunnels : WF_vars(Supervise(k)) /\ WF_vars(Timer(k))
    /\ WF_vars(Start)

FairSpec == Spec /\ Fairness

-----------------------------------------------------------------------------
(* Properties. *)

\* Never two openconnect processes at once, through connects, crashes and
\* restarts in any order ("owns at most one openconnect tunnel at a time").
OneTunnel == \A j, k \in Running : j = k

\* A connect call that has not published k yet holds the mutex.
Held(k) == \E h \in Handlers : mu = h /\ target[h] = k

\* The state file names the running tunnel from the moment connect lets go of
\* the mutex, so a helper that starts again at any time finds it.
RecordCoversTunnel ==
    \A k \in Running : file = pid[k] \/ Held(k)

\* A tunnel is supervised exactly while it is the current one: no output is
\* ever superseded, and no process is reaped behind the back of cmd.
SupervisedIsCurrent == \A k \in Tunnels : sup[k] # "none" <=> cmd = k

\* The helper reports a tunnel, or an address, only while it has a child, and
\* the address is that child's.
ReportMatchesChild ==
    /\ state \in {"connecting", "connected", "degraded"} => cmd # NoTunnel
    /\ assignedIP \in {NoTunnel, cmd}

\* Between two of connect's actions the mutex is its handler's, nobody else is
\* in connect, and a worker has a target just while it is busy.
MutexIsConnects ==
    /\ \A w \in Workers : hpc[w] \in {"spawned", "reaping"} <=> mu = w
    /\ \A w \in Workers : hpc[w] = "idle" <=> target[w] = NoTunnel
    /\ mu # NoOne => up /\ cmd = NoTunnel

\* A process that exists has a goroutine still to reap it, or it is an orphan.
ChildrenAreKept ==
    \A k \in Tunnels : proc[k] # "none" =>
        /\ pid[k] \in Pids
        /\ sup[k] \notin {"close", "clear"}
        /\ cmd = k \/ Held(k) \/ (~up /\ proc[k] = "running")

\* No two processes that exist, zombies included, share a PID.
PidsAreDistinct ==
    \A j, k \in Tunnels : proc[j] # "none" /\ proc[k] # "none" /\ pid[j] = pid[k] => j = k

\* A helper that does not run holds no tunnel.
DownIsBlank ==
    ~up => /\ cmd = NoTunnel /\ mu = NoOne
           /\ \A w \in Workers : target[w] = NoTunnel

\* The inductive invariant behind the theorems of SupervisorProofs.
IInv ==
    /\ TypeOK
    /\ MutexIsConnects
    /\ ChildrenAreKept
    /\ PidsAreDistinct
    /\ DownIsBlank
    /\ RecordCoversTunnel
    /\ SupervisedIsCurrent
    /\ ReportMatchesChild

\* Teardown completes: once a worker is about to signal the current tunnel,
\* the slot becomes free, with or without openconnect's cooperation, unless
\* the helper itself ends first (SIGTERM, then SIGKILL after teardownGrace).
TeardownFreesSlot ==
    \A k \in Tunnels :
        (cmd = k /\ \E w \in Workers : hpc[w] = "terminate" /\ target[w] = k)
            ~> (cmd # k)

\* A planned shutdown has at least signalled whatever tunnel runs when the
\* helper exits (Run: tear down "any active tunnel before the socket closes").
\* The code does not keep this: a connect fits in between.
ShutdownSignalsTunnel == [][ Exits => Running \subseteq termed ]_vars

\* The running openconnects that connect has published.
Published == {k \in Running : ~Held(k)}

Service == INSTANCE HelperService
               WITH active <- cmd # NoTunnel, live <- Published # {}, report <- state

\* The helper keeps the promise of HelperService: every step of it is one of
\* the service's, or changes nothing a client could tell.
ImplementsService == Service!Spec
=============================================================================
