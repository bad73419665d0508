# Verification of laraka-vpn

TLA+ models of the laraka-vpn agent and helper, the TLC runs that check them on
small instances, and theorems about them checked by TLAPS. The reference is the
Go source; paths below are relative to `src/`.

Run a model with `tlc -config X.cfg M` (the table under *Runs* names module and
cfg), check a proof with `tlapm M.tla`.

## 1. Inventory of the system

laraka-vpn is a menu-bar VPN client in two processes. The **agent** runs in the
user's session, owns the keychain, authenticates with
`openconnect --authenticate` and so obtains a cookie. The **helper** runs as
root under launchd, takes the cookie over a Unix socket, and owns the one
`openconnect` process that is the tunnel. A **CLI** talks to the agent over a
second Unix socket.

    menu loop ──calls──┐
    CLI ──socket──> agent server ──calls──> Controller ──socket──> Supervisor ──> openconnect
                                              │                        │
                                 openconnect --authenticate        state.json

| component | state it keeps | operations |
|---|---|---|
| Agent controller, `internal/agent/controller.go` | connection state, message, `authInFlight`, `terminal`, `attempt`, `nextAttemptAt`, all behind one mutex | `Connect`, `Disconnect`, `Refresh` and the internal `reauth`, `runAuth`, `failAuth`, `handToHelper` |
| Backoff, `nextBackoff` | none | a pure function |
| Authenticator, `internal/agent/auth.go` | none | runs openconnect, parses its output, classifies a failure |
| Agent server, `internal/agent/server.go`, and CLI, `cmd/` | none | one request per connection: connect (asynchronous), disconnect, status |
| Menu, `internal/menu/` | what the menu bar shows, and so which items can be clicked | one event loop: clicks and a 5 s poll, each followed by a render |
| Helper supervisor, `internal/helper/supervisor.go` | `cmd`, `state`, `assignedIP`, `done` behind one mutex; one supervise goroutine per child, one timer per teardown | connect, disconnect, status; shutdown on SIGTERM |
| Helper state file, `internal/helper/state.go` | the PID of the running tunnel, on disk | write, remove, check at start-up |
| Output scanner, `internal/helper/scan.go` | none | classifies lines of openconnect |
| IPC client, server, framing, messages, `internal/ipc/` | the server: socket path, lock file, listener; a connection: its read buffer | round trip; listen, accept, close; read and write a frame |
| Host allowlist, `internal/config/host.go` | exact names and suffixes, built once | read the entries; normalize and match a host |
| Configuration, `internal/config/` | read once | load, check ownership and single fields |
| Peer credentials, commands, logger, icon, activation | none | wiring and system calls |

How they interact. The menu loop, the goroutine of every CLI connection and the
goroutine of every asynchronous connect call the *same* controller. The
controller never holds its mutex across a call to the helper or to
`openconnect --authenticate`; it decides in one lock section, calls, and applies
the answer in another. The helper serves each connection in a goroutine of its
own; `supervise` goroutines and escalation timers act on the same fields.
The state file outlives the helper, and so do its children.

What is hard.

* **Concurrency**: an answer is applied to a state that is no longer the one it
  was asked in; a disconnect crosses an authentication; output of a tunnel that
  is being torn down arrives after `disconnect` has returned.
* **Failure**: the agent is replaced; the helper, or the process between two
  writes of its state, dies; a call's answer is lost although the helper acted on
  it, or the helper acts after its caller has given up; the state file
  cannot be written; openconnect ignores SIGTERM; a PID is used again.
* **Ordering**: the backoff counter is reset when a cookie is *accepted*, not
  when the tunnel is up; `Close` releases the lock before its last removal.
* **Timeouts**: backoff and cooldown, the grace period before SIGKILL, the
  deadline of a round trip.

What makes the parts correct.

* *Controller*: one authentication at a time, and its slot is freed; a state
  that claims progress is backed by a goroutine that makes it; the two retry
  fields agree; after a keychain failure nothing starts by itself; a dropped
  session is retried.
* *Supervisor*: never two tunnels, across crashes and restarts; a running tunnel
  is on record; the report describes the child there is; a teardown ends.
* *Front ends*: what is displayed and answered is what the controller says after
  the call; the display catches up, although its loop is deaf during its own
  calls; no connection waits for an authentication it did not ask for.
* *Both joined*: the agent's picture converges to the helper's whatever was
  lost on the way, and the agent does nothing the user called off.
* *IPC server*: one server per path, and a server that runs can be reached.
* *Framing*: frames are the lines of the stream; both ends draw the limit at
  the same byte.
* *Allowlist*: it permits the names and domains of its entries, label by label,
  and how a host is spelled makes no difference.

`PROJECT.json` lists 37 hazards, each at its line, with the properties that
guard it or the reason why none does yet.

## 2. Modules

    Protocol ─┬─ Orchestrator           abstract specification of the controller
              │        └── Frontend (INSTANCE Orchestrator) ── MCFrontend, FrontendProofs
              ├─ Controller             implements Orchestrator (refinement mapping)
              │        └── ControllerHistory ── MCController, ControllerProofs (both + RetryBackoff)
              ├─ HelperService          abstract specification of the helper
              ├─ Supervisor             implements HelperService (refinement mapping)
              │        └── MCSupervisor, SupervisorProofs
              └─ VpnSystem = INSTANCE Controller + INSTANCE HelperService
                       ├── MCVpnSystem, VpnSystemProofs (INSTANCE ControllerProofs)
                       └── VpnIntent ── MCVpnIntent
    IpcServer ── MCIpcServer, IpcServerProofs
    Pieces ─┬─ Framing ── FramingProofs
            ├─ HostAllowlist ── MCHostAllowlist, HostAllowlistProofs
            └─ PiecesProofs             the lemmas both rest on

A definition whose comment begins with *A slip* is a plausible mistake in the
definition that follows it. No specification uses one: they are there to show
that the properties notice them, as `PROJECT.json` lists under `mutants`.

### Protocol and RetryBackoff

`Protocol` is the vocabulary of `ipc/message.go`: the nine states, and the
outcomes of one tunnel round trip as the caller sees them. Every error of
`DoTunnel` is `Lost`; a response is `Ok(s)` or `Rejected(s)`. `ConnectAnswers`,
`DisconnectAnswers` and `StatusAnswers` list what the helper's handlers can
answer; that this list is complete is not assumed but shown by `VpnSystem`.
`RetryBackoff` is `nextBackoff`, its doubling loop as a recursive function. The
controller takes the table `Backoff` as a constant and its proofs hold of any
table; `MCController` fills the table from `NextBackoff`, whose schedule is
proved for every base and cap (`BackoffSchedule`).

### Controller, ControllerHistory

One variable per field of `Controller`, with two abstractions. `message` is the
*kind* of text. `nextAttemptAt` is `cooldown`, the ticks that are left to it, so
that "now is before nextAttemptAt" is `cooldown > 0`. `attempt` stops counting
at `AttemptCap`, from where the table is constant. `pc` and `reply` say where
each calling goroutine is and which answer it holds. The actions are the lock
sections, one for one:

| action | code |
|---|---|
| `Connect` | `Connect` and `beginAuth(manual)` |
| `Reauth` | `reauth` and `beginAuth(autonomous)`, including its silent refusals |
| `AuthFailsKeychain`, `AuthFails`, `AuthSucceeds` | the outcomes of `Authenticate` in `runAuth`, `failAuth` |
| `HandReturns` | `handToHelper` after its round trip, three branches |
| `EndAuth` | the deferred `endAuth`, a lock section of its own |
| `Disconnect`, `DisconnectReturns` | the call, and the section that applies the answer |
| `Refresh`, `RefreshReturns` | the call; the early return, `reconcile`, the switch and the decision to re-authenticate |
| `HelperAnswers`, `CallFails`, `Tick` | environment: an answer, its loss, time |
| `Restart` | the agent's process ends at any point and `cmd/agent.go` makes a new controller |

A connect that `beginAuth` refuses changes nothing and has no action.
`ControllerHistory` adds two history variables that no action reads: whether a
keychain failure stands (`stopped`), and how many drops in a row were seen
(`drops`).

### Orchestrator, Frontend

`Orchestrator` is the controller as its callers know it: the interface of that
name in `internal/agent/server.go` and `Controller` in `internal/menu/view.go`.
Four variables are left: the state and the message that can be read at any time,
that an authentication is in flight, and which part of which call a goroutine is
in. Backoff, the terminal flag and the helper's answers are gone; whether a
retry is due is left open, and a poll may find anything among `Reports`.
`Controller` maps to it by `Part`, which groups its program counters.

`Frontend` composes it with everything that calls it:

| action | code |
|---|---|
| `Picks`, `Calls`, `Shows` (Menu) | `loop` of `menu.go`: a click on an item that is *shown* enabled or a tick, the call, `render` |
| `Accepts`, `Spawns`, `Calls`, `Answers` (Clients) | `Handle` and `dispatch` of `agent/server.go`; a connect gets a goroutine of its own |
| `SpawnedCalls` | that goroutine enters `Connect`, at some later time, and may be refused |
| `ReadsState`, then `Shows` or `Answers` | `State()` and `Message()`, two lock sections |
| `CallGoesOn` | the rest of a call, in `Orchestrator` |
| `AgentRestarts` | `cmd/agent.go`: all of it begins anew, with a first render |

`calm` is a history variable: since this reader's call returned nothing has
changed. Without it "the display is the state" would be false for a good reason,
the 5 s between two polls.

### Supervisor, HelperService

`Supervisor` holds the helper *and* the part of the operating system it relies
on: processes running or zombie, PIDs that are used again, unrelated processes
that may get the number on record, adoption of orphans, and the end of the
helper with all its goroutines and timers.

| action | code |
|---|---|
| `Start` | `Run` up to `Serve`, `reconcile` of `state.go` |
| `ConnectSpawns`, `ConnectRecords`, `ConnectWriteFails`, `ConnectReaps` | `connect`, all under the mutex (`mu`), cut where the process may die or block in between |
| `Line`, `ScanEnds`, `ScanStops`, `Reaps`, `ClosesDone`, `Clears` | `supervise` and `scan.go` |
| `Disconnect`, `Terminates` | `disconnect`: its lock section, then `terminateGroup` without the lock |
| `Escalates`, `StandsDown`, `EscalatesBlindly` | the goroutine of `terminateGroup`, with a `done` channel to watch and without |
| `AsksShutdown`, `Exits`, `Crashes` | ctx.Done, the end of `Run`, and any other end of the process |
| `ChildExits`, `ForeignStarts`, `ForeignExits` | environment |

`select` between the grace timer and a closed `done` picks either when both are
ready, so `Escalates` is not disabled by a closed `done`. A signal hits whatever
tunnel has the PID *now*. `ScanStops` is the 1 MiB limit of the scanner.

`RecordGaps` says whether the record may be missing: a write of `state.json`
or a removal of it that fails (errors are ignored), or a helper that ends between starting
openconnect and writing its PID. With `RecordGaps = FALSE` crashes and restarts
may happen everywhere except inside `connect`. The safety theorems need it
FALSE; the run `supervisor_gap` shows what happens otherwise. The constant makes
the assumption visible instead of leaving the case out.

`HelperService` is the promise to a client: one slot, a report, at most one
tunnel, in four variables and seven actions. The mapping is
`active <- cmd # NoTunnel`, `live <- Published # {}`, `report <- state`, where
`Published` are the running children that connect has let go of its mutex for.
It records, on purpose, what a client may *not* rely on: the report may move
away from `disconnected` again after a disconnect (`Line` after `HangUp`).

### VpnSystem

The controller and the helper's service, joined by round trips in three steps:
the agent asks, the helper handles, the agent applies. `Answer` lets the answer
arrive or get lost *after* the helper acted. `late` holds the commands that a
helper has received and handles after their caller's deadline, or after the
agent was replaced (`HandleLate`): the server neither knows nor asks whether
its client is still there. They end with the helper's process. `AgentRestarts`
puts a new `idle` controller beside a helper that goes on.

`VpnIntent` adds the history variable `wanted`, the user's intent: set by an
accepted connect, cleared by a disconnect that returned without error.

### IpcServer

`Listen`, `Serve` and `Close` of several processes on one socket path: the flock,
the path (which inode is there), and whose listeners are open. Every step that
changes one of them is an action, and a process may die between any two.
Closing a Unix listener unlinks its path, whoever's inode is there by then.
`AcceptFails` is the other way out of `Serve`: after any error of an accept the
process keeps the lock and the listener, and nobody accepts.

### Framing

`readLine` over a `bufio.Reader` whose buffer is smaller than a frame, filled by
the socket in portions of any size, until an end of file or an error. Bytes are
a newline, a carriage return, or anything else. `writeMessage` is `Writable`.
The reference, `Line`, cuts the whole stream at its newlines by `Pieces`, with no
buffer and no order of reading. `CapsAgree` asks both ways: what is returned
`writeMessage` may have written, what is refused it may not.

### HostAllowlist

`NewHostAllowlist` reads the entries of the root configuration one by one
(`ReadEntry`, `EndsLoad`); `NormalizeHost` and `Validate` are operators. A host
is a sequence of characters, one for each class the code tells apart. The code
compares *text* (`IsSuffix` with a dot in front); the reference compares *labels*,
the `Split` of `Pieces` that also stands for `strings.Split` in `NormalizeHost`.
`entries` keeps the raw entries, as a history, for the reference to read.

### Pieces

A sequence cut at its separators: the `k`-th cut is the place before which `k - 1`
separators are counted. Counting instead of recursion makes both references
something that can be reasoned about. The module has no state.

## 3. Runs

| run | module, cfg | instance | shows |
|---|---|---|---|
| controller | MCController, Controller.cfg | 2 goroutines, backoff 1, 2, 4 | all safety properties; a rejected session is retried; the authentication slot is freed; every call returns; refinement of Orchestrator |
| controller_backoff | MCController, ControllerBackoff.cfg | 1 goroutine | **violated**: finding 1 |
| frontend | MCFrontend, Frontend.cfg | the menu, 1 connection, 1 connect it started | display and answers are current; the menu catches up; no handler hangs |
| supervisor | MCSupervisor, Supervisor.cfg | 2 handlers and the shutdown goroutine, 2 tunnels, 2 PIDs | one tunnel, always on record; refinement of HelperService; a teardown ends |
| supervisor_gap | MCSupervisor, SupervisorGap.cfg | 1 handler, RecordGaps | **violated**: finding 2 |
| supervisor_shutdown | MCSupervisor, SupervisorShutdown.cfg | 1 handler | **violated**: finding 3 |
| system | MCVpnSystem, VpnSystem.cfg | 2 goroutines | the joined system is a Controller; the agent's picture converges |
| system_intent | MCVpnIntent, VpnIntent.cfg | 2 goroutines | **violated**: finding 4 |
| server | MCIpcServer, IpcServer.cfg | 3 processes | singleton, a dial reaches the lock holder, bind never fails on a leftover |
| server_close | MCIpcServer, IpcServerClose.cfg | 3 processes | **violated**: finding 5 |
| framing | Framing, Framing.cfg | frames of 4 bytes, buffer 2, streams of 7 | frames are lines, nothing lost, caps agree |
| hosts | MCHostAllowlist, HostAllowlist.cfg | 2 entries of 3 characters, hosts of 5 | the allowlist permits what its entries name; spelling is irrelevant |

**Bounds, and why they suffice.** Two goroutines are the least that can be in
each other's way in the controller, and what a lock section reads of other
goroutines is only the shared fields: a third one adds no new value to them. The
theorems cover any number. A backoff table of three different values (1, 2, 4)
tells apart reset, scheduled again and capped. Two tunnels and two PIDs let a
PID be used again while the state file still names it, by a tunnel or by a
stranger; with two handlers and the shutdown goroutine a disconnect and a
connect race while a third one tears down. Identities of tunnels return to use
when nothing refers to them, so behaviours of any length are covered, not two
connections only. In the server three processes are one on its way out, one
that takes over, and one that waits. A frame of 4 bytes over a buffer of 2 is
the least at which a line fills the buffer more than once; streams of 7 hold a
full frame, another one and an oversized line. In `Frontend` one connection and
one connect it has started are the least with all three kinds of goroutine at
work at once; what one reader finds depends on the others only through the
controller, where two of them already produce every change, and the theorems
cover any number. Two reports, a lively and a dead one, reach every branch of
`Observe`; one text is enough to tell a message from none. In `HostAllowlist` a
domain, its subdomain and a sibling with the same text fit into five characters
("b", "a.b", "ab"), and the caps, 3 for a host and 2 for a label in place of 253
and 63, can be hit and passed by one, also by the dot that is dropped before the
length is looked at. Nothing is symmetric-reduced, so
the liveness checks are sound.

**Fairness.** Weak fairness of the steps a goroutine owes once its call has
begun (the Go scheduler), of a round trip's end (every `DoTunnel` has a 30 s
deadline), of time, and of the helper's own goroutines, timers and restart
(launchd KeepAlive). One assumption is about openconnect and not about this
code: `openconnect --authenticate` exits. Nothing in the code bounds it, which
`PROJECT.json` lists as a hazard. `RejectedIsRetried`, `AgentSeesTunnel` and
`AgentSeesLoss` need the poll: the menu's ticker fires for ever and Go's
`select` picks at random among ready cases, hence strong fairness of `Refresh`;
and every so often a poll is answered, hence strong fairness of an answered
status call, without which nothing could be known of the helper. In `Frontend` the menu's loop, every
handler and every spawned goroutine run, each with one weak fairness for all it
does next, and the loop's ticker goes off; that the calls they make return is
`CallsReturn` of the controller. `MenuCatchesUp` and `AgentSeesTunnel` are about
an agent that is not replaced any more: an agent restarted for ever shows
nothing for long. Nothing is
assumed of openconnect's cooperation in a teardown (`TeardownFreesSlot` holds
even if it ignores SIGTERM), nor that a crash, a line or a shutdown happens.

`CHECK_DEADLOCK` is FALSE in `Framing.cfg`, where a reader stops after an error or
at the end of its stream, and in `HostAllowlist.cfg`, where a load ends.

## 4. Findings

Each is a run whose one property states what a comment or
`docs/REWRITE_PLAN.md` says, and which TLC refutes. The quoted lines are in
`PROJECT.json`.

1. **Backoff does not grow** (`BackoffGrowsWithDrops`). `handToHelper` resets the
   retry count when the helper accepts the cookie. A gateway that drops every
   new session is met with the base delay for ever.
2. **Two tunnels after a gap in the record** (`OneTunnel` with RecordGaps). The
   PID is recorded after openconnect has its cookie, and a failed write is
   ignored; a helper that restarts then starts a competing tunnel.
3. **A shutdown can leave an unsignalled tunnel** (`ShutdownSignalsTunnel`). The
   socket still serves between the shutdown's `disconnect` and `Close`.
4. **Disconnected is not quiet** (`QuietAfterDisconnect`). `Disconnect` does not
   call off an authentication in flight, and `handToHelper` does not ask whether
   the tunnel is still wanted: the helper accepts the cookie after the disconnect
   has returned. That is the trace. The model, like the code, has a longer way to
   the same end, which the trace does not show: a late line of the dying
   openconnect puts the helper back to `connected`, and an agent that sees this
   and then the end takes it for a dropped session and authenticates by itself.
5. **A closing server removes its successor's socket** (`ServingIsReachable`).
   `Close` removes the path once more after it has released the lock.

Seen while modelling, without a run of their own: a `status` request is not
always the "fast helper round trip" of `internal/agent/server.go:94-95` nor
"without changing it" (`internal/ipc/message.go:29`), for its `Refresh` may
authenticate (`OnlyStatusLasts` says that it is the only request that can last so
long). A keychain failure's guidance is shown until the next poll, which turns
`auth_failed` into `disconnected`. `Serve` ends after any failed accept, not only
"until Close is called" (`internal/ipc/server.go:116`). `reconcile` of a second
helper reads and removes the record before it asks for the lock. The configured
uid is cut to 32 bits unchecked (`internal/config/config.go:134`).

## 5. Proofs

All theorems hold for every value of the constants under the named ASSUMEs of
the modules, which TLC evaluates for the instances.

| theorem | module | statement |
|---|---|---|
| TypeCorrectness, SingleFlight, NoGhostAuthentication, BackoffAgreement | ControllerProofs | `Spec => []` of `TypeOK`, `OneAuth`, `AuthenticatingIsBacked`, `CooldownFitsAttempts` |
| PollsDoNotDisturb | ControllerProofs | `Spec => AuthNotDisturbed` (an action property) |
| KeychainFailureIsTerminal | ControllerProofs | `HSpec => KeychainFailureStops` (an action property) |
| HTypeCorrectness | ControllerProofs | `HSpec => []HTypeOK` |
| Implementation | ControllerProofs | `Spec => ImplementsOrchestrator` |
| BackoffSchedule | ControllerProofs | for every base and cap `NextBackoff` is in `1..max`, doubles until it reaches the cap by attempt `max` at the latest, never decreases, and stays put once two attempts wait as long |
| TypeCorrectness, DisplayIsCurrent, OnlyStatusWaits | FrontendProofs | `Spec => []` of `TypeOK`, `ShownIsCurrent`, `OnlyStatusLasts` |
| AnswersDescribeTheEnd | FrontendProofs | `Spec => AnswersAreCurrent` (an action property) |
| TypeCorrectness, SingleTunnel, RecordIsKept, SupervisionIsExact, ReportIsHonest | SupervisorProofs | with `~RecordGaps`, `Spec => []` of `TypeOK` and the four invariants |
| Implementation | SupervisorProofs | with `~RecordGaps`, `Spec => ImplementsService` |
| Composition | VpnSystemProofs | `Spec => ImplementsController` |
| JoinedSafety | VpnSystemProofs | `Spec => []` of the agent's `OneAuth`, `AuthenticatingIsBacked`, `CooldownFitsAttempts` |
| JoinedImplementation | VpnSystemProofs | `Spec =>` the agent's `ImplementsOrchestrator` |
| Invariance, Singleton, BindSucceeds, DialIsSafe | IpcServerProofs | `Spec => []` of `IInv` and its three named parts |
| LinesReturned, SameCap, Losslessness, Boundedness | FramingProofs | `Spec => []` of `FramesAreLines`, `CapsAgree`, `NothingIsLost`, `BufferIsBounded` |
| StoresNames, DomainsPermitted, SpellingDoesNotMatter | HostAllowlistProofs | `Spec => []` of `TypeOK`, `PermitsByLabels`, `SpellingIsIrrelevant` |

**Controller.** `IInv` is the type invariant, the three safety invariants and
`RepliesAreHelpers`. `OneAuth` is inductive because it ties the flag to the
program counters from both sides; `AuthenticatingIsBacked` needs it (an outcome
of one task must not leave the state to another), and `RepliesAreHelpers` is
needed so that no answer can bring in `authenticating` from outside.
`KeychainFailureStops` adds the invariant `stopped => terminal`: a standing keychain
failure is still recorded in the flag that `beginAuth` reads. `Implementation` maps
each lock section to a step of `Orchestrator` or a stutter; it needs in addition
that a goroutine holds only answers the helper gives to the call it is in
(`AnswersFit`).

**Frontend.** `FInv` adds to the type invariant and `ShownIsCurrent` the two facts
they rest on: a call is under way only for the request its reader works on, and
while that reader waits for it (`CallsAreRequests`, from which `OnlyStatusLasts`
follows); and what a calm reader has read is what the controller still says
(`CalmIsCurrent`), so that a display put together from two lock sections is right
once it is complete. The lemmas on calls isolate what the proof needs of
`Orchestrator`: a call only moves on within its own request, and its last step is
the one `Watches` sees.

**Supervisor.** `OneTunnel` alone is not inductive: a connect only looks at
`cmd`. `IInv` explains why that is enough. Every process that exists is current,
or held by the connect that owns the mutex, or an orphan of a helper that does
not run (`ChildrenAreKept`, `DownIsBlank`); the mutex belongs to just one
connect (`MutexIsConnects`); running tunnels that are not held are on record
(`RecordCoversTunnel`) and, since PIDs are distinct (`PidsAreDistinct`), the
record is of one of them. At a restart `NoOrphanAtStart` turns the record into
"no tunnel runs". `SupervisedIsCurrent` closes the loop: what is current has a
goroutine that will clear it. `Implementation` maps each action to one of
`HelperService` or a stutter, one lemma per group of actions.

**VpnSystem.** The helper reports one of its own states, and not `idle` while it
has a tunnel (`HelperInv`). So each of its answers is one that `Controller`
allows at that point (`AnswerIsExpected`), every other step is a step of one
side. So the theorems of `ControllerProofs` hold of the joined system;
`JoinedSafety` and `JoinedImplementation` carry them over, for every table that
`BackoffAssumption` allows. `VpnSystemProofs` takes them from an instance of
`ControllerProofs` of its own, and the `Same...` lemmas say that its formulas are
those of the instance the system is built from.

**IpcServer.** `IInv` adds to the three invariants that a listener is open just
between bind and its close, on every way out.

**Backoff.** `Doubled` is a recursive function, which exists only if somebody
shows it: `TurnsExist` builds the values of the first `n` turns of the loop,
`TurnsAgree` says that longer tables extend shorter ones, and `DoubledMeans`
concludes that the function satisfies its own equation. The induction is on
sets (`Upwards`), from the well-foundedness of `<`. `BackoffSchedule` is also
what makes a table that ends at `AttemptCap` exact: TLC checks for the instances
that two values in a row agree there (`CapIsExact`), and by the theorem all
later ones do.

**Pieces.** How many separators come before a place grows by at most one from a
place to the next. So there is just one place for each number of them
(`CutExists`, `CutIsUnique`, by a least counterexample), splitting is injective
(`SplitIsInjective`), and a suffix that starts behind a separator consists of the
last pieces (`SuffixByPieces`).

**Framing.** `FInv` says where the reader is in the stream. What it stores and the
socket still holds is what follows the cut of the last frame it returned
(`Place`), and the part of that line it has put aside holds no newline; so the
first newline in the window ends the next line (`NextLine`). `FramesAreLines`
is part of it. A refusal may happen before the end of the line has arrived: all
that is stored is part of that one line (`StoredIsWithin`), so the line is
already too long for `writeMessage`, whatever follows (`RefusedIsLong`). And since
the test comes before the storing, what is put aside never exceeds one frame
(`BufferIsBounded`). A line that is returned is all that was put aside and what
was found in the window, and its length passed that test; so it is one
`writeMessage` may have written, and with the refusals both ends have the same
cap (`SameCap`). `Losslessness` restates the place while lines are read
(`StoredIsTheRest`); when reading fails no newline is in the window nor in what is
put aside, so as many lines were returned as have ended in what arrived
(`ArrivedIsReturned`).

**HostAllowlist.** `HInv` says that `exact` and `suffixes` are what the entries
read so far spell, without and with a leading dot, each normalized. Normalizing is
idempotent, because a name has no dot at its end to be dropped again
(`NormalizedStays`), and blind to capitals (`CapitalsFold`) and to a dot at the end
(`DotAtEndIsDropped`), which gives `SpellingDoesNotMatter`. A name ends in a dot followed by the text of another
exactly if its labels end in the other's (`TextDecidesLabels`, from
`SuffixByPieces`), and what an entry spells, label by label, is what is stored of
it (`SpelledIsStored`), which gives `DomainsPermitted`.

**Checked by TLC only.** Liveness: `RejectedIsRetried`, `AuthSlotIsFreed`,
`CallsReturn`, `TeardownFreesSlot`, `AgentSeesTunnel`, `AgentSeesLoss`,
`MenuCatchesUp` and `HandlersEnd`, which are beyond this prover, and the five
findings, which are counterexamples. Every invariant and every action property
of a passing run is a theorem.

## 6. Not modelled

* Requests with an unknown command, or that cannot be read: their handlers return
  at once and change nothing.
* Single connections of `ipc.Server`: those in the backlog when the listener
  closes, and handlers that `Close` does not wait for. In `VpnSystem` the former
  are calls that fail, the latter are `late` requests.
* Two helpers at one time. launchd keeps one; `Supervisor` has one process that ends
  and starts again.
* The checks of single configuration fields (a prefix, an absolute path, a
  positive uid): comparisons, made once.
* The texts of messages and errors, JSON, log lines, argv and environment.
* Peer credentials and the authorization of peers, the ownership and mode of
  files: a system call and its comparison.
* The regular expressions of `scan.go` and the parsing in `auth.go`: string
  processing. What they can *result in* is in `Supervisor!Line` and the three
  outcomes of an authentication.
* A corrupt `state.json`: `reconcile` removes it and the helper starts, as it does
  with a missing one, which `RecordGaps` covers.
* Commands, logger, icon, activation: wiring.

## 7. Plan

Done: the controller with its abstract specification and refinement; the front
ends over it; the supervisor with its abstract specification and refinement;
both joined, with restarts and late requests; the server's life cycle; the
framing; the allowlist; for every safety property of a passing run a proof.

Left, in this order:

1. Two helpers started side by side, with `reconcile` before `Listen`:
   `IpcServer` and the record of `Supervisor` composed.
2. Connections of `ipc.Server` during `Close`.
3. The whole agent: `Frontend` over `VpnSystem` instead of over `Orchestrator`, which
   the two refinements make unnecessary for safety but not for liveness.
4. The checks of configuration fields, with the width of the uid.
5. Proofs: that without finding 5's last removal `ServingIsReachable` is an
   invariant; `KeychainFailureStops` of the joined system, which needs the
   history variables beside it.
