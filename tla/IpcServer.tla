------------------------------ MODULE IpcServer ------------------------------
(***************************************************************************)
(* The life of ipc.Server (internal/ipc/server.go), which both the agent   *)
(* and the helper run on a socket path of their own.  Several processes    *)
(* may be started on the same path: one that closes or has crashed, and    *)
(* one that takes over.  They share the lock file and the path; each step  *)
(* that changes one of them is an action, since another process's may come *)
(* in between.                                                             *)
(***************************************************************************)
EXTENDS FiniteSets

CONSTANTS Servers, NoOne

ASSUME ServersAssumption == NoOne \notin Servers

VARIABLES
    pc,        \* where each process is in Listen, Serve or Close
    holder,    \* the process whose open file holds the flock
    path,      \* the process that bound the socket inode at SocketPath
    listening  \* processes whose listener is open

vars == <<pc, holder, path, listening>>

Labels == {"off", "starting", "locked", "cleaned", "bound", "serving", "deaf",
           "undoing", "closing", "unlocked"}

\* Every variable holds a value of its type.
TypeOK ==
    /\ pc \in [Servers -> Labels]
    /\ holder \in Servers \cup {NoOne}
    /\ path \in Servers \cup {NoOne}
    /\ listening \subseteq Servers

Init ==
    /\ pc = [i \in Servers |-> "off"]
    /\ holder = NoOne
    /\ path = NoOne
    /\ listening = {}

-----------------------------------------------------------------------------
Moves(i, from, to) == pc[i] = from /\ pc' = [pc EXCEPT ![i] = to]

Releases(i) == holder' = IF holder = i THEN NoOne ELSE holder

(* Listen. *)

\* The configuration is checked; securing the directory and locking come next.
Begins(i) == Moves(i, "off", "starting") /\ UNCHANGED <<holder, path, listening>>

\* A slip: the result of flock is ignored.
LockIsTaken(i) == TRUE
LockIsFree(i)  == holder = NoOne

AcquireLock(i) ==
    /\ LockIsFree(i)
    /\ Moves(i, "starting", "locked")
    /\ holder' = i
    /\ UNCHANGED <<path, listening>>

\* The directory cannot be made, or is not a directory of the right owner.
DirRefused(i) == Moves(i, "starting", "off") /\ UNCHANGED <<holder, path, listening>>

\* "another instance holds" the lock; the flock does not block.
LockRefused(i) ==
    /\ ~LockIsFree(i)
    /\ Moves(i, "starting", "off")
    /\ UNCHANGED <<holder, path, listening>>

\* A slip: a leftover socket is taken for a running server's and left alone.
KeepsStaleSocket(i) == Moves(i, "locked", "cleaned") /\ UNCHANGED <<holder, path, listening>>

RemoveStaleSocket(i) ==
    /\ Moves(i, "locked", "cleaned")
    /\ path' = NoOne
    /\ UNCHANGED <<holder, listening>>

\* bind, which fails if there is something at the path.
ListenUnix(i) ==
    /\ path = NoOne
    /\ Moves(i, "cleaned", "bound")
    /\ path' = i
    /\ listening' = listening \cup {i}
    /\ UNCHANGED holder

\* chmod and chown succeed; Serve accepts from here on.
Serves(i) == Moves(i, "bound", "serving") /\ UNCHANGED <<holder, path, listening>>

\* An accept that fails ends the loop of Serve for good, whatever the error.
\* Nothing is closed: the helper exits with it, but the agent lives on.
AcceptFails(i) == Moves(i, "serving", "deaf") /\ UNCHANGED <<holder, path, listening>>

\* A slip: the path is unlinked, the listener stays open.
UnlinkOnly(i) == path' = NoOne /\ UNCHANGED listening

\* Closing a listener unlinks its path first, whatever inode is there by now.
Unlisten(i) == path' = NoOne /\ listening' = listening \ {i}

\* chmod or chown fails: the listener is closed, then the lock.
ChownFails(i) == Moves(i, "bound", "undoing") /\ Unlisten(i) /\ UNCHANGED holder

\* Removing the stale socket or listening fails, or chown has failed.
ListenFails(i) ==
    /\ pc[i] \in {"locked", "cleaned", "undoing"}
    /\ pc' = [pc EXCEPT ![i] = "off"]
    /\ Releases(i)
    /\ UNCHANGED <<path, listening>>

(* Close: the listener, the lock, and once more the path. *)

\* A slip: the lock goes first.
CloseLockFirst(i) ==
    /\ Moves(i, "serving", "closing")
    /\ Releases(i)
    /\ UNCHANGED <<path, listening>>

CloseListener(i) ==
    /\ pc[i] \in {"serving", "deaf"}
    /\ pc' = [pc EXCEPT ![i] = "closing"]
    /\ Unlisten(i)
    /\ UNCHANGED holder

CloseLock(i) == Moves(i, "closing", "unlocked") /\ Releases(i) /\ UNCHANGED <<path, listening>>

RemoveSocket(i) ==
    /\ Moves(i, "unlocked", "off")
    /\ path' = NoOne
    /\ UNCHANGED <<holder, listening>>

(* The process is gone: its files are closed, the socket inode stays.  Serve *)
(* returns with its listener, so an exit may also cut Close short.           *)
Dies(i) ==
    /\ pc[i] # "off"
    /\ pc' = [pc EXCEPT ![i] = "off"]
    /\ Releases(i)
    /\ listening' = listening \ {i}
    /\ UNCHANGED path

-----------------------------------------------------------------------------
Listen(i) ==
    AcquireLock(i) \/ RemoveStaleSocket(i) \/ ListenUnix(i) \/ Serves(i)
Fails(i)  ==
    DirRefused(i) \/ LockRefused(i) \/ ChownFails(i) \/ ListenFails(i) \/ AcceptFails(i)
Close(i)  == CloseListener(i) \/ CloseLock(i) \/ RemoveSocket(i)

Next == \E i \in Servers : Begins(i) \/ Listen(i) \/ Fails(i) \/ Close(i) \/ Dies(i)

Spec == Init /\ [][Next]_vars

-----------------------------------------------------------------------------
(* Properties. *)

HoldsLock == {"locked", "cleaned", "bound", "serving", "deaf", "undoing", "closing"}

\* One process at a time is between taking the lock and letting it go, and the
\* lock is that process's: whoever gets it may treat what it finds as stale.
OneServer == \A i \in Servers : pc[i] \in HoldsLock <=> holder = i

\* A client that gets through to a listener gets through to the lock holder:
\* a process on its way out is never mistaken for its successor.
DialReachesHolder == path \in listening => holder = path

\* bind never finds the address in use: nothing a predecessor left, crashed
\* or closing at whatever point, stands in the way of the next server.
BindFindsPathFree == \A i \in Servers : pc[i] = "cleaned" => path = NoOne

\* A server that serves can be dialled.  The code does not keep this: the last
\* step of a Close may remove the socket of the successor, which got the lock
\* in the meantime and now listens where nobody can find it.
ServingIsReachable == \A i \in Servers : pc[i] = "serving" => path = i

\* The inductive invariant: the named invariants, and that a listener is open
\* just between bind and the close of the listener, on every way out.
IInv ==
    /\ TypeOK
    /\ OneServer
    /\ DialReachesHolder
    /\ BindFindsPathFree
    /\ \A i \in Servers : i \in listening <=> pc[i] \in {"bound", "serving", "deaf"}
=============================================================================
