--------------------------- MODULE IpcServerProofs ---------------------------
(***************************************************************************)
(* Theorems of IpcServer, for any number of processes on one path.         *)
(* The invariant is inductive as stated: the lock says who may touch the   *)
(* path, and an open listener at the path is the lock holder's.            *)
(***************************************************************************)
EXTENDS IpcServer, TLAPS

\* NewServer: nothing runs, the lock is free and the path empty.
LEMMA InitIInv == Init => IInv
  BY ServersAssumption
     DEF Init, IInv, TypeOK, OneServer, DialReachesHolder, BindFindsPathFree,
         Labels, HoldsLock

\* Each step of Listen keeps the invariant: it is taken by the lock holder, or
\* by a process that finds the lock free.
LEMMA ListenKeeps ==
  ASSUME IInv, NEW i \in Servers, Begins(i) \/ Listen(i)
  PROVE  IInv'
  <1> USE ServersAssumption
      DEF IInv, TypeOK, OneServer, DialReachesHolder, BindFindsPathFree,
          Labels, HoldsLock, Moves
  <1>1. CASE Begins(i)
    BY <1>1 DEF Begins
  <1>2. CASE AcquireLock(i)
    BY <1>2 DEF AcquireLock, LockIsFree
  <1>3. CASE RemoveStaleSocket(i)
    BY <1>3 DEF RemoveStaleSocket
  <1>4. CASE ListenUnix(i)
    BY <1>4 DEF ListenUnix
  <1>5. CASE Serves(i)
    BY <1>5 DEF Serves
  <1> QED
    BY <1>1, <1>2, <1>3, <1>4, <1>5 DEF Listen

\* Each failure, of Listen or of an accept, keeps it.
LEMMA FailsKeeps ==
  ASSUME IInv, NEW i \in Servers, Fails(i)
  PROVE  IInv'
  <1> USE ServersAssumption
      DEF IInv, TypeOK, OneServer, DialReachesHolder, BindFindsPathFree,
          Labels, HoldsLock, Moves
  <1>1. CASE DirRefused(i) \/ LockRefused(i)
    BY <1>1 DEF DirRefused, LockRefused
  <1>2. CASE ChownFails(i)
    BY <1>2 DEF ChownFails, Unlisten
  <1>3. CASE ListenFails(i)
    BY <1>3 DEF ListenFails, Releases
  <1>4. CASE AcceptFails(i)
    BY <1>4 DEF AcceptFails
  <1> QED
    BY <1>1, <1>2, <1>3, <1>4 DEF Fails

\* Close and the end of the process keep it.
LEMMA CloseKeeps ==
  ASSUME IInv, NEW i \in Servers, Close(i) \/ Dies(i)
  PROVE  IInv'
  <1> USE ServersAssumption
      DEF IInv, TypeOK, OneServer, DialReachesHolder, BindFindsPathFree,
          Labels, HoldsLock, Moves
  <1>1. CASE CloseListener(i)
    BY <1>1 DEF CloseListener, Unlisten
  <1>2. CASE CloseLock(i)
    BY <1>2 DEF CloseLock, Releases
  <1>3. CASE RemoveSocket(i)
    BY <1>3 DEF RemoveSocket
  <1>4. CASE Dies(i)
    BY <1>4 DEF Dies, Releases
  <1> QED
    BY <1>1, <1>2, <1>3, <1>4 DEF Close

\* The inductive invariant holds of every reachable state.
THEOREM Invariance == Spec => []IInv
  <1>1. IInv /\ [Next]_vars => IInv'
    <2> SUFFICES ASSUME IInv, [Next]_vars PROVE IInv'
      OBVIOUS
    <2>1. CASE UNCHANGED vars
      BY <2>1 DEF vars, IInv, TypeOK, OneServer, DialReachesHolder, BindFindsPathFree
    <2>2. ASSUME NEW i \in Servers, Begins(i) \/ Listen(i) \/ Fails(i) \/ Close(i) \/ Dies(i)
          PROVE  IInv'
      BY <2>2, ListenKeeps, FailsKeeps, CloseKeeps
    <2> QED
      BY <2>1, <2>2 DEF Next
  <1> QED
    BY <1>1, InitIInv, PTL DEF Spec

\* The flock makes the server a singleton: between acquireLock and its release
\* there is one process, whatever crashes, failures and closes came before.
THEOREM Singleton == Spec => []OneServer
  <1>1. IInv => OneServer
    BY DEF IInv
  <1> QED
    BY <1>1, Invariance, PTL

\* The address is free when it is bound, so no leftover of a predecessor keeps
\* a server from starting.
THEOREM BindSucceeds == Spec => []BindFindsPathFree
  <1>1. IInv => BindFindsPathFree
    BY DEF IInv
  <1> QED
    BY <1>1, Invariance, PTL

\* Whoever dials the path and gets through talks to the lock holder.
THEOREM DialIsSafe == Spec => []DialReachesHolder
  <1>1. IInv => DialReachesHolder
    BY DEF IInv
  <1> QED
    BY <1>1, Invariance, PTL
=============================================================================
