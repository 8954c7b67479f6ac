------------------------- MODULE ThreadServerProofs -------------------------
(***************************************************************************)
(* Proofs about ThreadServer, for any number of starts and clients, any    *)
(* width of unsigned long and any results of Initialize.                   *)
(***************************************************************************)
EXTENDS ThreadServer, TLAPS

\* No code that Initialize returns turns into ERROR_STILL_ALIVE.
HonestResults == \A r \in InitResults : ToULong(r) # ERROR_STILL_ALIVE

\* Threads that Start and Execute have not created yet.
Fresh == \A t \in Threads : t > started => thread[t] = "absent"

(***************************************************************************)
(* The inductive invariant of a careful host.                              *)
(***************************************************************************)
Bound == {"publish"} \cup Serving
Listening == {"store"} \cup Bound

\* One server thread, the recorded one, with the arguments of its own Start.
OneThread == \A t \in Threads : thread[t] \in Live => m_lpThread = t /\ args = t

\* The ip string is alive as long as its thread may still read it, and the
\* one that a thread reads is its own.
IpKept == \A t \in Threads :
    /\ t \in ipFreed => t <= started
    /\ thread[t] \in {"init", "bind", "handle", "address"} => t \notin ipFreed
    /\ thread[t] \in {"handle", "address"} => ip[t] = t

\* Handles and threads go together.
NotListening == {"absent", "init", "bind", "handle", "address", "listen", "failed"}

NoEarlyHandle == \A t \in Threads : thread[t] \in NotListening => handle[t] \in {"none", "idle"}

SocketIsOwn == \A t \in Threads : thread[t] \in Bound => m_socket = t

OpenWhileIdle == hostAt = "idle" => \A t \in Threads : thread[t] \in Listening => handle[t] = "active"

\* Only the recorded server has an open port, and only until it is closed.
OpenIsRecorded == \A t \in Threads :
    handle[t] = "active" => m_lpThread = t /\ hostAt \in {"idle", "recv", "close"}

\* Stop is the only operation a careful host is ever in, and the thread it
\* stops is the one that bound the socket, and has been in the loop.
Stopping ==
    \/ hostAt = "idle" /\ hostOp = "none"
    \/ /\ hostAt \in {"recv", "close", "stop", "join"} /\ hostOp = "Stop"
       /\ m_lpThread \in Threads /\ m_socket = m_lpThread
       /\ thread[m_lpThread] \in Serving \cup {"exited"}

Closable == hostAt \in {"recv", "close"} =>
    m_socket \in Threads /\ handle[m_socket] \in {"active", "idle"}

CarefulInv ==
    /\ NoFault /\ StillAliveIsTrue /\ Fresh
    /\ OneThread /\ IpKept /\ NoEarlyHandle /\ SocketIsOwn
    /\ OpenWhileIdle /\ OpenIsRecorded /\ Stopping /\ Closable

\* The statements of Bind, and of Execute when it has failed.
BindStep(t) ==
    \/ Bind(t) \/ InitHandle(t) \/ BindAddress(t) \/ Listen(t) \/ StoreSocket(t) \/ BindFailed(t)

-----------------------------------------------------------------------------
\* A C int stored in an unsigned long is an unsigned long.
LEMMA ToULongRange ==
    ASSUME NEW r \in Int
    PROVE  ToULong(r) \in 0 .. ULONG_MAX
BY WidthAssumption DEF ToULong

\* Closing handles and running close callbacks keep a table a table.
LEMMA HandleTables ==
    ASSUME handle \in [Threads -> HandleStates], NEW t \in Threads
    PROVE  /\ MarkClosing(handle, t) \in [Threads -> HandleStates]
           /\ OnClose(handle) \in [Threads -> HandleStates]
BY DEF MarkClosing, OnClose, HandleStates

\* What a libuv call may raise is one of the model's faults.
LEMMA CallFaults ==
    ASSUME handle \in [Threads -> HandleStates], NEW p \in Threads \cup {NULL}
    PROVE  /\ PointerFault(handle, p) \in Faults
           /\ CloseFault(handle, p) \in Faults
           /\ p = NULL => CloseFault(handle, p) # "none" /\ PointerFault(handle, p) # "none"
BY DEF PointerFault, CloseFault, Faults

USE DEF NULL

\* The states of the model are well typed, whatever the host and the module do.
LEMMA TypeStep == TypeOK /\ [Next]_vars => TypeOK'
<1> SUFFICES ASSUME TypeOK, [Next]_vars PROVE TypeOK'
  OBVIOUS
<1> USE BoundsAssumption, WidthAssumption DEF TypeOK, Threads, object, loop, host
<1>1. CASE UNCHANGED vars
  BY <1>1 DEF vars
<1>2. CASE Start
  <2>1. started' \in 1 .. MaxStarts
    BY <1>2 DEF Start
  <2>2. thread' \in [Threads -> ThreadStates] /\ m_lpThread' \in Threads \cup {NULL}
    BY <1>2, <2>1 DEF Start, ThreadStates, Live, Before
  <2>3. ipFreed' \subseteq Threads
    BY <1>2 DEF Start
  <2>4. started' \in 0 .. MaxStarts /\ args' \in Threads \cup {NULL}
    BY <1>2, <2>1 DEF Start
  <2> QED
    BY <1>2, <2>2, <2>3, <2>4 DEF Start
<1>3. CASE ReleaseArguments
  BY <1>3 DEF ReleaseArguments
<1>4. CASE Stop \/ StopServer \/ Destroy
  BY <1>4 DEF Stop, StopServer, Destroy, HostGoes, HostOps, HostSteps
<1>5. CASE Execute
  BY <1>5 DEF Execute, HostGoes, HostOps, HostSteps, ThreadStates, Live, Before
<1>6. CASE RecvStop
  BY <1>6, CallFaults DEF RecvStop, HostSteps, HandleStates
<1>7. CASE CloseSocket
  BY <1>7, CallFaults, HandleTables DEF CloseSocket, HostSteps
<1>8. CASE LoopStop
  BY <1>8 DEF LoopStop, HostGoes, HostOps, HostSteps
<1>9. CASE Join
  BY <1>9 DEF Join, HostGoes, HostOps, HostSteps
<1>10. CASE ExecuteReturns
  BY <1>10 DEF ExecuteReturns, HostGoes, HostOps, HostSteps
<1>11. CASE FreeSocket
  BY <1>11 DEF FreeSocket, HostSteps, HandleStates, Faults
<1>12. CASE LoopClose
  BY <1>12 DEF LoopClose, HostSteps, Faults
<1>13. CASE ThreadOutlivesObject
  BY <1>13 DEF ThreadOutlivesObject, Faults
<1>14. ASSUME NEW t \in Threads, Initialize(t)
       PROVE  TypeOK'
  BY <1>14, InitAssumption, ToULongRange
     DEF Initialize, ThreadStates, Live, Before, Binding
<1>15. ASSUME NEW t \in Threads, BindStep(t)
       PROVE  TypeOK'
  <2> USE DEF ThreadGoes, ThreadStates, Live, Before, Binding
  <2>1. CASE Bind(t)
    BY <2>1 DEF Bind
  <2>2. CASE InitHandle(t) \/ Listen(t)
    BY <2>2 DEF InitHandle, Listen, HandleStates
  <2>3. CASE BindAddress(t)
    BY <2>3 DEF BindAddress, Faults
  <2>4. CASE StoreSocket(t)
    BY <2>4 DEF StoreSocket
  <2>5. CASE BindFailed(t)
    <3>1. m_ulExitCode' \in 0 .. ULONG_MAX
      BY <2>5 DEF BindFailed, ERROR_BIND_ERROR
    <3> QED
      BY <2>5, <3>1 DEF BindFailed
  <2> QED
    BY <1>15, <2>1, <2>2, <2>3, <2>4, <2>5 DEF BindStep
<1>16. ASSUME NEW t \in Threads, Publish(t) \/ Enter(t) \/ Poll(t) \/ EndDispatch(t) \/ Check(t)
       PROVE  TypeOK'
  <2> USE DEF ThreadStates, Live, Serving, InLoop, Returning
  <2>1. CASE Publish(t)
    BY <2>1 DEF Publish, ThreadGoes, ERROR_STILL_ALIVE
  <2>2. CASE Enter(t) \/ Check(t)
    <3>1. LoopTest(t) => /\ thread' \in [Threads -> ThreadStates]
                         /\ stop_flag' \in BOOLEAN
      BY DEF LoopTest
    <3>2. /\ thread' \in [Threads -> ThreadStates] /\ stop_flag' \in BOOLEAN
          /\ fault' \in Faults
      BY <2>2, <3>1 DEF Enter, Check, Faults
    <3> QED
      BY <2>2, <3>2 DEF Enter, Check
  <2>3. CASE Poll(t) \/ EndDispatch(t)
    BY <2>3 DEF Poll, EndDispatch, ThreadGoes
  <2> QED
    BY <1>16, <2>1, <2>2, <2>3
<1>17. ASSUME NEW t \in Threads, RunClosing(t)
       PROVE  TypeOK'
  BY <1>17, HandleTables DEF RunClosing, ThreadGoes, ThreadStates, Live, Serving, InLoop
<1>18. ASSUME NEW t \in Threads, ReturnFromLoop(t)
       PROVE  TypeOK'
  BY <1>18 DEF ReturnFromLoop, ThreadStates
<1>19. ASSUME NEW t \in Threads, Network(t)
       PROVE  TypeOK'
  <2>1. CASE Wake(t)
    BY <2>1 DEF Wake, ThreadGoes, ThreadStates, Live, Serving, InLoop
  <2>2. CASE ClientEvent(t)
    <3>1. clients' \in 0 .. MaxClients
      BY <2>2 DEF ClientEvent
    <3> QED
      BY <2>2, <3>1 DEF ClientEvent
  <2> QED
    BY <1>19, <2>1, <2>2 DEF Network
<1>20. ASSUME NEW t \in Threads, HandlerStops(t)
       PROVE  TypeOK'
  BY <1>20, CallFaults, HandleTables DEF HandlerStops
<1> QED
  BY <1>1, <1>2, <1>3, <1>4, <1>5, <1>6, <1>7, <1>8, <1>9, <1>10, <1>11, <1>12, <1>13,
     <1>14, <1>15, <1>16, <1>17, <1>18, <1>19, <1>20
     DEF Next, HostCall, HostStep, ServerThread, BindStep

\* TypeOK is an invariant of every host and every module.
THEOREM TypeCorrect == Spec => []TypeOK
<1>1. Init => TypeOK
  <2> SUFFICES ASSUME Init PROVE TypeOK
    OBVIOUS
  <2>1. thread \in [Threads -> ThreadStates] /\ handle \in [Threads -> HandleStates]
    BY DEF Init, ThreadStates, HandleStates
  <2>2. ipFreed \subseteq Threads /\ ip \in [Threads -> Threads \cup {NULL}] /\ stop_flag \in BOOLEAN /\ m_bUDP \in BOOLEAN
    BY DEF Init
  <2>3. m_ulExitCode \in 0 .. ULONG_MAX /\ clients \in 0 .. MaxClients /\ started \in 0 .. MaxStarts
    BY BoundsAssumption, WidthAssumption DEF Init, ERROR_NONE
  <2> QED
    BY <2>1, <2>2, <2>3 DEF Init, TypeOK, HostOps, HostSteps, Faults
<1> QED
  BY <1>1, TypeStep, PTL DEF Spec

-----------------------------------------------------------------------------
(***************************************************************************)
(* StillAliveIsTrue, for every host and module.  Fresh is what makes it    *)
(* inductive: Start and Execute put a new thread where none was, so that   *)
(* they never take one out of its loop.                                    *)
(***************************************************************************)
LEMMA AliveStep ==
    ASSUME HonestResults, TypeOK, Fresh, StillAliveIsTrue, [Next]_vars
    PROVE  Fresh' /\ StillAliveIsTrue'
<1> USE DEF Fresh, StillAliveIsTrue, IsRunning, ERROR_STILL_ALIVE, TypeOK, Threads, object, loop, host
<1>1. CASE UNCHANGED <<thread, m_ulExitCode, started>>
  BY <1>1
<1>2. CASE Start \/ Execute
  <2>1. started + 1 \in Threads /\ started' = started + 1 /\ m_ulExitCode' = m_ulExitCode
    BY <1>2, BoundsAssumption DEF Start, Execute
  <2>2. thread[started + 1] = "absent"
    BY <2>1
  <2>3. \A t \in Threads : t # started + 1 => thread'[t] = thread[t]
    BY <1>2, <2>1 DEF Start, Execute
  <2>4. "absent" \notin Serving
    BY DEF Serving, InLoop, Returning
  <2>5. StillAliveIsTrue'
    BY <2>1, <2>2, <2>3, <2>4
  <2>6. Fresh'
    BY <2>1, <2>3
  <2> QED
    BY <2>5, <2>6
<1> DEFINE Steps(t) == /\ started' = started
                       /\ thread[t] # "absent"
                       /\ \A u \in Threads : u # t => thread'[u] = thread[u]
<1>3. ASSUME NEW t \in Threads, Steps(t)
      PROVE  Fresh'
  BY <1>3
<1>4. ASSUME NEW t \in Threads, Initialize(t)
      PROVE  Fresh' /\ StillAliveIsTrue'
  <2>1. Steps(t) /\ ~IsRunning'
    BY <1>4 DEF Initialize, HonestResults
  <2> QED
    BY <2>1, <1>3
<1>5. ASSUME NEW t \in Threads, BindStep(t)
      PROVE  Fresh' /\ StillAliveIsTrue'
  <2>1. CASE UNCHANGED thread
    BY <1>5, <1>1, <2>1, WidthAssumption DEF BindStep, Bind, InitHandle, BindAddress, Listen,
       StoreSocket, BindFailed, ERROR_BIND_ERROR
  <2>2. CASE BindFailed(t)
    BY <1>3, <2>2, WidthAssumption DEF BindFailed, ThreadGoes, ERROR_BIND_ERROR
  <2>3. CASE ~BindFailed(t) /\ thread' # thread
    <3>1. Steps(t) /\ m_ulExitCode' = m_ulExitCode /\ thread[t] \notin Serving
      BY <1>5, <2>3 DEF BindStep, Bind, InitHandle, BindAddress, Listen, StoreSocket, ThreadGoes,
         Serving, InLoop, Returning
    <3> QED
      BY <3>1, <1>3
  <2> QED
    BY <2>1, <2>2, <2>3
<1>6. ASSUME NEW t \in Threads, Publish(t) \/ Enter(t) \/ Poll(t) \/ EndDispatch(t)
                                \/ RunClosing(t) \/ Check(t) \/ Wake(t)
      PROVE  Fresh' /\ StillAliveIsTrue'
  <2>1. CASE UNCHANGED thread
    BY <1>6, <1>1, <2>1 DEF Publish, ThreadGoes, Enter, Poll, EndDispatch, RunClosing, Check, Wake, LoopTest
  <2>2. CASE thread' # thread
    <3>1. Steps(t) /\ thread'[t] \in Serving
      BY <1>6, <2>2 DEF Publish, ThreadGoes, Enter, Poll, EndDispatch, RunClosing, Check, Wake,
         LoopTest, Serving, InLoop, Returning
    <3> QED
      BY <3>1, <1>3
  <2> QED
    BY <2>1, <2>2
<1>7. ASSUME NEW t \in Threads, ReturnFromLoop(t)
      PROVE  Fresh' /\ StillAliveIsTrue'
  <2>1. Steps(t) /\ ~IsRunning'
    BY <1>7, WidthAssumption DEF ReturnFromLoop, Returning
  <2> QED
    BY <2>1, <1>3
<1>8. ASSUME NEW t \in Threads, ClientEvent(t) \/ HandlerStops(t)
      PROVE  UNCHANGED <<thread, m_ulExitCode, started>>
  BY <1>8 DEF ClientEvent, HandlerStops
<1>9. ASSUME ReleaseArguments \/ Stop \/ StopServer \/ Destroy \/ HostStep \/ ThreadOutlivesObject
      PROVE  UNCHANGED <<thread, m_ulExitCode, started>>
  BY <1>9 DEF ReleaseArguments, Stop, StopServer, Destroy, HostStep, RecvStop, CloseSocket,
     LoopStop, Join, ExecuteReturns, FreeSocket, LoopClose, ThreadOutlivesObject
<1>10. CASE UNCHANGED vars
  BY <1>1, <1>10 DEF vars
<1> QED
  BY <1>1, <1>2, <1>4, <1>5, <1>6, <1>7, <1>8, <1>9, <1>10
     DEF Next, HostCall, ServerThread, BindStep, Network

\* IsRunning never outlives the loop, as long as Initialize returns no code
\* that is ERROR_STILL_ALIVE once it is stored.
THEOREM StillAliveCorrect == HonestResults /\ Spec => []StillAliveIsTrue
<1>1. Init => Fresh /\ StillAliveIsTrue
  BY WidthAssumption DEF Init, Fresh, StillAliveIsTrue, IsRunning, ERROR_NONE, ERROR_STILL_ALIVE
<1>2. HonestResults /\ TypeOK /\ Fresh /\ StillAliveIsTrue /\ [Next]_vars => Fresh' /\ StillAliveIsTrue'
  BY AliveStep
<1>3. CASE HonestResults
  BY <1>1, <1>2, <1>3, TypeCorrect, PTL DEF Spec
<1> QED
  BY <1>3

-----------------------------------------------------------------------------
(***************************************************************************)
(* NullMeansNotStored, for every host and module: as long as no Bind has   *)
(* stored its socket nobody can close one, and the only handle that goes   *)
(* beyond "idle" is the one that its thread is about to store.             *)
(***************************************************************************)
NotStored ==
    m_socket = NULL =>
        \A t \in Threads : handle[t] \in {"none", "idle"} \/ thread[t] = "store"
NullSocket == fault = "null_socket" => m_socket = NULL

LEMMA NotStoredStep ==
    ASSUME TypeOK, Fresh, NotStored, NullSocket, [Next]_vars
    PROVE  NotStored' /\ NullSocket'
<1> USE DEF NotStored, NullSocket, TypeOK, object, loop, host
<1>1. CASE /\ UNCHANGED <<m_socket, handle>> /\ fault' # "null_socket"
           /\ \A t \in Threads : thread[t] = "store" => thread'[t] = "store"
  BY <1>1
<1>2. CASE UNCHANGED vars
  BY <1>2 DEF vars
<1>3. CASE HostCall /\ fault = "none"
  <2>1. started + 1 \in Threads \/ started = MaxStarts
    BY BoundsAssumption DEF Threads
  <2>2. \A t \in Threads : thread[t] = "store" => t # started + 1
    BY DEF Fresh, Threads
  <2>3. \A t \in Threads : thread[t] = "store" => thread'[t] = "store"
    BY <1>3, <2>1, <2>2 DEF HostCall, Start, ReleaseArguments, Stop, StopServer, Execute, Destroy
  <2> QED
    BY <1>1, <1>3, <2>3 DEF HostCall, Start, ReleaseArguments, Stop, StopServer, Execute, Destroy
<1>4. CASE RecvStop \/ CloseSocket
  <2>1. m_socket' = m_socket /\ thread' = thread /\ (m_socket = NULL => handle' = handle)
    BY <1>4, CallFaults DEF RecvStop, CloseSocket
  <2>2. fault' = "null_socket" => m_socket = NULL \/ fault = "null_socket"
    BY <1>4 DEF RecvStop, CloseSocket, CloseFault, PointerFault
  <2> QED
    BY <2>1, <2>2
<1>5. CASE FreeSocket /\ fault = "none"
  BY <1>5 DEF FreeSocket
<1>6. CASE (LoopStop \/ Join \/ ExecuteReturns \/ LoopClose \/ ThreadOutlivesObject) /\ fault = "none"
  BY <1>1, <1>6 DEF LoopStop, Join, ExecuteReturns, LoopClose, ThreadOutlivesObject
<1>7. ASSUME NEW t \in Threads, BindStep(t), fault = "none"
      PROVE  NotStored' /\ NullSocket'
  <2>1. fault' # "null_socket"
    BY <1>7 DEF BindStep, Bind, InitHandle, BindAddress, Listen, StoreSocket, BindFailed
  <2>2. CASE Bind(t) \/ BindAddress(t) \/ BindFailed(t)
    BY <1>1, <2>1, <2>2 DEF Bind, BindAddress, BindFailed, ThreadGoes
  <2>3. CASE InitHandle(t) \/ Listen(t)
    BY <2>1, <2>3 DEF InitHandle, Listen, ThreadGoes
  <2>4. CASE StoreSocket(t)
    <3>1. m_socket' # NULL
      BY <2>4, BoundsAssumption DEF StoreSocket, Threads
    <3> QED
      BY <2>1, <3>1
  <2> QED
    BY <1>7, <2>2, <2>3, <2>4 DEF BindStep
<1>8. ASSUME NEW t \in Threads, RunClosing(t)
      PROVE  NotStored' /\ NullSocket'
  BY <1>8 DEF RunClosing, OnClose, ThreadGoes
<1>9. ASSUME NEW t \in Threads, fault = "none",
             \/ Initialize(t) \/ Publish(t) \/ Enter(t) \/ Poll(t) \/ EndDispatch(t)
             \/ Check(t) \/ ReturnFromLoop(t) \/ Network(t)
      PROVE  NotStored' /\ NullSocket'
  <2>1. /\ UNCHANGED <<m_socket, handle>> /\ fault' # "null_socket"
        /\ \A u \in Threads : thread'[u] = thread[u] \/ (u = t /\ thread[u] # "store")
    BY <1>9 DEF Initialize, Publish, ThreadGoes, Enter, Poll, EndDispatch, Check,
       LoopTest, ReturnFromLoop, Returning, Network, Wake, ClientEvent
  <2> QED
    BY <1>1, <2>1
<1>10. ASSUME NEW t \in Threads, HandlerStops(t)
       PROVE  NotStored' /\ NullSocket'
  <2>1. m_socket' = m_socket /\ thread' = thread /\ (m_socket = NULL => handle' = handle)
    BY <1>10, CallFaults DEF HandlerStops
  <2>2. fault' = "null_socket" => m_socket = NULL
    BY <1>10 DEF HandlerStops, CloseFault, PointerFault
  <2> QED
    BY <2>1, <2>2
<1> QED
  BY <1>2, <1>3, <1>4, <1>5, <1>6, <1>7, <1>8, <1>9, <1>10 DEF Next, HostStep, ServerThread, BindStep

LEMMA FreshStep ==
    ASSUME TypeOK, Fresh, [Next]_vars
    PROVE  Fresh'
<1> USE DEF Fresh, TypeOK, Threads, object, loop, host
<1>1. CASE Start \/ Execute
  <2>1. started + 1 \in Threads /\ started' = started + 1
    BY <1>1, BoundsAssumption DEF Start, Execute
  <2>2. \A t \in Threads : t # started + 1 => thread'[t] = thread[t]
    BY <1>1, <2>1 DEF Start, Execute
  <2> QED
    BY <2>1, <2>2
<1>2. CASE UNCHANGED <<thread, started>>
  BY <1>2
<1>3. ASSUME NEW t \in Threads, ServerThread(t) \/ Network(t) \/ HandlerStops(t)
      PROVE  Fresh'
  <2>1. started' = started /\ \A u \in Threads : thread[u] = "absent" => thread'[u] = "absent"
    BY <1>3 DEF ServerThread, Network, HandlerStops, Initialize, Bind, InitHandle, BindAddress, Listen,
       StoreSocket, BindFailed, Publish, Enter, Poll, EndDispatch, RunClosing, Check, LoopTest,
       ReturnFromLoop, Returning, Wake, ClientEvent, ThreadGoes
  <2> QED
    BY <2>1
<1>4. CASE ReleaseArguments \/ Stop \/ StopServer \/ Destroy \/ HostStep \/ ThreadOutlivesObject
  BY <1>2, <1>4 DEF ReleaseArguments, Stop, StopServer, Destroy, HostStep, RecvStop, CloseSocket,
     LoopStop, Join, ExecuteReturns, FreeSocket, LoopClose, ThreadOutlivesObject
<1>5. CASE UNCHANGED vars
  BY <1>2, <1>5 DEF vars
<1> QED
  BY <1>1, <1>3, <1>4, <1>5 DEF Next, HostCall

\* A null m_socket is met with an open socket only while that socket is about
\* to be stored, by the first Bind that succeeds.
THEOREM NotStoredCorrect == Spec => []NullMeansNotStored
<1>1. Init => Fresh /\ NotStored /\ NullSocket
  BY DEF Init, Fresh, NotStored, NullSocket
<1>2. NotStored /\ NullSocket => NullMeansNotStored
  BY DEF NotStored, NullSocket, NullMeansNotStored
<1> QED
  BY <1>1, <1>2, NotStoredStep, FreshStep, TypeCorrect, PTL DEF Spec

-----------------------------------------------------------------------------
(***************************************************************************)
(* StopIsKept, for every host and module: at most one thread is in the     *)
(* loop (Enter refuses a second one), and only a thread that is in it      *)
(* clears stop_flag, as it leaves.                                         *)
(***************************************************************************)
OneInLoop == \A t \in Threads, u \in Threads : thread[t] \in InLoop /\ thread[u] \in InLoop => t = u

KeepsStop ==
    \A t \in Threads :
        thread[t] \in Awake /\ stop_flag =>
            \/ thread'[t] \in Returning
            \/ /\ thread'[t] \in Awake /\ stop_flag'
               /\ PhasesLeft(thread'[t]) <= PhasesLeft(thread[t])

LEMMA AwakePhases ==
    /\ Awake \subseteq InLoop /\ Awake \cap Returning = {} /\ InLoop \cap Returning = {}
    /\ \A pc \in Awake : PhasesLeft(pc) \in Nat
    /\ PhasesLeft("closing") <= PhasesLeft("dispatch") /\ PhasesLeft("check") <= PhasesLeft("closing")
    /\ (Before \cup {"absent", "init", "enter", "exited"}) \cap InLoop = {}
BY DEF Awake, InLoop, Returning, PhasesLeft, Before, Binding

LEMMA StopIsKeptStep ==
    ASSUME TypeOK, Fresh, OneInLoop, [Next]_vars
    PROVE  Fresh' /\ OneInLoop' /\ KeepsStop
<1> USE AwakePhases DEF TypeOK, Threads, object, loop, host
<1>1. ASSUME UNCHANGED <<thread, started>>, stop_flag' \in {stop_flag, TRUE}
      PROVE  Fresh' /\ OneInLoop' /\ KeepsStop
  <2>1. Fresh' /\ OneInLoop'
    BY <1>1 DEF Fresh, OneInLoop
  <2>2. stop_flag => stop_flag'
    BY <1>1
  <2>3. ASSUME NEW t \in Threads, thread[t] \in Awake
        PROVE  PhasesLeft(thread'[t]) <= PhasesLeft(thread[t])
    <3>1. PhasesLeft(thread[t]) \in Nat
      BY <2>3
    <3> QED
      BY <1>1, <3>1
  <2> QED
    BY <1>1, <2>1, <2>2, <2>3 DEF KeepsStop
<1>2. CASE Start \/ Execute
  <2>1. started + 1 \in Threads /\ started' = started + 1 /\ stop_flag' = stop_flag
    BY <1>2, BoundsAssumption DEF Start, Execute
  <2>2. thread[started + 1] = "absent"
    BY <2>1 DEF Fresh
  <2>3. /\ \A t \in Threads : t # started + 1 => thread'[t] = thread[t]
        /\ thread'[started + 1] \in {"absent", "init"}
    BY <1>2, <2>1, <2>2 DEF Start, Execute
  <2>4. Fresh'
    BY <2>1, <2>3 DEF Fresh
  <2>5. OneInLoop'
    BY <2>1, <2>3 DEF OneInLoop
  <2>6. KeepsStop
    BY <2>1, <2>2, <2>3 DEF KeepsStop
  <2> QED
    BY <2>4, <2>5, <2>6
<1>3. CASE ReleaseArguments \/ Stop \/ StopServer \/ Destroy \/ HostStep \/ ThreadOutlivesObject
  BY <1>1, <1>3 DEF ReleaseArguments, Stop, StopServer, Destroy, HostStep, RecvStop, CloseSocket,
     LoopStop, Join, ExecuteReturns, FreeSocket, LoopClose, ThreadOutlivesObject
<1>4. ASSUME NEW t \in Threads, NEW pc, thread' = [thread EXCEPT ![t] = pc], thread[t] # "absent",
             UNCHANGED <<started, stop_flag>>, pc \in InLoop => thread[t] \in InLoop,
             thread[t] \in Awake => \/ pc \in Returning
                                    \/ pc \in Awake /\ PhasesLeft(pc) <= PhasesLeft(thread[t])
      PROVE  Fresh' /\ OneInLoop' /\ KeepsStop
  <2>1. Fresh'
    BY <1>4 DEF Fresh
  <2>2. OneInLoop'
    BY <1>4 DEF OneInLoop
  <2>3. KeepsStop
    BY <1>4 DEF KeepsStop
  <2> QED
    BY <2>1, <2>2, <2>3
<1>5. ASSUME NEW t \in Threads, Initialize(t) \/ BindStep(t) \/ Publish(t) \/ ReturnFromLoop(t)
      PROVE  Fresh' /\ OneInLoop' /\ KeepsStop
  <2> USE DEF Initialize, BindStep, Bind, InitHandle, BindAddress, Listen, StoreSocket, BindFailed,
              Publish, ReturnFromLoop, ThreadGoes
  <2>1. CASE UNCHANGED thread
    BY <1>1, <1>5, <2>1
  <2>2. CASE thread' # thread
    <3>1. PICK pc \in Before \cup {"exited", "enter"} : thread' = [thread EXCEPT ![t] = pc]
      BY <1>5, <2>2 DEF Before, Binding
    <3>2. thread[t] \notin InLoop /\ thread[t] # "absent" /\ UNCHANGED <<started, stop_flag>>
      BY <1>5 DEF Returning, InLoop
    <3> QED
      BY <1>4, <3>1, <3>2
  <2> QED
    BY <2>1, <2>2
<1>6. ASSUME NEW t \in Threads, Poll(t) \/ EndDispatch(t) \/ RunClosing(t) \/ Wake(t)
      PROVE  Fresh' /\ OneInLoop' /\ KeepsStop
  <2>1. UNCHANGED <<started, stop_flag>>
    BY <1>6 DEF Poll, EndDispatch, RunClosing, Wake
  <2>2. CASE Poll(t) \/ Wake(t)
    <3>1. /\ thread[t] \in {"poll", "blocked"}
          /\ \E pc \in {"blocked", "dispatch"} : thread' = [thread EXCEPT ![t] = pc]
      BY <2>2 DEF Poll, Wake, ThreadGoes
    <3>2. {"poll", "blocked"} \cap Awake = {} /\ {"poll", "blocked", "dispatch"} \subseteq InLoop
          /\ "absent" \notin {"poll", "blocked"}
      BY DEF Awake, InLoop
    <3> QED
      BY <1>4, <2>1, <3>1, <3>2
  <2>3. CASE EndDispatch(t)
    BY <1>4, <2>1, <2>3 DEF EndDispatch, ThreadGoes, Awake, InLoop
  <2>4. CASE RunClosing(t)
    BY <1>4, <2>1, <2>4 DEF RunClosing, ThreadGoes, Awake, InLoop
  <2> QED
    BY <1>6, <2>2, <2>3, <2>4
<1>7. ASSUME NEW t \in Threads, LoopTest(t), UNCHANGED started, thread[t] \in {"enter", "check"},
             \A u \in Threads : u # t => thread[u] \notin InLoop
      PROVE  Fresh' /\ OneInLoop' /\ KeepsStop
  <2>1. PICK pc \in {"poll", "return_alive", "return_idle"} :
             thread' = [thread EXCEPT ![t] = pc] /\ (stop_flag => pc \in Returning)
    BY <1>7 DEF LoopTest, Returning
  <2>2. Fresh'
    BY <1>7, <2>1 DEF Fresh
  <2>3. OneInLoop'
    BY <1>7, <2>1 DEF OneInLoop
  <2>4. KeepsStop
    BY <1>7, <2>1 DEF KeepsStop
  <2> QED
    BY <2>2, <2>3, <2>4
<1>8. ASSUME NEW t \in Threads, Enter(t)
      PROVE  Fresh' /\ OneInLoop' /\ KeepsStop
  BY <1>1, <1>7, <1>8 DEF Enter
<1>9. ASSUME NEW t \in Threads, Check(t)
      PROVE  Fresh' /\ OneInLoop' /\ KeepsStop
  <2>1. thread[t] \in InLoop
    BY <1>9 DEF Check, InLoop
  <2> QED
    BY <1>7, <1>9, <2>1 DEF Check, OneInLoop
<1>10. ASSUME NEW t \in Threads, ClientEvent(t) \/ HandlerStops(t)
       PROVE  Fresh' /\ OneInLoop' /\ KeepsStop
  BY <1>1, <1>10 DEF ClientEvent, HandlerStops
<1>11. CASE UNCHANGED vars
  BY <1>1, <1>11 DEF vars
<1> QED
  BY <1>2, <1>3, <1>5, <1>6, <1>8, <1>9, <1>10, <1>11 DEF Next, HostCall, ServerThread, BindStep, Network

\* No host and no module takes away the uv_stop of a loop that is awake.
THEOREM StopKeptCorrect == Spec => StopIsKept
<1>1. Init => Fresh /\ OneInLoop
  BY DEF Init, Fresh, OneInLoop, InLoop
<1>2. TypeOK /\ Fresh /\ OneInLoop /\ [Next]_vars => Fresh' /\ OneInLoop' /\ [KeepsStop]_vars
  BY StopIsKeptStep
<1> QED
  BY <1>1, <1>2, TypeCorrect, PTL DEF Spec, StopIsKept, KeepsStop

-----------------------------------------------------------------------------
(***************************************************************************)
(* The careful host.                                                       *)
(***************************************************************************)
LEMMA CarefulIsNext == [CarefulNext]_vars => [Next]_vars
BY DEF CarefulNext, CarefulCall, Next, HostCall

\* The program counters that the invariant tells apart.
LEMMA Counters ==
    /\ Listening \subseteq Live /\ Bound \subseteq Listening /\ Serving \subseteq Bound
    /\ "publish" \in Bound /\ "publish" \notin Serving
    /\ "store" \in Listening /\ "store" \notin Bound
    /\ Before \cup Serving \subseteq Live /\ Before \cap Serving = {}
    /\ Before = (NotListening \ {"absent"}) \cup {"store", "publish"}
    /\ (NotListening \cup {"exited"}) \cap Listening = {}
    /\ {"absent", "exited"} \cap Live = {}
    /\ InLoop \subseteq Serving /\ Returning \subseteq Serving /\ "enter" \in Serving
BY DEF Listening, NotListening, Bound, Live, Before, Binding, Serving, InLoop, Returning

\* Calls of the host.
LEMMA CarefulCallStep ==
    ASSUME TypeOK, CarefulInv, CarefulCall
    PROVE  /\ NoFault' /\ OneThread' /\ IpKept' /\ NoEarlyHandle' /\ SocketIsOwn'
           /\ OpenWhileIdle' /\ OpenIsRecorded' /\ Stopping' /\ Closable'
<1> USE DEF CarefulInv, TypeOK, Threads, object, loop, host, HostIdle
<1>1. CASE m_lpThread = NULL /\ Start
  <2>1. started + 1 \in Threads /\ args' = started + 1 /\ started' = started + 1
    BY <1>1, BoundsAssumption DEF Start
  <2>2. \A t \in Threads : thread[t] \notin Live
    BY <1>1 DEF OneThread
  <2>3. thread[started + 1] = "absent" /\ handle[started + 1] \in {"none", "idle"}
    BY <2>1 DEF Fresh, NoEarlyHandle, NotListening
  <2>4. \A t \in Threads : thread'[t] \in Live => t = started + 1 /\ m_lpThread' = t /\ thread'[t] = "init"
    BY <1>1, <2>1, <2>2, <2>3 DEF Start
  <2>5. OneThread' /\ SocketIsOwn' /\ OpenWhileIdle'
    BY <2>1, <2>4, Counters DEF OneThread, SocketIsOwn, OpenWhileIdle, NotListening
  <2>6. NoEarlyHandle'
    BY <1>1, <2>1, <2>3 DEF NoEarlyHandle, NotListening, Start
  <2>7. OpenIsRecorded'
    BY <1>1 DEF OpenIsRecorded, Start
  <2>8. NoFault' /\ Stopping' /\ Closable'
    BY <1>1 DEF NoFault, Stopping, Closable, Start
  <2>9. IpKept'
    <3>1. started + 1 \notin ipFreed
      BY <2>1 DEF IpKept
    <3> QED
      BY <1>1, <2>1, <2>4, <3>1, Counters DEF IpKept, Start, NotListening
  <2> QED
    BY <2>5, <2>6, <2>7, <2>8, <2>9
<1>2. CASE IsRunning /\ ReleaseArguments
  <2>1. PICK t \in Threads : thread[t] \in Serving
    BY <1>2 DEF StillAliveIsTrue
  <2>2. args = t /\ t <= started
    BY <2>1, Counters DEF OneThread, Fresh
  <2>3. \A u \in Threads : thread[u] \notin Before
    BY <2>1, Counters DEF OneThread
  <2>4. IpKept'
    BY <1>2, <2>2, <2>3 DEF ReleaseArguments, IpKept, Before, Binding
  <2> QED
    BY <1>2, <2>4 DEF ReleaseArguments, NoFault, OneThread, NoEarlyHandle, SocketIsOwn,
       OpenWhileIdle, OpenIsRecorded, Stopping, Closable
<1>3. CASE IsRunning /\ Stop
  <2>1. PICK t \in Threads : thread[t] \in Serving
    BY <1>3 DEF StillAliveIsTrue
  <2>2. m_lpThread = t /\ m_socket = t /\ handle[t] = "active"
    BY <1>3, <2>1, Counters DEF OneThread, SocketIsOwn, OpenWhileIdle, Stop
  <2>3. Stopping' /\ Closable'
    BY <1>3, <2>1, <2>2 DEF Stop, HostGoes, Stopping, Closable
  <2> QED
    BY <1>3, <2>3 DEF Stop, HostGoes, NoFault, OneThread, IpKept, NoEarlyHandle, SocketIsOwn,
       OpenWhileIdle, OpenIsRecorded
<1> QED
  BY <1>1, <1>2, <1>3 DEF CarefulCall

\* Statements of Stop and StopServer.
LEMMA CarefulHostStep ==
    ASSUME TypeOK, CarefulInv, HostStep
    PROVE  /\ NoFault' /\ OneThread' /\ IpKept' /\ NoEarlyHandle' /\ SocketIsOwn'
           /\ OpenWhileIdle' /\ OpenIsRecorded' /\ Stopping' /\ Closable'
<1> USE DEF CarefulInv, TypeOK, Threads, object, loop, host
<1>1. CASE RecvStop
  <2>1. m_socket \in Threads /\ handle[m_socket] \in {"active", "idle"}
    BY <1>1 DEF RecvStop, Closable
  <2>2. fault' = "none" /\ handle' \in {handle, [handle EXCEPT ![m_socket] = "idle"]}
    BY <1>1, <2>1 DEF RecvStop, NoFault, PointerFault
  <2>3. NoEarlyHandle'
    BY <1>1, <2>1, <2>2 DEF RecvStop, NoEarlyHandle
  <2>4. OpenIsRecorded'
    BY <1>1, <2>1, <2>2 DEF RecvStop, OpenIsRecorded
  <2>5. Closable' /\ Stopping'
    BY <1>1, <2>1, <2>2 DEF RecvStop, Closable, Stopping
  <2> QED
    BY <1>1, <2>2, <2>3, <2>4, <2>5 DEF RecvStop, NoFault, OneThread, IpKept, SocketIsOwn, OpenWhileIdle
<1>2. CASE CloseSocket
  <2>1. m_socket \in Threads /\ handle[m_socket] \in {"active", "idle"}
    BY <1>2 DEF CloseSocket, Closable
  <2>2. fault' = "none" /\ handle' = [handle EXCEPT ![m_socket] = "closing"]
    BY <1>2, <2>1 DEF CloseSocket, NoFault, CloseFault, PointerFault, MarkClosing
  <2>3. m_lpThread = m_socket /\ \A t \in Threads : handle[t] = "active" => t = m_lpThread
    BY <1>2 DEF CloseSocket, Stopping, OpenIsRecorded
  <2>4. NoEarlyHandle'
    <3>1. thread[m_socket] \notin NotListening
      BY <1>2, Counters DEF CloseSocket, Stopping
    <3> QED
      BY <1>2, <2>1, <2>2, <3>1 DEF CloseSocket, NoEarlyHandle
  <2>5. OpenIsRecorded'
    BY <1>2, <2>1, <2>2, <2>3 DEF CloseSocket, OpenIsRecorded
  <2>6. Closable' /\ Stopping'
    BY <1>2 DEF CloseSocket, Closable, Stopping
  <2> QED
    BY <1>2, <2>2, <2>4, <2>5, <2>6 DEF CloseSocket, NoFault, OneThread, IpKept, SocketIsOwn, OpenWhileIdle
<1>3. CASE LoopStop
  BY <1>3 DEF LoopStop, HostGoes, NoFault, OneThread, IpKept, NoEarlyHandle, SocketIsOwn,
     OpenWhileIdle, OpenIsRecorded, Stopping, Closable
<1>4. CASE Join
  <2>1. \A t \in Threads : thread[t] \notin Live
    BY <1>4, Counters DEF Join, OneThread
  <2>2. \A t \in Threads : handle[t] # "active"
    BY <1>4 DEF Join, OpenIsRecorded
  <2> QED
    BY <1>4, <2>1, <2>2, Counters DEF Join, HostGoes, NoFault, OneThread, IpKept, NoEarlyHandle,
       SocketIsOwn, OpenWhileIdle, OpenIsRecorded, Stopping, Closable
<1> QED
  BY <1>1, <1>2, <1>3, <1>4 DEF HostStep, ExecuteReturns, FreeSocket, LoopClose, Stopping

\* Steps of the server thread before its loop.
LEMMA CarefulStartupStep ==
    ASSUME TypeOK, CarefulInv, NEW t \in Threads, Initialize(t) \/ BindStep(t) \/ Publish(t)
    PROVE  /\ NoFault' /\ OneThread' /\ IpKept' /\ NoEarlyHandle' /\ SocketIsOwn'
           /\ OpenWhileIdle' /\ OpenIsRecorded' /\ Stopping' /\ Closable'
<1> USE DEF CarefulInv, TypeOK, object, loop, host, ThreadGoes
<1>0. thread[t] \in Before
  BY DEF Initialize, BindStep, Bind, InitHandle, BindAddress, Listen, StoreSocket, BindFailed, Publish,
     Before, Binding
<1>1. m_lpThread = t /\ args = t /\ \A u \in Threads : u # t => thread[u] \notin Live
  BY <1>0, Counters DEF OneThread
<1>2. hostAt = "idle" /\ hostOp = "none"
  BY <1>0, <1>1, Counters DEF Stopping
<1>3. t # NULL
  BY DEF Threads
<1>4. fault' = fault /\ UNCHANGED <<m_lpThread, args, ipFreed, started, host>>
  <2>1. CASE BindAddress(t)
    <3>1. ip[t] = t /\ t \notin ipFreed
      BY <2>1 DEF BindAddress, IpKept
    <3> QED
      BY <1>3, <2>1, <3>1 DEF BindAddress
  <2>2. CASE ~BindAddress(t)
    BY <2>2 DEF Initialize, BindStep, Bind, InitHandle, Listen, StoreSocket, BindFailed, Publish
  <2> QED
    BY <2>1, <2>2
\* One thread moves; what each of its moves does to the socket and its handle.
<1>5. PICK pc \in (Before \ {"init"}) \cup {"enter", "exited"} : thread' = [thread EXCEPT ![t] = pc]
  BY DEF Initialize, BindStep, Bind, InitHandle, BindAddress, Listen, StoreSocket, BindFailed, Publish,
     Before, Binding
<1>6. thread'[t] = pc
  BY <1>5
<1>7. \A u \in Threads : u # t => handle'[u] = handle[u] /\ thread'[u] = thread[u]
  BY <1>5 DEF Initialize, BindStep, Bind, InitHandle, BindAddress, Listen, StoreSocket, BindFailed, Publish
<1>8. /\ pc \in NotListening \cup {"exited"} => handle'[t] \in {"none", "idle"}
      /\ pc \in Listening => handle'[t] = "active"
      /\ pc \in Bound => m_socket' = t
  <2>1. CASE Initialize(t) \/ Bind(t) \/ BindAddress(t) \/ BindFailed(t)
    <3>a. fault' = "none"
      BY <1>4 DEF NoFault
    <3>b. handle' = handle
      BY <2>1 DEF Initialize, Bind, BindAddress, BindFailed
    <3>c. BindAddress(t) => pc \in {"listen", "failed"}
      BY <3>a, <1>6 DEF BindAddress
    <3>1. handle' = handle /\ pc \in {"exited", "bind", "handle", "listen", "failed"}
      BY <2>1, <1>6, <3>b, <3>c DEF Initialize, Bind, BindFailed
    <3>2. thread[t] \in NotListening
      BY <2>1 DEF Initialize, Bind, BindAddress, BindFailed, NotListening
    <3> QED
      BY <3>1, <3>2, Counters DEF NoEarlyHandle, NotListening
  <2>2. CASE InitHandle(t)
    <3>1. pc \in {"address", "failed"} /\ handle'[t] \in {"none", "idle"}
      BY <2>2, <1>6 DEF InitHandle, NoEarlyHandle, NotListening
    <3> QED
      BY <3>1, Counters DEF NotListening
  <2>3. CASE Listen(t)
    <3>1. (pc = "failed" /\ handle'[t] \in {"none", "idle"}) \/ (pc = "store" /\ handle'[t] = "active")
      BY <2>3, <1>6 DEF Listen, NoEarlyHandle, NotListening
    <3> QED
      BY <3>1, Counters DEF NotListening
  <2>4. CASE StoreSocket(t) \/ Publish(t)
    <3>1. pc \in {"publish", "enter"} /\ handle' = handle /\ thread[t] \in Listening
      BY <2>4, <1>6, Counters DEF StoreSocket, Publish
    <3>2. m_socket' = t
      BY <2>4, Counters DEF StoreSocket, Publish, SocketIsOwn
    <3> QED
      BY <1>2, <3>1, <3>2, Counters DEF OpenWhileIdle, NotListening
  <2> QED
    BY <2>1, <2>2, <2>3, <2>4 DEF BindStep
<1>9. OneThread'
  BY <1>1, <1>4, <1>5 DEF OneThread
<1>10. IpKept'
  <2> USE DEF Initialize, BindStep, Bind, InitHandle, BindAddress, Listen, StoreSocket, BindFailed, Publish
  <2>1. pc = "bind" => thread[t] = "init"
    BY <1>6
  <2>2. pc = "handle" => thread[t] = "bind" /\ ip'[t] = t
    BY <1>1, <1>6
  <2>3. pc = "address" => thread[t] = "handle" /\ ip' = ip
    <3>1. pc = "address" => ~(Initialize(t) \/ Bind(t) \/ Listen(t) \/ StoreSocket(t))
      BY <1>6
    <3>2. pc = "address" => ~(BindAddress(t) \/ BindFailed(t) \/ Publish(t))
      BY <1>4, <1>6 DEF NoFault
    <3>3. InitHandle(t) => thread[t] = "handle" /\ ip' = ip
      OBVIOUS
    <3> QED
      BY <3>1, <3>2, <3>3 DEF BindStep
  <2>4. \A u \in Threads : u # t => thread'[u] \notin {"init", "bind", "handle", "address"}
    BY <1>1, <1>7 DEF Live, Before, Binding
  <2>5. pc # "init"
    BY <1>5
  <2> QED
    BY <1>4, <1>6, <2>1, <2>2, <2>3, <2>4, <2>5 DEF IpKept
<1>11. NoEarlyHandle'
  BY <1>5, <1>7, <1>8 DEF NoEarlyHandle
<1>12. SocketIsOwn' /\ OpenWhileIdle'
  BY <1>1, <1>5, <1>7, <1>8, Counters DEF SocketIsOwn, OpenWhileIdle
<1>13. OpenIsRecorded'
  BY <1>1, <1>2, <1>4, <1>7 DEF OpenIsRecorded
<1> QED
  BY <1>2, <1>4, <1>9, <1>10, <1>11, <1>12, <1>13 DEF NoFault, Stopping, Closable

\* Steps of the loop and of the clients.
LoopStep(t) ==
    \/ Enter(t) \/ Poll(t) \/ EndDispatch(t) \/ RunClosing(t) \/ Check(t)
    \/ ReturnFromLoop(t) \/ Wake(t) \/ ClientEvent(t)

\* They move one thread that is in the loop, and change no handle but those
\* whose close callback runs.
LEMMA LoopStepEffect ==
    ASSUME TypeOK, CarefulInv, NEW t \in Threads, LoopStep(t)
    PROVE  /\ thread[t] \in Serving
           /\ \/ thread' = thread
              \/ \E pc \in Serving \cup {"exited"} : thread' = [thread EXCEPT ![t] = pc]
           /\ handle' \in {handle, OnClose(handle)}
           /\ fault' = fault
           /\ UNCHANGED <<m_lpThread, m_socket, args, ipFreed, ip, started, hostOp, hostAt>>
<1> USE DEF CarefulInv, TypeOK, object, loop, host
<1>1. thread[t] \in Serving
  BY DEF LoopStep, Enter, Poll, EndDispatch, RunClosing, Check, ReturnFromLoop, Wake, ClientEvent,
     ThreadGoes, Serving, InLoop
<1>2. \A u \in Threads : u # t => thread[u] \notin InLoop
  BY <1>1, Counters DEF OneThread
<1>3. CASE Enter(t)
  <2>1. ~\E u \in Threads : thread[u] \in InLoop
    BY <1>2, <1>3 DEF Enter, InLoop
  <2> QED
    BY <1>1, <1>3, <2>1 DEF Enter, LoopTest, Serving, InLoop, Returning
<1>4. CASE ~Enter(t)
  BY <1>1, <1>4 DEF LoopStep, Poll, EndDispatch, RunClosing, Check, LoopTest, ReturnFromLoop, Wake,
     ClientEvent, ThreadGoes, Serving, InLoop, Returning
<1> QED
  BY <1>3, <1>4

LEMMA CarefulLoopStep ==
    ASSUME TypeOK, CarefulInv, NEW t \in Threads, LoopStep(t)
    PROVE  /\ NoFault' /\ OneThread' /\ IpKept' /\ NoEarlyHandle' /\ SocketIsOwn'
           /\ OpenWhileIdle' /\ OpenIsRecorded' /\ Stopping' /\ Closable'
<1> USE LoopStepEffect, Counters DEF CarefulInv, TypeOK
<1>1. \A u \in Threads : /\ thread'[u] = thread[u] \/ (u = t /\ thread'[u] \in Serving \cup {"exited"})
                         /\ thread[u] \notin Serving => thread'[u] = thread[u]
  OBVIOUS
<1>2. \A u \in Threads : handle'[u] = handle[u] \/ (handle[u] = "closing" /\ handle'[u] = "freed")
  BY DEF OnClose
<1>3. OneThread' /\ SocketIsOwn'
  BY <1>1 DEF OneThread, SocketIsOwn
<1>4. IpKept'
  <2>1. \A u \in Threads : thread'[u] \in {"init", "bind", "handle", "address"} => thread'[u] = thread[u]
    BY <1>1 DEF Serving, InLoop, Returning
  <2> QED
    BY <2>1 DEF IpKept
<1>5. NoEarlyHandle'
  BY <1>1, <1>2 DEF NoEarlyHandle
<1>6. OpenWhileIdle' /\ OpenIsRecorded'
  BY <1>1, <1>2 DEF OpenWhileIdle, OpenIsRecorded
<1>7. Stopping' /\ Closable'
  BY <1>1, <1>2 DEF Stopping, Closable
<1> QED
  BY <1>3, <1>4, <1>5, <1>6, <1>7 DEF NoFault

LEMMA CarefulStep ==
    ASSUME HonestResults, TypeOK, CarefulInv, [CarefulNext]_vars
    PROVE  CarefulInv'
<1>1. Fresh' /\ StillAliveIsTrue'
  BY CarefulIsNext, AliveStep DEF CarefulInv
<1>2. CASE UNCHANGED vars
  BY <1>2 DEF vars, object, loop, host, CarefulInv, NoFault, StillAliveIsTrue, IsRunning, Fresh,
     OneThread, IpKept, NoEarlyHandle, SocketIsOwn, OpenWhileIdle, OpenIsRecorded, Stopping, Closable
<1>3. CASE CarefulCall
  BY <1>1, <1>3, CarefulCallStep DEF CarefulInv
<1>4. CASE HostStep
  BY <1>1, <1>4, CarefulHostStep DEF CarefulInv
<1>5. ASSUME NEW t \in Threads, ServerThread(t) \/ Network(t)
      PROVE  CarefulInv'
  BY <1>1, <1>5, CarefulStartupStep, CarefulLoopStep DEF CarefulInv, ServerThread, BindStep, Network, LoopStep
<1> QED
  BY <1>2, <1>3, <1>4, <1>5 DEF CarefulNext

LEMMA CarefulInit == Init => CarefulInv
BY WidthAssumption DEF Init, CarefulInv, NoFault, StillAliveIsTrue, IsRunning, Fresh, OneThread, IpKept, NoEarlyHandle,
   SocketIsOwn, OpenWhileIdle, OpenIsRecorded, Stopping, Closable, ERROR_NONE, ERROR_STILL_ALIVE,
   Live, Before, Binding, Serving, InLoop, Returning, Bound, Listening

LEMMA CarefulInvariant == HonestResults /\ CarefulSpec => [](TypeOK /\ CarefulInv)
<1>1. TypeOK /\ CarefulInv /\ HonestResults /\ [CarefulNext]_vars => TypeOK' /\ CarefulInv'
  BY CarefulStep, TypeStep, CarefulIsNext
<1>2. CASE HonestResults
  <2>1. CarefulSpec => Spec
    BY CarefulIsNext, PTL DEF CarefulSpec, Spec
  <2> QED
    BY <1>1, <1>2, <2>1, CarefulInit, TypeCorrect, PTL DEF CarefulSpec
<1> QED
  BY <1>2

\* A careful host never drives the object into a null, freed or closing
\* handle, a dead ip string or a second thread in the loop.
THEOREM CarefulNoFault == HonestResults /\ CarefulSpec => []NoFault
<1>1. CarefulInv => NoFault
  BY DEF CarefulInv
<1> QED
  BY <1>1, CarefulInvariant, PTL

\* Under a careful host every server thread reads the arguments of its own Start.
THEOREM CarefulArguments == HonestResults /\ CarefulSpec => []OwnArguments
<1>1. CarefulInv => OwnArguments
  BY DEF CarefulInv, OwnArguments, OneThread
<1> QED
  BY <1>1, CarefulInvariant, PTL

-----------------------------------------------------------------------------
(***************************************************************************)
(* StopAdvances.  While Stop joins, the uv_stop it has called is pending,  *)
(* or the thread has left its loop and cannot come back to it.             *)
(***************************************************************************)
StopIsPending ==
    hostAt = "join" => stop_flag \/ thread[m_lpThread] \in Returning \cup {"exited"}

Advances ==
    hostAt = "join" /\ thread' # thread =>
        PhasesLeft(thread'[m_lpThread]) < PhasesLeft(thread[m_lpThread])

LEMMA PhaseOrder ==
    /\ PhasesLeft("poll") < PhasesLeft("enter")
    /\ PhasesLeft("blocked") < PhasesLeft("poll") /\ PhasesLeft("dispatch") < PhasesLeft("poll")
    /\ PhasesLeft("dispatch") < PhasesLeft("blocked")
    /\ PhasesLeft("closing") < PhasesLeft("dispatch")
    /\ PhasesLeft("check") < PhasesLeft("closing")
    /\ \A pc \in Returning :
         /\ PhasesLeft(pc) < PhasesLeft("check") /\ PhasesLeft(pc) < PhasesLeft("enter")
         /\ PhasesLeft("exited") < PhasesLeft(pc)
BY DEF PhasesLeft, Returning

\* The loop of a thread that is being joined.
LEMMA JoinedLoopStep ==
    ASSUME TypeOK, CarefulInv, StopIsPending, NEW t \in Threads, LoopStep(t)
    PROVE  StopIsPending' /\ Advances
<1> USE DEF TypeOK, object, loop, host
<1> SUFFICES ASSUME hostAt = "join" PROVE StopIsPending' /\ Advances
  BY LoopStepEffect DEF StopIsPending, Advances
<1>1. hostAt' = "join" /\ m_lpThread' = m_lpThread /\ thread[t] \in Serving
  BY LoopStepEffect
<1>2. m_lpThread = t
  BY <1>1, Counters DEF CarefulInv, OneThread
<1>3. stop_flag \/ thread[t] \in Returning
  <2>1. "exited" \notin Serving
    BY DEF Serving, InLoop, Returning
  <2> QED
    BY <1>1, <1>2, <2>1 DEF StopIsPending
<1>4. CASE LoopTest(t) /\ thread[t] \in {"enter", "check"}
  <2>1. stop_flag
    BY <1>3, <1>4 DEF Returning
  <2>2. PICK pc \in Returning : thread' = [thread EXCEPT ![t] = pc]
    BY <1>4, <2>1 DEF LoopTest, Returning
  <2> QED
    BY <1>1, <1>2, <1>4, <2>2, PhaseOrder DEF StopIsPending, Advances
<1>5. CASE Poll(t) \/ EndDispatch(t) \/ RunClosing(t) \/ Wake(t)
  <2>1. stop_flag' = stop_flag /\ thread[t] \notin Returning
    BY <1>5 DEF Poll, EndDispatch, RunClosing, Wake, ThreadGoes, Returning
  <2>2. StopIsPending'
    BY <1>3, <2>1 DEF StopIsPending
  <2>3. CASE Poll(t)
    <3>1. PICK pc \in {"blocked", "dispatch"} : thread' = [thread EXCEPT ![t] = pc]
      BY <2>3 DEF Poll
    <3> QED
      BY <1>2, <2>2, <2>3, <3>1, PhaseOrder DEF Poll, Advances
  <2>4. CASE EndDispatch(t) \/ RunClosing(t) \/ Wake(t)
    BY <1>2, <2>2, <2>4, PhaseOrder DEF EndDispatch, RunClosing, Wake, ThreadGoes, Advances
  <2> QED
    BY <1>5, <2>3, <2>4
<1>6. CASE ReturnFromLoop(t)
  BY <1>1, <1>2, <1>6, PhaseOrder DEF ReturnFromLoop, StopIsPending, Advances
<1>7. CASE UNCHANGED thread /\ stop_flag' = stop_flag
  BY <1>1, <1>7 DEF StopIsPending, Advances
<1>8. Enter(t) => (LoopTest(t) /\ thread[t] = "enter") \/ UNCHANGED <<thread, stop_flag>>
  BY DEF Enter
<1>9. Check(t) => LoopTest(t) /\ thread[t] = "check"
  BY DEF Check
<1>10. ClientEvent(t) => UNCHANGED <<thread, stop_flag>>
  BY DEF ClientEvent
<1> QED
  BY <1>4, <1>5, <1>6, <1>7, <1>8, <1>9, <1>10 DEF LoopStep

LEMMA StopAdvancesStep ==
    ASSUME TypeOK, CarefulInv, StopIsPending, [CarefulNext]_vars
    PROVE  StopIsPending' /\ [Advances]_vars
<1> USE DEF object, loop, host
<1>1. CASE CarefulCall
  <2>1. hostAt = "idle" /\ hostAt' # "join"
    BY <1>1 DEF CarefulCall, Start, ReleaseArguments, Stop, HostIdle, HostGoes
  <2> QED
    BY <2>1 DEF StopIsPending, Advances
<1>2. CASE HostStep
  <2>1. UNCHANGED thread /\ (hostAt' = "join" => LoopStop)
    BY <1>2 DEF HostStep, RecvStop, CloseSocket, LoopStop, Join, ExecuteReturns, FreeSocket, LoopClose, HostGoes
  <2>2. LoopStop => stop_flag'
    BY DEF LoopStop
  <2> QED
    BY <2>1, <2>2 DEF StopIsPending, Advances
<1>3. ASSUME NEW t \in Threads, Initialize(t) \/ BindStep(t) \/ Publish(t)
      PROVE  StopIsPending' /\ Advances
  <2> USE DEF Initialize, BindStep, Bind, InitHandle, BindAddress, Listen, StoreSocket, BindFailed, Publish
  <2>1. thread[t] \in Before
    BY <1>3 DEF ThreadGoes, Before, Binding
  <2>2. m_lpThread = t
    BY <2>1 DEF CarefulInv, OneThread, Live
  <2>3. hostAt = "idle"
    BY <2>1, <2>2, Counters DEF CarefulInv, Stopping
  <2>4. hostAt' = hostAt
    BY <1>3
  <2> QED
    BY <2>3, <2>4 DEF StopIsPending, Advances
<1>4. ASSUME NEW t \in Threads, LoopStep(t)
      PROVE  StopIsPending' /\ Advances
  BY <1>4, JoinedLoopStep
<1>5. CASE UNCHANGED vars
  BY <1>5 DEF vars, StopIsPending
<1> QED
  BY <1>1, <1>2, <1>3, <1>4, <1>5 DEF CarefulNext, ServerThread, BindStep, Network, LoopStep

\* The thread that a careful host's Stop joins only goes on towards its end.
THEOREM StopAdvancesCorrect == HonestResults /\ CarefulSpec => StopAdvances
<1>1. Init => StopIsPending
  BY DEF Init, StopIsPending
<1>2. TypeOK /\ CarefulInv /\ StopIsPending /\ [CarefulNext]_vars => StopIsPending' /\ [Advances]_vars
  BY StopAdvancesStep
<1> QED
  BY <1>1, <1>2, CarefulInvariant, PTL DEF CarefulSpec, StopAdvances, Advances

-----------------------------------------------------------------------------
(***************************************************************************)
(* The object implements ServerLifecycle under a careful host.             *)
(***************************************************************************)
OpenHandles == {t \in Threads : handle[t] = "active"}
StartingThreads == {t \in Threads : thread[t] \in Before}
ServingThreads == {t \in Threads : thread[t] \in Serving}

LEMMA LifecycleInit == Init => Lifecycle!Init
BY WidthAssumption DEF Init, Lifecycle!Init, Before, Binding, Serving, InLoop, Returning, IsRunning,
   ERROR_NONE, ERROR_STILL_ALIVE

\* What the invariant says of the mapped state, with the recorded thread at hand.
LEMMA MappedState ==
    ASSUME TypeOK, CarefulInv
    PROVE  /\ m_lpThread = NULL => StartingThreads = {} /\ ServingThreads = {} /\ OpenHandles = {}
           /\ \A t \in Threads : thread[t] \in Before =>
                /\ m_lpThread = t /\ StartingThreads = {t} /\ ServingThreads = {} /\ ~IsRunning
                /\ OpenHandles = IF thread[t] \in {"store", "publish"} THEN {t} ELSE {}
           /\ \A t \in Threads : thread[t] \in Serving =>
                m_lpThread = t /\ StartingThreads = {} /\ ServingThreads = {t}
           /\ hostAt # "idle" => StartingThreads = {}
           /\ hostAt \in {"stop", "join"} => OpenHandles = {}
<1> USE DEF StartingThreads, ServingThreads, OpenHandles, CarefulInv, Threads
<1>1. Before \subseteq Live /\ Serving \subseteq Live /\ Before \cap Serving = {}
  BY Counters
<1>2. ASSUME m_lpThread = NULL
      PROVE  StartingThreads = {} /\ ServingThreads = {} /\ OpenHandles = {}
  BY <1>1, <1>2 DEF OneThread, OpenIsRecorded
<1>3. ASSUME NEW t \in Threads, thread[t] \in Before
      PROVE  /\ m_lpThread = t /\ StartingThreads = {t} /\ ServingThreads = {} /\ ~IsRunning
             /\ OpenHandles = IF thread[t] \in {"store", "publish"} THEN {t} ELSE {}
  <2>1. m_lpThread = t /\ \A u \in Threads : u # t => thread[u] \notin Live
    BY <1>1, <1>3 DEF OneThread
  <2>2. StartingThreads = {t} /\ ServingThreads = {}
    BY <1>1, <1>3, <2>1
  <2>3. ~IsRunning
    BY <2>2 DEF StillAliveIsTrue
  <2>4. hostAt = "idle"
    BY <1>1, <1>3, <2>1, Counters DEF Stopping
  <2>5. handle[t] = "active" <=> thread[t] \in {"store", "publish"}
    BY <1>3, <2>4, Counters DEF NoEarlyHandle, OpenWhileIdle, NotListening
  <2> QED
    BY <2>1, <2>2, <2>3, <2>5 DEF OpenIsRecorded
<1>4. ASSUME NEW t \in Threads, thread[t] \in Serving
      PROVE  m_lpThread = t /\ StartingThreads = {} /\ ServingThreads = {t}
  BY <1>1, <1>4 DEF OneThread
<1>5. ASSUME hostAt # "idle" PROVE StartingThreads = {}
  <2>1. thread[m_lpThread] \in Serving \cup {"exited"}
    BY <1>5 DEF Stopping
  <2>2. thread[m_lpThread] \notin Before
    BY <1>1, <2>1, Counters
  <2> QED
    BY <1>1, <2>2 DEF OneThread
<1>6. ASSUME hostAt \in {"stop", "join"} PROVE OpenHandles = {}
  BY <1>6 DEF OpenIsRecorded
<1> QED
  BY <1>2, <1>3, <1>4, <1>5, <1>6

\* The step that moves thread t out of one set of counters into another.
LEMMA MovedThread ==
    ASSUME TypeOK, NEW t \in Threads, NEW pc, thread' = [thread EXCEPT ![t] = pc]
    PROVE  /\ StartingThreads' = IF pc \in Before THEN StartingThreads \cup {t} ELSE StartingThreads \ {t}
           /\ ServingThreads' = IF pc \in Serving THEN ServingThreads \cup {t} ELSE ServingThreads \ {t}
BY DEF TypeOK, StartingThreads, ServingThreads

LEMMA MovedHandle ==
    ASSUME TypeOK, NEW t \in Threads, NEW ht, handle' = [handle EXCEPT ![t] = ht]
    PROVE  OpenHandles' = IF ht = "active" THEN OpenHandles \cup {t} ELSE OpenHandles \ {t}
BY DEF TypeOK, OpenHandles

LEMMA LifecycleStep ==
    ASSUME HonestResults, TypeOK, CarefulInv, [CarefulNext]_vars
    PROVE  Lifecycle!Next \/ UNCHANGED Lifecycle!lifecycle
<1> USE DEF object, loop, host
<1>a. Before \cap Serving = {}
  BY Counters
<1>b. UNCHANGED thread => UNCHANGED <<StartingThreads, ServingThreads>>
  BY DEF StartingThreads, ServingThreads
<1>c. UNCHANGED handle => UNCHANGED OpenHandles
  BY DEF OpenHandles
<1>0. ASSUME UNCHANGED <<StartingThreads, ServingThreads, OpenHandles, m_lpThread, IsRunning>>
      PROVE  UNCHANGED Lifecycle!lifecycle
  BY <1>0 DEF Lifecycle!lifecycle, StartingThreads, ServingThreads, OpenHandles
<1>1. CASE UNCHANGED vars \/ ReleaseArguments \/ Stop \/ LoopStop
  <2>1. UNCHANGED <<thread, handle, m_lpThread, m_ulExitCode>>
    BY <1>1 DEF vars, ReleaseArguments, Stop, LoopStop
  <2> QED
    BY <1>0, <1>b, <1>c, <2>1 DEF IsRunning
<1>2. CASE m_lpThread = NULL /\ Start
  <2>1. StartingThreads = {} /\ ServingThreads = {} /\ OpenHandles = {}
    BY <1>2, MappedState
  <2>2. CASE UNCHANGED <<thread, m_lpThread>>
    BY <1>0, <1>2, <1>b, <1>c, <2>2 DEF Start, IsRunning
  <2>3. CASE ~UNCHANGED <<thread, m_lpThread>>
    <3>1. PICK s \in Threads : s = started + 1 /\ s # NULL
      BY <1>2, BoundsAssumption DEF Start, TypeOK, Threads
    <3>2. thread' = [thread EXCEPT ![s] = "init"] /\ m_lpThread' = s /\ UNCHANGED <<handle, m_ulExitCode>>
      BY <1>2, <2>3, <3>1 DEF Start
    <3>3. StartingThreads' = {s} /\ ServingThreads' = {} /\ OpenHandles' = {}
      BY <1>a, <1>c, <2>1, <3>1, <3>2, MovedThread DEF Before, Binding
    <3>4. Lifecycle!Launch(s)
      BY <1>2, <2>1, <3>1, <3>2, <3>3
         DEF Lifecycle!Launch, StartingThreads, ServingThreads, OpenHandles, IsRunning
    <3> QED
      BY <3>1, <3>4 DEF Lifecycle!Next
  <2> QED
    BY <2>2, <2>3
<1>3. CASE RecvStop \/ CloseSocket
  <2>1. m_socket \in Threads /\ m_lpThread # NULL /\ StartingThreads = {} /\ hostAt \in {"recv", "close"}
    BY <1>3, MappedState DEF RecvStop, CloseSocket, CarefulInv, Closable, Stopping, Threads
  <2>2. \/ handle' = handle
        \/ \E ht \in {"idle", "closing"} : handle' = [handle EXCEPT ![m_socket] = ht]
    BY <1>3 DEF RecvStop, CloseSocket, MarkClosing
  <2>3. OpenHandles \subseteq {m_socket}
    BY <2>1 DEF CarefulInv, OpenIsRecorded, Stopping, OpenHandles
  <2>4. OpenHandles' = OpenHandles \/ OpenHandles' = {}
    BY <1>c, <2>1, <2>2, <2>3, MovedHandle
  <2>5. UNCHANGED <<thread, m_lpThread, m_ulExitCode>>
    BY <1>3 DEF RecvStop, CloseSocket
  <2>6. CASE OpenHandles' = OpenHandles
    BY <1>0, <1>b, <2>5, <2>6 DEF IsRunning
  <2>7. CASE OpenHandles' = {} /\ OpenHandles # {}
    BY <1>b, <2>1, <2>5, <2>7
       DEF Lifecycle!Next, Lifecycle!Shut, StartingThreads, ServingThreads, OpenHandles, IsRunning
  <2> QED
    BY <2>4, <2>6, <2>7
<1>4. CASE Join
  <2>1. StartingThreads = {} /\ OpenHandles = {} /\ m_lpThread # NULL
    BY <1>4, MappedState DEF Join, CarefulInv, Stopping, Threads
  <2>2. ServingThreads = {}
    <3>1. \A t \in Threads : thread[t] \in Serving => t = m_lpThread
      BY MappedState
    <3>2. "exited" \notin Serving
      BY Counters DEF Bound
    <3> QED
      BY <1>4, <3>1, <3>2 DEF Join, ServingThreads
  <2>3. UNCHANGED <<thread, handle, m_ulExitCode>> /\ m_lpThread' = NULL
    BY <1>4 DEF Join
  <2> QED
    BY <1>b, <1>c, <2>1, <2>2, <2>3
       DEF Lifecycle!Next, Lifecycle!Reap, StartingThreads, ServingThreads, OpenHandles, IsRunning
<1>5. ASSUME NEW t \in Threads, Initialize(t) \/ BindStep(t) \/ Publish(t)
      PROVE  Lifecycle!Next \/ UNCHANGED Lifecycle!lifecycle
  <2> USE DEF ThreadGoes
  <2>1. thread[t] \in Before
    BY <1>5 DEF Initialize, BindStep, Bind, InitHandle, BindAddress, Listen, StoreSocket, BindFailed,
       Publish, Before, Binding
  <2>2. /\ m_lpThread = t /\ StartingThreads = {t} /\ ServingThreads = {} /\ ~IsRunning
        /\ OpenHandles = IF thread[t] \in {"store", "publish"} THEN {t} ELSE {}
    BY <2>1, MappedState
  <2>3. UNCHANGED m_lpThread /\ "exited" \notin Before /\ "exited" \notin Serving
    BY <1>5, Counters DEF Initialize, BindStep, Bind, InitHandle, BindAddress, Listen, StoreSocket,
       BindFailed, Publish
  \* The thread ends before it listens.
  <2>4. ASSUME thread' = [thread EXCEPT ![t] = "exited"], OpenHandles = {}, UNCHANGED handle, ~IsRunning'
        PROVE  Lifecycle!Next
    <3>1. StartingThreads' = {} /\ ServingThreads' = {} /\ OpenHandles' = {}
      BY <1>c, <2>2, <2>3, <2>4, MovedThread
    <3>2. UNCHANGED IsRunning
      BY <2>2, <2>4 DEF IsRunning
    <3>3. Lifecycle!GiveUp(t)
      BY <2>2, <2>3, <2>4, <3>1, <3>2 DEF Lifecycle!GiveUp, StartingThreads, ServingThreads, OpenHandles
    <3> QED
      BY <3>3 DEF Lifecycle!Next
  \* The thread goes on with nothing to be seen from outside.
  <2>5. ASSUME \/ UNCHANGED thread
               \/ \E pc \in Before : thread' = [thread EXCEPT ![t] = pc],
               UNCHANGED OpenHandles, ~IsRunning'
        PROVE  UNCHANGED Lifecycle!lifecycle
    <3>1. UNCHANGED <<StartingThreads, ServingThreads>>
      BY <1>a, <1>b, <2>2, <2>5, MovedThread
    <3> QED
      BY <1>0, <2>2, <2>3, <2>5, <3>1 DEF IsRunning
  <2>6. CASE Initialize(t)
    <3>1. ~IsRunning' /\ thread[t] = "init" /\ UNCHANGED handle
      BY <2>6 DEF Initialize, HonestResults, IsRunning
    <3>2. OpenHandles = {} /\ OpenHandles' = {}
      BY <1>c, <2>2, <3>1
    <3>3. thread' = [thread EXCEPT ![t] = "exited"] \/ thread' = [thread EXCEPT ![t] = "bind"]
      BY <2>6 DEF Initialize
    <3>4. "bind" \in Before
      BY DEF Before, Binding
    <3> QED
      BY <2>4, <2>5, <3>1, <3>2, <3>3, <3>4
  <2>7. CASE Bind(t) \/ BindAddress(t) \/ StoreSocket(t)
    <3>1. /\ UNCHANGED <<handle, m_ulExitCode>>
          /\ UNCHANGED thread \/ \E pc \in {"handle", "listen", "failed", "publish"} :
                                    thread' = [thread EXCEPT ![t] = pc]
      BY <2>7 DEF Bind, BindAddress, StoreSocket
    <3>2. {"handle", "listen", "failed", "publish"} \subseteq Before
      BY DEF Before, Binding
    <3>3. ~IsRunning'
      BY <2>2, <3>1 DEF IsRunning
    <3> QED
      BY <1>c, <2>5, <3>1, <3>2, <3>3
  <2>8. CASE BindFailed(t)
    <3>1. /\ thread[t] = "failed" /\ thread' = [thread EXCEPT ![t] = "exited"]
          /\ UNCHANGED handle /\ ~IsRunning'
      BY <2>8, WidthAssumption DEF BindFailed, IsRunning, ERROR_BIND_ERROR, ERROR_STILL_ALIVE
    <3> QED
      BY <2>2, <2>4, <3>1
  <2>9. CASE InitHandle(t) \/ Listen(t)
    <3>1. thread[t] \in {"handle", "listen"} /\ OpenHandles = {} /\ m_ulExitCode' = m_ulExitCode
      BY <2>2, <2>9 DEF InitHandle, Listen
    <3>2. ~IsRunning'
      BY <2>2, <3>1 DEF IsRunning
    <3>3. {"address", "failed", "store"} \subseteq Before
      BY DEF Before, Binding
    <3>4. CASE /\ thread' = [thread EXCEPT ![t] = "store"] /\ handle' = [handle EXCEPT ![t] = "active"]
      <4>1. StartingThreads' = {t} /\ ServingThreads' = {} /\ OpenHandles' = {t}
        BY <1>a, <2>2, <3>1, <3>3, <3>4, MovedThread, MovedHandle
      <4>2. Lifecycle!Listen(t)
        BY <2>2, <2>3, <3>1, <3>2, <4>1
           DEF Lifecycle!Listen, StartingThreads, ServingThreads, OpenHandles, IsRunning
      <4> QED
        BY <4>2 DEF Lifecycle!Next
    <3>5. CASE /\ \E pc \in {"address", "failed"} : thread' = [thread EXCEPT ![t] = pc]
               /\ handle' \in {handle, [handle EXCEPT ![t] = "idle"]}
      <4>1. OpenHandles' = {}
        BY <1>c, <3>1, <3>5, MovedHandle
      <4> QED
        BY <2>5, <3>1, <3>2, <3>3, <3>5, <4>1
    <3> QED
      BY <2>9, <3>4, <3>5 DEF InitHandle, Listen
  <2>10. CASE Publish(t)
    <3>1. thread[t] = "publish" /\ thread' = [thread EXCEPT ![t] = "enter"] /\ UNCHANGED handle /\ IsRunning'
      BY <2>10 DEF Publish, IsRunning
    <3>2. StartingThreads' = {} /\ ServingThreads' = {t} /\ OpenHandles = {t} /\ OpenHandles' = {t}
      BY <1>a, <1>c, <2>2, <3>1, MovedThread, Counters
    <3>3. Lifecycle!Serve(t)
      BY <2>2, <2>3, <3>1, <3>2
         DEF Lifecycle!Serve, StartingThreads, ServingThreads, OpenHandles, IsRunning
    <3> QED
      BY <3>3 DEF Lifecycle!Next
  <2> QED
    BY <1>5, <2>6, <2>7, <2>8, <2>9, <2>10 DEF BindStep
<1>6. ASSUME NEW t \in Threads, LoopStep(t)
      PROVE  Lifecycle!Next \/ UNCHANGED Lifecycle!lifecycle
  <2>1. /\ thread[t] \in Serving
        /\ handle' \in {handle, OnClose(handle)}
        /\ UNCHANGED m_lpThread
    BY <1>6, LoopStepEffect
  <2>2. StartingThreads = {} /\ ServingThreads = {t}
    BY <2>1, MappedState
  <2>3. OpenHandles' = OpenHandles
    BY <2>1 DEF OpenHandles, OnClose, TypeOK
  <2>4. CASE ReturnFromLoop(t)
    <3>1. thread' = [thread EXCEPT ![t] = "exited"] /\ ~IsRunning'
      BY <2>4, WidthAssumption DEF ReturnFromLoop, IsRunning, ERROR_STILL_ALIVE, Returning
    <3>2. StartingThreads' = {} /\ ServingThreads' = {}
      <4>1. {"exited"} \cap (Before \cup Serving) = {}
        BY Counters
      <4> QED
        BY <2>2, <3>1, <4>1, MovedThread
    <3>3. Lifecycle!End(t)
      BY <2>1, <2>2, <2>3, <3>1, <3>2
         DEF Lifecycle!End, StartingThreads, ServingThreads, OpenHandles, IsRunning
    <3> QED
      BY <3>3 DEF Lifecycle!Next
  <2>5. CASE ~ReturnFromLoop(t)
    <3>1. m_ulExitCode' = m_ulExitCode
      BY <1>6, <2>5 DEF LoopStep, Enter, Poll, EndDispatch, RunClosing, Check, Wake, ClientEvent
    <3>2. UNCHANGED thread \/ \E pc \in Serving : thread' = [thread EXCEPT ![t] = pc]
      BY <1>6, <2>5 DEF LoopStep, Enter, Poll, EndDispatch, RunClosing, Check, Wake, ClientEvent,
         LoopTest, ThreadGoes, Serving, InLoop, Returning
    <3>3. UNCHANGED <<StartingThreads, ServingThreads>>
      BY <1>a, <1>b, <2>2, <3>2, MovedThread
    <3> QED
      BY <1>0, <2>1, <2>3, <3>1, <3>3 DEF IsRunning
  <2> QED
    BY <2>4, <2>5
<1>7. ~ExecuteReturns /\ ~FreeSocket /\ ~LoopClose
  BY DEF CarefulInv, Stopping, ExecuteReturns, FreeSocket, LoopClose
<1>8. CASE CarefulCall
  BY <1>1, <1>2, <1>8 DEF CarefulCall
<1>9. CASE HostStep
  BY <1>1, <1>3, <1>4, <1>7, <1>9 DEF HostStep
<1>10. ASSUME NEW t \in Threads, ServerThread(t) \/ Network(t)
       PROVE  Lifecycle!Next \/ UNCHANGED Lifecycle!lifecycle
  BY <1>5, <1>6, <1>10 DEF ServerThread, BindStep, Network, LoopStep
<1> QED
  BY <1>1, <1>8, <1>9, <1>10 DEF CarefulNext

\* Under a careful host the object keeps the contract of ServerLifecycle.
THEOREM CarefulLifecycle == HonestResults /\ CarefulSpec => LifecycleSpec
<1>1. HonestResults /\ TypeOK /\ CarefulInv /\ [CarefulNext]_vars
      => [Lifecycle!Next]_Lifecycle!lifecycle
  BY LifecycleStep
<1>2. CASE HonestResults
  BY <1>1, <1>2, CarefulInvariant, LifecycleInit, PTL DEF CarefulSpec, LifecycleSpec, Lifecycle!Spec
<1> QED
  BY <1>2

=============================================================================
