---------------------------- MODULE ThreadServer ----------------------------
(***************************************************************************)
(* CThreadServer (ThreadServer.cpp) with the parts of CTemplateServer and  *)
(* CTemplateSocket it runs on: one server object, the master server's      *)
(* thread that calls its public operations (the host), and the threads     *)
(* that Start creates, each of which runs Execute: Initialize, Bind, then  *)
(* the libuv loop of the object until the loop returns.                    *)
(*                                                                         *)
(* The object has no lock.  Every statement of StopServer and Stop that    *)
(* touches shared state is a step of its own, so the host interleaves with *)
(* the server thread between any two of them.  Where the C code would      *)
(* dereference a null or freed pointer, or break a precondition of libuv,  *)
(* the model records a fault and stops.                                    *)
(***************************************************************************)
EXTENDS Integers, UvLoop

CONSTANTS
    MaxStarts,     \* bound: calls of Start and Execute in one behaviour
    MaxClients,    \* bound: TCP clients connected at the same time
    InitResults,   \* what a module's Initialize may return (a C int)
    ULONG_MAX      \* largest unsigned long

ASSUME BoundsAssumption == MaxStarts \in Nat \ {0} /\ MaxClients \in Nat

\* The enumerators below ERROR_STILL_ALIVE fit below ULONG_MAX.
ASSUME WidthAssumption == ULONG_MAX \in Nat /\ ULONG_MAX > 4

ASSUME InitAssumption == InitResults \subseteq Int

\* A thread is named by the Start call that created it, a server socket by
\* the thread that bound it.
Threads == 1 .. MaxStarts

\* EErrorCodes.
ERROR_NONE == 0
ERROR_BIND_ERROR == 2
ERROR_STILL_ALIVE == ULONG_MAX

\* Mutant: the conversion keeps a negative code negative.
ToULong_Signed(r) == r

\* An int stored in an unsigned long.
ToULong(r) == r % (ULONG_MAX + 1)

VARIABLES
    m_bUDP,        \* constructor argument
    m_lpThread,    \* thread to be joined, or NULL
    m_ulExitCode,
    m_socket,      \* server handle, or NULL
    m_sockType,
    args,          \* the Start call whose ip, port, database and cfg are stored
    ipFreed,       \* the Start calls whose ip string, a plain char*, is gone
    ip,            \* the parameter of the Bind of each thread: whose ip string
    thread,        \* program counter of each server thread
    handle,        \* the libuv handles of the object's loop that Bind made
    clients,       \* number of connected TCP clients, each an active handle
    stop_flag,     \* stop_flag of the loop
    started,       \* calls of Start and Execute so far
    hostOp,        \* the operation the host is in
    hostAt,        \* and the statement it is at
    fault

object == <<m_bUDP, m_lpThread, m_ulExitCode, m_socket, m_sockType, args, ipFreed>>
loop == <<handle, clients, stop_flag>>
host == <<hostOp, hostAt>>
vars == <<object, loop, thread, ip, started, host, fault>>

-----------------------------------------------------------------------------
(***************************************************************************)
(* Program counter of a server thread:                                     *)
(*   init, bind, failed, publish, enter       the statements of Execute    *)
(*   handle, address, listen, store           the statements of Bind       *)
(*   poll, blocked, dispatch, closing, check     phases of uv_run          *)
(*   return_alive, return_idle        uv_run is returning 1, 0             *)
(***************************************************************************)
Binding == {"bind", "handle", "address", "listen", "store"}
Before == {"init", "failed", "publish"} \cup Binding
InLoop == {"poll", "blocked", "dispatch", "closing", "check"}
Returning == {"return_alive", "return_idle"}
Serving == {"enter"} \cup InLoop \cup Returning
Live == Before \cup Serving
ThreadStates == Live \cup {"absent", "exited"}

HostOps == {"none", "Stop", "StopServer", "Destroy", "Execute"}
HostSteps == {"idle", "recv", "close", "stop", "join", "free", "loop", "wait", "gone"}
Faults == {"none", "null_socket", "use_after_free", "double_close",
           "double_free", "bad_ip", "loop_reentered", "loop_closed_twice"}

TypeOK ==
    /\ m_bUDP \in BOOLEAN
    /\ m_lpThread \in Threads \cup {NULL}
    /\ m_ulExitCode \in 0 .. ULONG_MAX
    /\ m_socket \in Threads \cup {NULL}
    /\ m_sockType \in {"SOCKET_TCP", "SOCKET_UDP"}
    /\ args \in Threads \cup {NULL}
    /\ ipFreed \subseteq Threads
    /\ ip \in [Threads -> Threads \cup {NULL}]
    /\ thread \in [Threads -> ThreadStates]
    /\ handle \in [Threads -> HandleStates]
    /\ clients \in 0 .. MaxClients
    /\ stop_flag \in BOOLEAN
    /\ started \in 0 .. MaxStarts
    /\ hostOp \in HostOps
    /\ hostAt \in HostSteps
    /\ fault \in Faults

\* The constructors of CThreadServer and CTemplateSocket.
Init ==
    /\ m_bUDP \in BOOLEAN
    /\ m_lpThread = NULL
    /\ m_ulExitCode = ERROR_NONE
    /\ m_socket = NULL
    /\ m_sockType = "SOCKET_TCP"
    /\ args = NULL
    /\ ipFreed = {}
    /\ ip = [t \in Threads |-> NULL]
    /\ thread = [t \in Threads |-> "absent"]
    /\ handle = [t \in Threads |-> "none"]
    /\ clients = 0
    /\ stop_flag = FALSE
    /\ started = 0
    /\ hostOp = "none" /\ hostAt = "idle"
    /\ fault = "none"

IsRunning == m_ulExitCode = ERROR_STILL_ALIVE

ThreadGoes(t, from, to) == thread[t] = from /\ thread' = [thread EXCEPT ![t] = to]

-----------------------------------------------------------------------------
(* The host: public operations of the object.                              *)

HostIdle == hostAt = "idle"

HostGoes(op, at) == hostOp' = op /\ hostAt' = at

(***************************************************************************)
(* Start stores its arguments, then creates the thread.  It does not look  *)
(* at m_lpThread, and a failed uv_thread_create leaves the new arguments   *)
(* in place.                                                               *)
(***************************************************************************)
\* Mutant: Start initialises the loop again, as if no thread were in it.
Start_NewLoop ==
    /\ HostIdle
    /\ started < MaxStarts
    /\ started' = started + 1
    /\ args' = started'
    /\ stop_flag' = FALSE
    /\ thread' = [thread EXCEPT ![started'] = "init"]
    /\ m_lpThread' = started'
    /\ UNCHANGED <<m_bUDP, m_ulExitCode, m_socket, m_sockType, ipFreed, handle, clients,
                   ip, host, fault>>

Start ==
    /\ HostIdle
    /\ started < MaxStarts
    /\ started' = started + 1
    /\ args' = started'
    /\ \/ UNCHANGED <<thread, m_lpThread>>
       \/ /\ thread' = [thread EXCEPT ![started'] = "init"]
          /\ m_lpThread' = started'
    /\ UNCHANGED <<m_bUDP, m_ulExitCode, m_socket, m_sockType, ipFreed, loop, ip, host, fault>>

\* The host gives up the string it passed to the last Start.
ReleaseArguments ==
    /\ HostIdle
    /\ args # NULL /\ args \notin ipFreed
    /\ ipFreed' = ipFreed \cup {args}
    /\ UNCHANGED <<m_bUDP, m_lpThread, m_ulExitCode, m_socket, m_sockType, args,
                   loop, thread, ip, started, host, fault>>

\* Stop returns at once when no thread is recorded.
Stop ==
    /\ HostIdle
    /\ m_lpThread # NULL
    /\ HostGoes("Stop", "recv")
    /\ UNCHANGED <<object, loop, thread, ip, started, fault>>

\* StopServer called from outside, without a join.
StopServer ==
    /\ HostIdle
    /\ HostGoes("StopServer", "recv")
    /\ UNCHANGED <<object, loop, thread, ip, started, fault>>

\* Execute called by the owner of the object ("if you want to handle your
\* loop manually"): the host is in it until it returns.
Execute ==
    /\ HostIdle
    /\ started < MaxStarts
    /\ started' = started + 1
    /\ thread' = [thread EXCEPT ![started'] = "init"]
    /\ HostGoes("Execute", "wait")
    /\ UNCHANGED <<object, loop, ip, fault>>

\* delete: ~CThreadServer calls Stop, then ~CTemplateSocket runs.
Destroy ==
    /\ HostIdle
    /\ HostGoes("Destroy", IF m_lpThread = NULL THEN "free" ELSE "recv")
    /\ UNCHANGED <<object, loop, thread, ip, started, fault>>

(***************************************************************************)
(* The statements of StopServer and Stop, in order.                        *)
(***************************************************************************)
RecvStop ==
    /\ hostAt = "recv"
    /\ hostAt' = "close"
    /\ IF m_sockType = "SOCKET_UDP"
       THEN /\ fault' = PointerFault(handle, m_socket)
            /\ handle' = IF fault' = "none" /\ handle[m_socket] = "active"
                         THEN [handle EXCEPT ![m_socket] = "idle"] ELSE handle
       ELSE UNCHANGED <<handle, fault>>
    /\ UNCHANGED <<object, clients, stop_flag, thread, ip, started, hostOp>>

\* Mutant: StopServer forgets Close(m_socket).
CloseSocket_Forgotten ==
    /\ hostAt = "close"
    /\ hostAt' = "stop"
    /\ UNCHANGED <<object, loop, thread, ip, started, hostOp, fault>>

CloseSocket ==
    /\ hostAt = "close"
    /\ hostAt' = "stop"
    /\ fault' = CloseFault(handle, m_socket)
    /\ handle' = IF fault' = "none" THEN MarkClosing(handle, m_socket) ELSE handle
    /\ UNCHANGED <<object, clients, stop_flag, thread, ip, started, hostOp>>

\* Mutant: StopServer forgets uv_stop.
LoopStop_Forgotten ==
    /\ hostAt = "stop"
    /\ IF hostOp = "StopServer" THEN HostGoes("none", "idle") ELSE HostGoes(hostOp, "join")
    /\ UNCHANGED <<object, loop, thread, ip, started, fault>>

LoopStop ==
    /\ hostAt = "stop"
    /\ stop_flag' = TRUE
    /\ IF hostOp = "StopServer" THEN HostGoes("none", "idle") ELSE HostGoes(hostOp, "join")
    /\ UNCHANGED <<object, handle, clients, thread, ip, started, fault>>

\* Mutant: Stop does not join.
Join_Detached ==
    /\ hostAt = "join"
    /\ m_lpThread' = NULL
    /\ IF hostOp = "Destroy" THEN HostGoes("Destroy", "free") ELSE HostGoes("none", "idle")
    /\ UNCHANGED <<m_bUDP, m_ulExitCode, m_socket, m_sockType, args, ipFreed,
                   loop, thread, ip, started, fault>>

\* uv_thread_join, free(m_lpThread), m_lpThread = NULL.
Join ==
    /\ hostAt = "join"
    /\ thread[m_lpThread] = "exited"
    /\ m_lpThread' = NULL
    /\ IF hostOp = "Destroy" THEN HostGoes("Destroy", "free") ELSE HostGoes("none", "idle")
    /\ UNCHANGED <<m_bUDP, m_ulExitCode, m_socket, m_sockType, args, ipFreed,
                   loop, thread, ip, started, fault>>

ExecuteReturns ==
    /\ hostAt = "wait"
    /\ thread[started] = "exited"
    /\ HostGoes("none", "idle")
    /\ UNCHANGED <<object, loop, thread, ip, started, fault>>

-----------------------------------------------------------------------------
(***************************************************************************)
(* ~CTemplateSocket: free(m_socket) whatever state the handle is in, then  *)
(* call uv_loop_close until it returns UV_EBUSY.  It returns UV_EBUSY when *)
(* a handle is still registered, and 0 after it has closed the loop: the   *)
(* next call then works on a closed loop, which a debug build of libuv     *)
(* answers with UV_EBUSY and a release build does not survive.             *)
(***************************************************************************)
FreeSocket ==
    /\ hostAt = "free"
    /\ hostAt' = "loop"
    /\ IF m_socket = NULL
       THEN UNCHANGED <<handle, fault>>
       ELSE /\ fault' = IF handle[m_socket] = "freed" THEN "double_free" ELSE "none"
            /\ handle' = [handle EXCEPT ![m_socket] = "dangling"]
    /\ UNCHANGED <<object, clients, stop_flag, thread, ip, started, hostOp>>

LoopClose ==
    /\ hostAt = "loop"
    /\ hostAt' = "gone"
    /\ fault' \in IF \E h \in Threads : handle[h] = "dangling" THEN {"use_after_free"}
                  ELSE IF Registered(handle) = {} /\ clients = 0
                       THEN {"loop_closed_twice", "none"}
                       ELSE {"none"}
    /\ UNCHANGED <<object, loop, thread, ip, started, hostOp>>

\* A server thread that is still there uses the freed object.
ThreadOutlivesObject ==
    /\ hostAt = "gone"
    /\ \E t \in Threads : thread[t] \in Live
    /\ fault' = "use_after_free"
    /\ UNCHANGED <<object, loop, thread, ip, started, host>>

HostStep ==
    \/ RecvStop \/ CloseSocket \/ LoopStop \/ Join \/ ExecuteReturns
    \/ FreeSocket \/ LoopClose

-----------------------------------------------------------------------------
(* The server thread t: Execute.                                           *)

\* Mutant: ERROR_STILL_ALIVE is published before Bind.
Initialize_EarlyAlive(t) ==
    /\ ThreadGoes(t, "init", "bind")
    /\ m_ulExitCode' = ERROR_STILL_ALIVE
    /\ UNCHANGED <<m_bUDP, m_lpThread, m_socket, m_sockType, args, ipFreed,
                   loop, ip, started, host, fault>>

\* Initialize() of the module; its int is stored in the unsigned long.
Initialize(t) ==
    /\ thread[t] = "init"
    /\ \E r \in InitResults : m_ulExitCode' = ToULong(r)
    /\ thread' = [thread EXCEPT ![t] = IF m_ulExitCode' # ERROR_NONE THEN "exited" ELSE "bind"]
    /\ UNCHANGED <<m_bUDP, m_lpThread, m_socket, m_sockType, args, ipFreed,
                   loop, ip, started, host, fault>>

(***************************************************************************)
(* Bind, which Execute hands m_ip, m_port and m_bUDP.  Each of its libuv   *)
(* calls and each store to the object is a step: the socket is in the loop *)
(* from uv_*_init on and open from uv_listen or uv_udp_recv_start on, but  *)
(* the object points to it only when all of them have succeeded.  A failed *)
(* uv_*_init leaves nothing in the loop; a failed bind or listen leaves an *)
(* initialised handle behind that nobody closes.                           *)
(***************************************************************************)
Bind(t) ==
    /\ ThreadGoes(t, "bind", "handle")
    /\ ip' = [ip EXCEPT ![t] = args]
    /\ m_sockType' = IF m_bUDP THEN "SOCKET_UDP" ELSE m_sockType
    /\ UNCHANGED <<m_bUDP, m_lpThread, m_ulExitCode, m_socket, args, ipFreed,
                   loop, started, host, fault>>

\* uv_udp_init or uv_tcp_init.
InitHandle(t) ==
    /\ \/ ThreadGoes(t, "handle", "failed") /\ UNCHANGED handle
       \/ ThreadGoes(t, "handle", "address") /\ handle' = [handle EXCEPT ![t] = "idle"]
    /\ UNCHANGED <<object, clients, stop_flag, ip, started, host, fault>>

\* uv_ip4_addr reads the string, and takes no null pointer for it (only Start
\* sets m_ip); uv_udp_bind or uv_tcp_bind.
BindAddress(t) ==
    /\ thread[t] = "address"
    /\ IF ip[t] = NULL \/ ip[t] \in ipFreed
       THEN fault' = "bad_ip" /\ UNCHANGED thread
       ELSE /\ \E pc \in {"listen", "failed"} : ThreadGoes(t, "address", pc)
            /\ UNCHANGED fault
    /\ ip' = [ip EXCEPT ![t] = NULL]
    /\ UNCHANGED <<object, loop, started, host>>

\* uv_udp_recv_start or uv_listen.
Listen(t) ==
    /\ \/ ThreadGoes(t, "listen", "failed") /\ UNCHANGED handle
       \/ ThreadGoes(t, "listen", "store") /\ handle' = [handle EXCEPT ![t] = "active"]
    /\ UNCHANGED <<object, clients, stop_flag, ip, started, host, fault>>

\* m_socket = the socket that listens.
StoreSocket(t) ==
    /\ ThreadGoes(t, "store", "publish")
    /\ m_socket' = t
    /\ UNCHANGED <<m_bUDP, m_lpThread, m_ulExitCode, m_sockType, args, ipFreed,
                   loop, ip, started, host, fault>>

\* Mutant: a failed Bind clears m_socket.
BindFailed_Clears(t) ==
    /\ ThreadGoes(t, "failed", "exited")
    /\ m_ulExitCode' = ERROR_BIND_ERROR
    /\ m_socket' = NULL
    /\ UNCHANGED <<m_bUDP, m_lpThread, m_sockType, args, ipFreed,
                   loop, ip, started, host, fault>>

\* Execute returns with the failure of Bind as its exit code.
BindFailed(t) ==
    /\ ThreadGoes(t, "failed", "exited")
    /\ m_ulExitCode' = ERROR_BIND_ERROR
    /\ UNCHANGED <<m_bUDP, m_lpThread, m_socket, m_sockType, args, ipFreed,
                   loop, ip, started, host, fault>>

\* Mutant: ERROR_STILL_ALIVE is never published.
Publish_Forgotten(t) ==
    /\ ThreadGoes(t, "publish", "enter")
    /\ UNCHANGED <<object, loop, ip, started, host, fault>>

Publish(t) ==
    /\ ThreadGoes(t, "publish", "enter")
    /\ m_ulExitCode' = ERROR_STILL_ALIVE
    /\ UNCHANGED <<m_bUDP, m_lpThread, m_socket, m_sockType, args, ipFreed,
                   loop, ip, started, host, fault>>

(***************************************************************************)
(* StartServer is uv_run(UV_RUN_DEFAULT).  It goes round while the loop is *)
(* alive and stop_flag is clear, and clears stop_flag when it leaves.      *)
(***************************************************************************)
LoopAlive == IsActive(handle) \/ IsClosing(handle) \/ clients > 0

LoopTest(t) ==
    IF LoopAlive /\ ~stop_flag
    THEN thread' = [thread EXCEPT ![t] = "poll"] /\ UNCHANGED stop_flag
    ELSE /\ thread' = [thread EXCEPT ![t] = IF LoopAlive THEN "return_alive" ELSE "return_idle"]
         /\ stop_flag' = FALSE

\* Two threads in one loop: libuv does not allow it.
Enter(t) ==
    /\ thread[t] = "enter"
    /\ IF \E u \in Threads : thread[u] \in InLoop
       THEN fault' = "loop_reentered" /\ UNCHANGED <<thread, stop_flag>>
       ELSE LoopTest(t) /\ UNCHANGED fault
    /\ UNCHANGED <<object, handle, clients, ip, started, host>>

\* The poll does not wait when a stop is pending, when a handle waits for
\* its close callback, or when nothing is active.
Poll(t) ==
    /\ thread[t] = "poll"
    /\ thread' = [thread EXCEPT ![t] =
           IF stop_flag \/ IsClosing(handle) \/ ~(IsActive(handle) \/ clients > 0)
           THEN "dispatch" ELSE "blocked"]
    /\ UNCHANGED <<object, loop, ip, started, host, fault>>

EndDispatch(t) ==
    /\ ThreadGoes(t, "dispatch", "closing")
    /\ UNCHANGED <<object, loop, ip, started, host, fault>>

RunClosing(t) ==
    /\ ThreadGoes(t, "closing", "check")
    /\ handle' = OnClose(handle)
    /\ UNCHANGED <<object, clients, stop_flag, ip, started, host, fault>>

Check(t) ==
    /\ thread[t] = "check"
    /\ LoopTest(t)
    /\ UNCHANGED <<object, handle, clients, ip, started, host, fault>>

\* Mutant: Execute drops the value of StartServer.
ReturnFromLoop_Dropped(t) ==
    /\ thread[t] \in Returning
    /\ thread' = [thread EXCEPT ![t] = "exited"]
    /\ UNCHANGED <<object, loop, ip, started, host, fault>>

\* Mutant: Execute calls StartServer again until it returns 0.
ReturnFromLoop_Again(t) ==
    /\ thread[t] \in Returning
    /\ m_ulExitCode' = IF thread[t] = "return_alive" THEN m_ulExitCode ELSE 0
    /\ thread' = [thread EXCEPT ![t] = IF @ = "return_alive" THEN "enter" ELSE "exited"]
    /\ UNCHANGED <<m_bUDP, m_lpThread, m_socket, m_sockType, args, ipFreed,
                   loop, ip, started, host, fault>>

\* m_ulExitCode = StartServer(), the int that uv_run returned.
ReturnFromLoop(t) ==
    /\ thread[t] \in Returning
    /\ m_ulExitCode' = IF thread[t] = "return_alive" THEN 1 ELSE 0
    /\ thread' = [thread EXCEPT ![t] = "exited"]
    /\ UNCHANGED <<m_bUDP, m_lpThread, m_socket, m_sockType, args, ipFreed,
                   loop, ip, started, host, fault>>

ServerThread(t) ==
    /\ hostAt # "gone"
    /\ \/ Initialize(t) \/ Bind(t) \/ InitHandle(t) \/ BindAddress(t) \/ Listen(t)
       \/ StoreSocket(t) \/ BindFailed(t) \/ Publish(t) \/ Enter(t)
       \/ Poll(t) \/ EndDispatch(t) \/ RunClosing(t) \/ Check(t)
       \/ ReturnFromLoop(t)

-----------------------------------------------------------------------------
(* What the network and the module's handlers do on the loop thread.       *)

EventSource == IsActive(handle) \/ clients > 0

\* Only traffic on a watched handle ends a poll that waits: uv_stop and
\* uv_close called by another thread do not.
Wake(t) ==
    /\ EventSource
    /\ ThreadGoes(t, "blocked", "dispatch")
    /\ UNCHANGED <<object, loop, ip, started, host, fault>>

\* The listening socket accepts a client, or a client goes away and its
\* handle is closed and freed within this iteration.
ClientEvent(t) ==
    /\ thread[t] = "dispatch"
    /\ \/ ~m_bUDP /\ IsActive(handle) /\ clients < MaxClients /\ clients' = clients + 1
       \/ clients > 0 /\ clients' = clients - 1
    /\ UNCHANGED <<object, handle, stop_flag, thread, ip, started, host, fault>>

\* A handler of the module calls StopServer.
HandlerStops(t) ==
    /\ thread[t] = "dispatch"
    /\ EventSource
    /\ fault' = CloseFault(handle, m_socket)
    /\ handle' = IF fault' = "none" THEN MarkClosing(handle, m_socket) ELSE handle
    /\ stop_flag' = TRUE
    /\ UNCHANGED <<object, clients, thread, ip, started, host>>

Network(t) == hostAt # "gone" /\ (Wake(t) \/ ClientEvent(t))

-----------------------------------------------------------------------------
(***************************************************************************)
(* Any host, and modules whose handlers may stop their own server.         *)
(***************************************************************************)
HostCall == Start \/ ReleaseArguments \/ Stop \/ StopServer \/ Execute \/ Destroy

Next ==
    /\ fault = "none"
    /\ \/ HostCall
       \/ HostStep
       \/ ThreadOutlivesObject
       \/ \E t \in Threads : ServerThread(t) \/ Network(t) \/ HandlerStops(t)

(***************************************************************************)
(* A careful host: it starts the server again only after a Stop, stops it  *)
(* and lets go of the ip string only when IsRunning says that it runs, and *)
(* keeps the object.  The module leaves stopping to the host.              *)
(***************************************************************************)
CarefulCall ==
    \/ m_lpThread = NULL /\ Start
    \/ IsRunning /\ ReleaseArguments
    \/ IsRunning /\ Stop

CarefulNext ==
    /\ fault = "none"
    /\ \/ CarefulCall
       \/ HostStep
       \/ \E t \in Threads : ServerThread(t) \/ Network(t)

(***************************************************************************)
(* The operating system runs every thread that can run.  Nothing forces    *)
(* the host to call an operation, or a client to send anything.            *)
(***************************************************************************)
Fairness ==
    /\ WF_vars(fault = "none" /\ HostStep)
    /\ \A t \in Threads : WF_vars(fault = "none" /\ ServerThread(t))

Spec == Init /\ [][Next]_vars
FairSpec == Spec /\ Fairness
CarefulSpec == Init /\ [][CarefulNext]_vars
CarefulFairSpec == CarefulSpec /\ Fairness

-----------------------------------------------------------------------------
(* What a careful host may rely on.                                        *)

\* The owner that stops a server only while IsRunning holds, and starts the
\* next one only after that, never makes StopServer, Bind or the loop touch a
\* null, freed or closing handle, read a dead ip string or run a loop twice.
NoFault == fault = "none"

\* A server thread reads the ip, port, database and configuration that its
\* own Start stored, however the host interleaves: Start overwrites m_ip,
\* m_port, m_lpDatabase and m_cfg without asking who still reads them.
OwnArguments == \A t \in Threads : thread[t] \in Live => args = t

(***************************************************************************)
(* The object keeps the contract of ServerLifecycle: one thread at a time, *)
(* IsRunning exactly while its loop is served, and a Stop that returns     *)
(* only when the thread is gone and its port is closed.                    *)
(***************************************************************************)
Lifecycle == INSTANCE ServerLifecycle WITH
    Servers <- Threads,
    starting <- {t \in Threads : thread[t] \in Before},
    serving <- {t \in Threads : thread[t] \in Serving},
    open <- {t \in Threads : handle[t] = "active"},
    recorded <- m_lpThread # NULL,
    running <- IsRunning

LifecycleSpec == Lifecycle!Spec

\* A Start that created its thread is settled in the end: the server runs,
\* or it has ended with its exit code, however slow the host is.
StartSettles ==
    \A t \in Threads :
        thread[t] = "init" ~> (thread[t] = "exited" \/ IsRunning \/ ~NoFault)

\* What Stop waits for is only the poll: if no poll waits for ever (some
\* traffic arrives on a watched handle), every Stop of a careful host returns,
\* whichever statements of StopServer fall between the phases of the loop.
StopEnds == hostOp = "Stop" ~> (hostOp = "none" \/ ~NoFault)
PollsEnd == \A t \in Threads : thread[t] = "blocked" ~> thread[t] # "blocked"
StopEndsWithTraffic == PollsEnd => StopEnds

\* The phases that are left of a loop that does not go round again.
PhasesLeft(pc) ==
    CASE pc = "enter" -> 7 [] pc = "poll" -> 6 [] pc = "blocked" -> 5 [] pc = "dispatch" -> 4
      [] pc = "closing" -> 3 [] pc = "check" -> 2 [] pc \in Returning -> 1 [] OTHER -> 0

\* Why it returns (ThreadServer.cpp:67-74): the thread that Stop joins does not
\* go round its loop again.  No uv_stop is lost between the test of the loop and
\* the join, nor to a loop that ended on its own between uv_close and uv_stop.
StopAdvances ==
    [][hostAt = "join" /\ thread' # thread =>
         PhasesLeft(thread'[m_lpThread]) < PhasesLeft(thread[m_lpThread])]_vars

-----------------------------------------------------------------------------
(* What holds for every host and every module.                             *)

\* IsRunning never outlives the loop: whoever starts, stops or executes the
\* server in whatever order, ERROR_STILL_ALIVE is the exit code only while
\* some thread is in StartServer or about to enter it.
StillAliveIsTrue == IsRunning => \E t \in Threads : thread[t] \in Serving

\* StopServer meets a null m_socket while a socket of the object is open only
\* between uv_listen and the store of m_socket in the first Bind that succeeds
\* (TemplateServer.cpp:75-95).  A later Bind, whatever becomes of it, does not
\* bring the null pointer back, and nobody closes a socket before it is stored.
NullMeansNotStored ==
    fault = "null_socket" =>
        \A t \in Threads : handle[t] \in {"none", "idle"} \/ thread[t] = "store"

\* A loop that is awake when somebody calls uv_stop returns, with the traffic
\* that keeps arriving, the clients that stay connected and the handlers
\* that stop the server a second time.
Awake == {"dispatch", "closing", "check"}
AwakeLoopStops ==
    \A t \in Threads :
        (thread[t] \in Awake /\ stop_flag) ~> (thread[t] = "exited" \/ ~NoFault \/ hostAt = "gone")

\* uv_stop is not taken away from a loop that is awake: whatever the host calls
\* meanwhile, Start and Execute of a second thread included, stop_flag stays set
\* until the loop it was meant for has gone through its phases and returns.
StopIsKept ==
    [][\A t \in Threads :
         thread[t] \in Awake /\ stop_flag =>
            \/ thread'[t] \in Returning
            \/ /\ thread'[t] \in Awake /\ stop_flag'
               /\ PhasesLeft(thread'[t]) <= PhasesLeft(thread[t])]_vars

-----------------------------------------------------------------------------
(* What the comments of the headers say and the code does not do.          *)

\* ThreadServer.h:55, Stop: "Stop the thread".  A Stop that was called comes
\* back in the end.
StopReturns == StopEnds

\* TemplateSocket.h:71, StartServer: "Start the server".  A loop with a
\* listening socket is left only because the host stops the server.
ServesUntilStopped ==
    \A t \in Threads : thread[t] = "return_alive" => hostOp = "Stop"

=============================================================================
