--------------------------- MODULE TemplateServer ---------------------------
(***************************************************************************)
(* CTemplateServer (TemplateServer.cpp) after Bind: the callbacks that     *)
(* libuv runs on the thread of the loop for the listening socket, for its  *)
(* TCP clients and for UDP datagrams, and what the module that derives     *)
(* from the class may do while one of its virtual functions runs.          *)
(*                                                                         *)
(* One thread runs everything, so a callback is the sequence: what libuv   *)
(* and TemplateServer.cpp do before they call the module, any number of    *)
(* calls the module makes, and what TemplateServer.cpp does with the value *)
(* that the module returns.  Write requests are not in this module: they   *)
(* keep a loop alive that has no active handle, and nothing else here.     *)
(***************************************************************************)
EXTENDS Integers, UvLoop

CONSTANTS
    Server,        \* the handle that Bind made and stored in m_socket
    Clients,       \* the handles of the connections that clients open
    BufferSize,    \* what libuv asks libuv_callback_allocate_buffer for
    ReadSizes,     \* nread of a read callback: an error, nothing, or bytes
    AcceptFails    \* whether uv_accept may fail

ASSUME HandleAssumption == Server \notin Clients /\ NULL \notin Clients \cup {Server}

\* libuv never reports more bytes than the buffer holds.
ASSUME ReadAssumption ==
    BufferSize \in Nat \ {0} /\ ReadSizes \subseteq Int /\ \A n \in ReadSizes : n <= BufferSize

ASSUME AcceptAssumption == AcceptFails \in BOOLEAN

Handles == Clients \cup {Server}

VARIABLES
    m_sockType,
    handle,        \* the handle table of the loop
    data,          \* the data field of each handle
    accepted,      \* clients for which uv_accept succeeded
    held,          \* sockets the module was given
    callback,      \* the virtual function the module is in, or none
    current,       \* its mdk_socket
    stop_flag,
    loop,          \* running, or returned from uv_run
    fault

vars == <<m_sockType, handle, data, accepted, held, callback, current, stop_flag, loop, fault>>

Callbacks == {"none", "OnTCPNewConnection", "OnTCPRead", "OnUDPRead"}
Faults == {"none", "null_socket", "use_after_free", "double_close", "heap_overflow"}

\* Only the close callback frees a handle, so that none is left dangling in the
\* loop's queue.
TypeOK ==
    /\ m_sockType \in {"SOCKET_TCP", "SOCKET_UDP"}
    /\ handle \in [Handles -> HandleStates \ {"dangling"}]
    /\ data \in [Handles -> {"unset", "CClientData", "null"}]
    /\ accepted \subseteq Clients
    /\ held \subseteq Handles
    /\ callback \in Callbacks
    /\ current \in Handles \cup {NULL}
    /\ stop_flag \in BOOLEAN
    /\ loop \in {"running", "returned"}
    /\ fault \in Faults

\* The end of a Bind that succeeded, and StartServer.
Init ==
    /\ m_sockType \in {"SOCKET_TCP", "SOCKET_UDP"}
    /\ handle = [h \in Handles |-> IF h = Server THEN "active" ELSE "none"]
    /\ data = [h \in Handles |-> IF h = Server THEN "CClientData" ELSE "unset"]
    /\ accepted = {}
    /\ held = {}
    /\ callback = "none" /\ current = NULL
    /\ stop_flag = FALSE
    /\ loop = "running"
    /\ fault = "none"

Dispatching == loop = "running" /\ callback = "none"

\* uv_close on p, or what goes wrong.
Closes(p) ==
    /\ fault' = CloseFault(handle, p)
    /\ handle' = IF fault' = "none" THEN MarkClosing(handle, p) ELSE handle

\* The module is called with socket h.
Calls(function, h) ==
    /\ callback' = function
    /\ current' = h
    /\ held' = held \cup {h}

-----------------------------------------------------------------------------
(***************************************************************************)
(* libuv_callback_on_server_tcp_new_connection up to its call of           *)
(* OnTCPNewConnection.  A failed uv_accept closes the new handle and then  *)
(* goes on as a successful one does.  (With status < 0 or no data it       *)
(* returns at once.)                                                       *)
(***************************************************************************)
\* Mutant: the handle is given to the module before it has its data.
NewConnection_LateData(c) ==
    /\ Dispatching
    /\ m_sockType = "SOCKET_TCP" /\ handle[Server] = "active" /\ handle[c] = "none"
    /\ accepted' = accepted \cup {c}
    /\ handle' = [handle EXCEPT ![c] = "idle"]
    /\ Calls("OnTCPNewConnection", c)
    /\ UNCHANGED <<m_sockType, data, stop_flag, loop, fault>>

NewConnection(c) ==
    /\ Dispatching
    /\ m_sockType = "SOCKET_TCP" /\ handle[Server] = "active" /\ data[Server] # "null"
    /\ handle[c] = "none"
    /\ \/ /\ handle' = [handle EXCEPT ![c] = "idle"]
          /\ accepted' = accepted \cup {c}
       \/ /\ AcceptFails
          /\ handle' = [handle EXCEPT ![c] = "closing"]
          /\ UNCHANGED accepted
    /\ data' = [data EXCEPT ![c] = data[Server]]
    /\ Calls("OnTCPNewConnection", c)
    /\ UNCHANGED <<m_sockType, stop_flag, loop, fault>>

(***************************************************************************)
(* The rest of it.  uv_read_start fails on a handle that is closing, and   *)
(* may fail on one that is not.                                            *)
(***************************************************************************)
\* Mutant: the handle of a refused connection is freed like any memory.
NewConnectionRefused_Frees(c) ==
    handle' = [handle EXCEPT ![c] = "dangling"] /\ UNCHANGED fault

NewConnectionRefused(c) == Closes(c)

ReadStart(c) ==
    \/ handle[c] = "idle" /\ handle' = [handle EXCEPT ![c] = "active"] /\ UNCHANGED fault
    \/ Closes(c)

\* Mutant: no return after the connection was refused; uv_read_start fails on
\* the closing handle, and it is closed again.
NewConnectionReturns_NoReturn ==
    /\ callback = "OnTCPNewConnection"
    /\ \/ /\ handle' = MarkClosing(handle, current)
          /\ fault' = CloseFault(handle', current)
       \/ ReadStart(current)
    /\ callback' = "none" /\ current' = NULL
    /\ UNCHANGED <<m_sockType, data, accepted, held, stop_flag, loop>>

NewConnectionReturns ==
    /\ callback = "OnTCPNewConnection"
    /\ NewConnectionRefused(current) \/ ReadStart(current)
    /\ callback' = "none" /\ current' = NULL
    /\ UNCHANGED <<m_sockType, data, accepted, held, stop_flag, loop>>

(***************************************************************************)
(* libuv_callback_on_server_tcp_read.  An error or a handle without data   *)
(* closes the client without a word to the module; otherwise a zero byte   *)
(* is written behind the nread bytes of the buffer.                        *)
(***************************************************************************)
TcpReadFails(c) ==
    /\ Dispatching
    /\ m_sockType = "SOCKET_TCP" /\ handle[c] = "active"
    /\ data[c] = "null" \/ \E n \in ReadSizes : n < 0
    /\ Closes(c)
    /\ UNCHANGED <<m_sockType, data, accepted, held, callback, current, stop_flag, loop>>

\* Mutant: the read callback does not ask whether the connection was closed
\* by the module before.
TcpRead_Late(c) ==
    /\ Dispatching
    /\ m_sockType = "SOCKET_TCP" /\ handle[c] \in {"active", "closing"} /\ data[c] # "null"
    /\ \E n \in ReadSizes : n > 0 /\ fault' = IF n >= BufferSize THEN "heap_overflow" ELSE fault
    /\ Calls("OnTCPRead", c)
    /\ UNCHANGED <<m_sockType, handle, data, accepted, stop_flag, loop>>

TcpRead(c) ==
    /\ Dispatching
    /\ m_sockType = "SOCKET_TCP" /\ handle[c] = "active" /\ data[c] # "null"
    /\ \E n \in ReadSizes : n > 0 /\ fault' = IF n >= BufferSize THEN "heap_overflow" ELSE fault
    /\ Calls("OnTCPRead", c)
    /\ UNCHANGED <<m_sockType, handle, data, accepted, stop_flag, loop>>

\* libuv_callback_on_server_udp_read; it writes no zero byte.
UdpRead ==
    /\ Dispatching
    /\ m_sockType = "SOCKET_UDP" /\ handle[Server] = "active" /\ data[Server] # "null"
    /\ \E n \in ReadSizes : n > 0
    /\ Calls("OnUDPRead", Server)
    /\ UNCHANGED <<m_sockType, handle, data, accepted, stop_flag, loop, fault>>

ReadReturns ==
    /\ callback \in {"OnTCPRead", "OnUDPRead"}
    /\ callback' = "none" /\ current' = NULL
    /\ UNCHANGED <<m_sockType, handle, data, accepted, held, stop_flag, loop, fault>>

-----------------------------------------------------------------------------
(* What the module may call from a callback.                               *)

\* Close(s).
Close(s) ==
    /\ callback # "none"
    /\ Closes(s)
    /\ UNCHANGED <<m_sockType, data, accepted, held, callback, current, stop_flag, loop>>

\* StopServer(): uv_udp_recv_stop, Close(m_socket), uv_stop.
StopServer ==
    /\ callback # "none"
    /\ Closes(Server)
    /\ stop_flag' = TRUE
    /\ UNCHANGED <<m_sockType, data, accepted, held, callback, current, loop>>

\* WriteTCP, WriteUDP, GetIPFromSocket, GetSocketExtraData: they read the
\* handle that s points to.
Use(s) ==
    /\ callback # "none"
    /\ fault' = PointerFault(handle, s)
    /\ UNCHANGED <<m_sockType, handle, data, accepted, held, callback, current, stop_flag, loop>>

-----------------------------------------------------------------------------
(***************************************************************************)
(* The end of an iteration of the loop: libuv_callback_on_close for every  *)
(* handle that waits for it, then the test of uv_run.                      *)
(***************************************************************************)
\* Mutant: the loop is left before the close callbacks have run.
EndIteration_Break ==
    /\ Dispatching
    /\ IF stop_flag THEN UNCHANGED <<handle, data>>
       ELSE /\ handle' = OnClose(handle)
            /\ data' = [h \in Handles |-> IF handle[h] = "closing" THEN "null" ELSE data[h]]
    /\ loop' = IF stop_flag \/ ~IsActive(handle') THEN "returned" ELSE "running"
    /\ stop_flag' = (stop_flag /\ loop' = "running")
    /\ UNCHANGED <<m_sockType, accepted, held, callback, current, fault>>

\* Mutant: uv_stop is forgotten between two iterations.
EndIteration_Forgets ==
    /\ Dispatching
    /\ handle' = OnClose(handle)
    /\ data' = [h \in Handles |-> IF handle[h] = "closing" THEN "null" ELSE data[h]]
    /\ loop' = IF ~IsActive(handle') THEN "returned" ELSE "running"
    /\ UNCHANGED <<m_sockType, accepted, held, callback, current, stop_flag, fault>>

EndIteration ==
    /\ Dispatching
    /\ handle' = OnClose(handle)
    /\ data' = [h \in Handles |-> IF handle[h] = "closing" THEN "null" ELSE data[h]]
    /\ loop' = IF stop_flag \/ ~IsActive(handle') THEN "returned" ELSE "running"
    /\ stop_flag' = (stop_flag /\ loop' = "running")
    /\ UNCHANGED <<m_sockType, accepted, held, callback, current, fault>>

-----------------------------------------------------------------------------
LibuvCallback ==
    \/ \E c \in Clients : NewConnection(c) \/ TcpReadFails(c) \/ TcpRead(c)
    \/ UdpRead

CallbackReturns == NewConnectionReturns \/ ReadReturns

\* A module may do anything with any socket it was ever given.
AnyCall == StopServer \/ \E s \in held : Close(s) \/ Use(s)

(***************************************************************************)
(* A disciplined module uses only the socket it is called with, closes it  *)
(* only in OnTCPRead and once, refuses a connection by returning false,    *)
(* and stops the server at most once.                                      *)
(***************************************************************************)
DisciplinedCall ==
    \/ handle[Server] = "active" /\ StopServer
    \/ callback = "OnTCPRead" /\ handle[current] = "active" /\ Close(current)
    \/ current # NULL /\ Use(current)

Next ==
    /\ fault = "none"
    /\ LibuvCallback \/ CallbackReturns \/ AnyCall \/ EndIteration

DisciplinedNext ==
    /\ fault = "none"
    /\ LibuvCallback \/ CallbackReturns \/ DisciplinedCall \/ EndIteration

\* A virtual function of the module returns, and the loop goes round: one poll
\* of libuv hands out a bounded batch of events, so that traffic between two
\* ends of an iteration cannot go on for ever (strong fairness).  Nothing
\* forces a client to connect, to send or to leave.
Fairness == WF_vars(fault = "none" /\ CallbackReturns) /\ SF_vars(fault = "none" /\ EndIteration)

Spec == Init /\ [][Next]_vars
FairSpec == Spec /\ Fairness
DisciplinedSpec == Init /\ [][DisciplinedNext]_vars

-----------------------------------------------------------------------------
(* What a disciplined module may rely on.                                  *)

\* With connections that are accepted and reads that leave room for the zero
\* byte, no callback of TemplateServer.cpp closes a handle twice, touches a
\* freed one or writes behind a buffer, in whatever order clients connect,
\* send and leave and the module refuses, closes and stops.
NoFault == fault = "none"

(***************************************************************************)
(* The callbacks keep the promise of ConnectionService.                    *)
(***************************************************************************)
ClientIs(c) ==
    CASE handle[c] = "none"   -> "new"
      [] handle[c] = "idle"   -> "offered"
      [] handle[c] = "active" -> "taken"
      [] OTHER                -> "gone"

Promise == INSTANCE ConnectionService WITH
    Nobody <- NULL,
    client <- [c \in Clients |-> ClientIs(c)],
    called <- IF callback \in {"OnTCPNewConnection", "OnTCPRead"} THEN current ELSE NULL

PromiseSpec == Promise!Spec

\* TemplateSocket.h:68, OnTCPNewConnection: "called when a new connection
\* happens".  The module hears only of connections that uv_accept gave.
HearsOfAccepted == callback = "OnTCPNewConnection" => current \in accepted

-----------------------------------------------------------------------------
(* What holds for every module, also when uv_accept fails.                 *)

\* A socket that was given to the module has its CClientData until libuv has
\* freed it: GetSocketExtraData never returns a null pointer for a socket that
\* may still be used, not even while it is being closed.
DataWhileAlive ==
    \A h \in held : handle[h] \in {"idle", "active", "closing"} => data[h] = "CClientData"

\* StartServer does not return with a close callback outstanding: what a
\* handler closed, the listening socket of StopServer included, is freed.
ReturnsClean == loop = "returned" => ~IsClosing(handle)

\* A connection that was refused, failed or was closed is freed in the end.
ClosedIsFreed ==
    \A h \in Handles : handle[h] = "closing" ~> (handle[h] = "freed" \/ ~NoFault)

\* StopServer in a handler makes StartServer return, with clients that go on
\* sending.
StopReturnsFromLoop == stop_flag ~> (loop = "returned" \/ ~NoFault)

=============================================================================
