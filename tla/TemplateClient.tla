--------------------------- MODULE TemplateClient ---------------------------
(***************************************************************************)
(* CTemplateClient (TemplateClient.cpp): ConnectTCP and the callbacks for  *)
(* the connection and for what is read from it.                            *)
(*                                                                         *)
(* ConnectTCP gives its handle a CClientData, as CTemplateServer does; the *)
(* callbacks take what they find there for a CTemplateClient.  A virtual   *)
(* function called on the wrong object, or on none, is a fault, and the    *)
(* model stops; the rest of the callbacks is what the code would go on to  *)
(* do.                                                                     *)
(*                                                                         *)
(* External: the connection callback is called once for every request that *)
(* uv_tcp_connect took, with an error if the handle is closed before.      *)
(***************************************************************************)
EXTENDS Naturals, UvLoop

CONSTANT MaxHandles    \* bound: calls of ConnectTCP

Handles == 1 .. MaxHandles

VARIABLES
    handle,      \* the handle table of UvLoop
    m_socket,
    data,        \* the class of the object that the handle's data points to
    request,     \* the uv_connect_t of each handle
    fault

vars == <<handle, m_socket, data, request, fault>>

TypeOK ==
    /\ handle \in [Handles -> HandleStates]
    /\ m_socket \in Handles \cup {NULL}
    /\ data \in [Handles -> {"NULL", "CClientData", "CTemplateClient"}]
    /\ request \in [Handles -> {"none", "pending", "freed", "lost"}]
    /\ fault \in {"none", "type_confusion", "null_object", "null_socket", "use_after_free", "double_close"}

Init ==
    /\ handle = [h \in Handles |-> "none"]
    /\ m_socket = NULL
    /\ data = [h \in Handles |-> "NULL"]
    /\ request = [h \in Handles |-> "none"]
    /\ fault = "none"

\* ConnectTCP: a new handle each time; the value of uv_tcp_connect is not
\* looked at, and a request that it refused is lost.
ConnectTCP ==
    /\ \E h \in Handles :
        /\ handle[h] = "none" /\ \A g \in Handles : g < h => handle[g] # "none"
        /\ m_socket' = h
        /\ data' = [data EXCEPT ![h] = "CClientData"]
        /\ \/ /\ handle' = [handle EXCEPT ![h] = "active"]
              /\ request' = [request EXCEPT ![h] = "pending"]
           \/ /\ handle' = [handle EXCEPT ![h] = "idle"]
              /\ request' = [request EXCEPT ![h] = "lost"]
    /\ UNCHANGED fault

\* A virtual function of the object that p points to.
VirtualCall(p) == IF p = "CTemplateClient" THEN "none" ELSE "type_confusion"

\* A handle whose connection is no longer pending is watched if it reads.
Connected(h, reads) ==
    [handle EXCEPT ![h] = IF @ = "closing" THEN @ ELSE IF reads THEN "active" ELSE "idle"]

(***************************************************************************)
(* libuv_callback_on_client_tcp_connection.  The request is freed whatever *)
(* happens; reading starts if the connection was made and the module       *)
(* returned false.                                                         *)
(***************************************************************************)
OnConnection(h, status) ==
    /\ request' = [request EXCEPT ![h] = "freed"]
    /\ \/ data[h] = "NULL" /\ handle' = Connected(h, FALSE) /\ UNCHANGED fault
       \/ /\ data[h] # "NULL" /\ fault' = VirtualCall(data[h])
          /\ \E answer \in BOOLEAN : handle' = Connected(h, ~answer /\ status = 0)
    /\ UNCHANGED <<m_socket, data>>

\* The connection is made, or it is not.
Connects(h) ==
    /\ handle[h] = "active" /\ request[h] = "pending"
    /\ \E status \in {0, 1} : OnConnection(h, status)

\* libuv_callback_on_client_tcp_read: the pointer to the client is never set.
OnRead(h) ==
    /\ handle[h] = "active" /\ request[h] = "freed"
    /\ data[h] # "NULL" /\ fault' = "null_object"
    /\ UNCHANGED <<handle, m_socket, data, request>>

\* Close() of the socket of the last ConnectTCP.
Close ==
    /\ fault' = CloseFault(handle, m_socket)
    /\ handle' = IF fault' = "none" THEN MarkClosing(handle, m_socket) ELSE handle
    /\ UNCHANGED <<m_socket, data, request>>

\* A handle that is closing: a pending connection is cancelled first, then the
\* close callback clears data and frees the handle.
Cancels(h) ==
    /\ handle[h] = "closing" /\ request[h] = "pending"
    /\ OnConnection(h, 1)

Closes(h) ==
    /\ handle[h] = "closing" /\ request[h] # "pending"
    /\ handle' = [handle EXCEPT ![h] = "freed"]
    /\ data' = [data EXCEPT ![h] = "NULL"]
    /\ UNCHANGED <<m_socket, request, fault>>

Next ==
    /\ fault = "none"
    /\ \/ ConnectTCP \/ Close
       \/ \E h \in Handles : Connects(h) \/ OnRead(h) \/ Cancels(h) \/ Closes(h)

Spec == Init /\ [][Next]_vars

-----------------------------------------------------------------------------
\* TemplateSocket.h:68, of OnTCPNewConnection: "Virtual function called when a
\* new connection happens".  The callback of a connection calls a function of
\* the client that asked for it, and of no other object.
CallsTheClient == fault # "type_confusion"

=============================================================================
