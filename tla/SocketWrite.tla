----------------------------- MODULE SocketWrite -----------------------------
(***************************************************************************)
(* What CTemplateSocket sends: WriteTCP, WriteUDP and their overloads, the *)
(* callbacks that free their requests, and Close (TemplateSocket.cpp), for *)
(* sockets that a server has accepted or bound and reads from.             *)
(*                                                                         *)
(* A write allocates a request and hands it to uv_write or uv_udp_send.    *)
(* libuv sends what the kernel takes at once, if nothing else is waiting,  *)
(* and the rest when the kernel is ready again, long after WriteTCP has    *)
(* returned.  Requests are numbered in the order in which they are made,   *)
(* and libuv's queues are the requests that wait for one socket in that    *)
(* order.  What the bytes are, and how long they live, is not modelled.    *)
(*                                                                         *)
(* External: a write to a closing TCP handle is refused (UV_EBADF); a      *)
(* closing UDP handle must not be written to (libuv would open it again    *)
(* and asserts that it did not).  A send that the system rejects finishes  *)
(* a datagram with an error, and its socket stays open; a TCP connection   *)
(* on which a write has failed is broken.                                  *)
(***************************************************************************)
EXTENDS Integers, UvLoop

CONSTANTS
    Sockets,       \* the mdk_sockets
    UdpSockets,    \* those of type SOCKET_UDP
    MaxRequests,   \* bound: writes in a behaviour
    Lengths        \* how many bytes one write may have

ASSUME SocketsAssumption == UdpSockets \subseteq Sockets /\ NULL \notin Sockets
ASSUME BoundsAssumption == MaxRequests \in Nat /\ Lengths \subseteq Nat \ {0}

Requests == 1 .. MaxRequests

VARIABLES
    handle,      \* the handle table of UvLoop
    broken,      \* TCP connections that the peer has given up
    calls,       \* writes so far
    socket, length,   \* of each request: where to, how many bytes
    memory,      \* the malloc'ed memory of each request
    request,     \* what libuv does with it
    left,        \* bytes that the kernel has not taken yet
    fault

call == <<calls, socket, length>>
vars == <<handle, broken, call, memory, request, left, fault>>

TypeOK ==
    /\ handle \in [Sockets -> {"active", "closing", "freed"}]
    /\ broken \subseteq Sockets \ UdpSockets
    /\ calls \in 0 .. MaxRequests
    /\ socket \in [Requests -> Sockets \cup {NULL}]
    /\ length \in [Requests -> Nat] /\ left \in [Requests -> Nat]
    /\ memory \in [Requests -> {"none", "allocated", "freed"}]
    /\ request \in [Requests -> {"none", "refused", "queued", "finished", "done"}]
    /\ fault \in {"none", "use_after_free", "double_close", "write_after_close"}

Init ==
    /\ handle = [s \in Sockets |-> "active"]
    /\ broken = {}
    /\ calls = 0
    /\ socket = [r \in Requests |-> NULL]
    /\ length = [r \in Requests |-> 0] /\ left = length
    /\ memory = [r \in Requests |-> "none"]
    /\ request = [r \in Requests |-> "none"]
    /\ fault = "none"

Waiting(s) == {r \in Requests : socket[r] = s /\ request[r] = "queued"}
Finished(s) == {r \in Requests : socket[r] = s /\ request[r] = "finished"}

\* What the kernel may take of n bytes: part of them, or a datagram or nothing.
Chunks(s, n) ==
    IF s \in broken THEN {0} ELSE IF s \in UdpSockets THEN {0, n} ELSE 0 .. n

\* The system may report an error instead: of any datagram, or of a connection
\* that is broken.
Fails(s) == s \in UdpSockets \cup broken

-----------------------------------------------------------------------------
(* The writes.                                                             *)

(***************************************************************************)
(* uv_write and uv_udp_send for request r of n bytes: they try at once if  *)
(* nothing is waiting.  An error finishes the request.                     *)
(***************************************************************************)
\* What write(2) takes first, and the rest (for Write_Sends below).
UvWrite_Direct(s, r, n) ==
    \/ /\ handle[s] = "closing"
       /\ request' = [request EXCEPT ![r] = "refused"] /\ left' = [left EXCEPT ![r] = n]
    \/ /\ handle[s] = "active"
       /\ \E k \in Chunks(s, n) :
            /\ request' = [request EXCEPT ![r] = IF k = n THEN "finished" ELSE "queued"]
            /\ left' = [left EXCEPT ![r] = n - k]

UvWrite(s, r, n) ==
    \/ /\ handle[s] = "closing"
       /\ request' = [request EXCEPT ![r] = "refused"] /\ left' = [left EXCEPT ![r] = n]
    \/ /\ handle[s] = "active" /\ Fails(s) /\ Waiting(s) = {}
       /\ request' = [request EXCEPT ![r] = "finished"] /\ left' = [left EXCEPT ![r] = n]
    \/ /\ handle[s] = "active"
       /\ \E k \in Chunks(s, n) :
            /\ k > 0 => Waiting(s) = {}
            /\ request' = [request EXCEPT ![r] = IF k = n THEN "finished" ELSE "queued"]
            /\ left' = [left EXCEPT ![r] = n - k]

WriteFault(s) ==
    IF s \in UdpSockets /\ handle[s] = "closing" THEN "write_after_close" ELSE PointerFault(handle, s)

\* WriteTCP or WriteUDP of n bytes; the value of uv_write is not looked at.
\* Mutant: the request is freed when uv_write has returned.
Write_Frees(s, n) ==
    /\ calls < MaxRequests /\ calls' = calls + 1
    /\ socket' = [socket EXCEPT ![calls'] = s]
    /\ length' = [length EXCEPT ![calls'] = n]
    /\ memory' = [memory EXCEPT ![calls'] = "freed"]
    /\ fault' = WriteFault(s)
    /\ IF fault' = "none" THEN UvWrite(s, calls', n)
       ELSE left' = [left EXCEPT ![calls'] = n] /\ UNCHANGED request
    /\ UNCHANGED <<handle, broken>>

\* Mutant: it calls write(2) itself first, and libuv for what is left.
Write_Sends(s, n) ==
    /\ calls < MaxRequests /\ calls' = calls + 1
    /\ socket' = [socket EXCEPT ![calls'] = s]
    /\ length' = [length EXCEPT ![calls'] = n]
    /\ memory' = [memory EXCEPT ![calls'] = "allocated"]
    /\ fault' = WriteFault(s)
    /\ IF fault' = "none" THEN UvWrite_Direct(s, calls', n)
       ELSE left' = [left EXCEPT ![calls'] = n] /\ UNCHANGED request
    /\ UNCHANGED <<handle, broken>>

Write(s, n) ==
    /\ calls < MaxRequests /\ calls' = calls + 1
    /\ socket' = [socket EXCEPT ![calls'] = s]
    /\ length' = [length EXCEPT ![calls'] = n]
    /\ memory' = [memory EXCEPT ![calls'] = "allocated"]
    /\ fault' = WriteFault(s)
    /\ IF fault' = "none" THEN UvWrite(s, calls', n)
       ELSE left' = [left EXCEPT ![calls'] = n] /\ UNCHANGED request
    /\ UNCHANGED <<handle, broken>>

\* Close, called by the module.
\* Mutant: it frees the handle, and the loop keeps it.
Close_Frees(s) ==
    /\ fault' = CloseFault(handle, s)
    /\ handle' = IF fault' = "none" THEN [handle EXCEPT ![s] = "dangling"] ELSE handle
    /\ UNCHANGED <<broken, call, memory, request, left>>

Close(s) ==
    /\ fault' = CloseFault(handle, s)
    /\ handle' = IF fault' = "none" THEN MarkClosing(handle, s) ELSE handle
    /\ UNCHANGED <<broken, call, memory, request, left>>

-----------------------------------------------------------------------------
(* The loop.                                                               *)

\* The kernel takes bytes of the first request that waits for s, or reports an
\* error: then the request is finished with what is left of it unsent.
Flush(s) ==
    /\ handle[s] = "active"
    /\ \E r \in Waiting(s) :
        /\ \A q \in Waiting(s) : r <= q
        /\ \/ \E k \in Chunks(s, left[r]) \ {0} :
                /\ left' = [left EXCEPT ![r] = @ - k]
                /\ request' = IF k = left[r] THEN [request EXCEPT ![r] = "finished"] ELSE request
           \/ Fails(s) /\ request' = [request EXCEPT ![r] = "finished"] /\ UNCHANGED left
    /\ UNCHANGED <<handle, broken, call, memory, fault>>

\* The peer resets the connection.
Breaks(s) ==
    /\ handle[s] = "active" /\ s \notin UdpSockets
    /\ broken' = broken \cup {s}
    /\ UNCHANGED <<handle, call, memory, request, left, fault>>

(***************************************************************************)
(* libuv_callback_when_*_write_finished for the requests in done: it frees *)
(* the request, whatever its status.                                       *)
(***************************************************************************)
\* Mutant: the callback frees the requests that were sent, and those only.
WriteFinished_Sent(done) ==
    /\ request' = [r \in Requests |-> IF r \in done THEN "done" ELSE request[r]]
    /\ memory' = [r \in Requests |-> IF r \in done /\ left[r] = 0 THEN "freed" ELSE memory[r]]

WriteFinished(done) ==
    /\ request' = [r \in Requests |-> IF r \in done THEN "done" ELSE request[r]]
    /\ memory' = [r \in Requests |-> IF r \in done THEN "freed" ELSE memory[r]]

RunCompleted(s) ==
    /\ handle[s] = "active" /\ Finished(s) # {}
    /\ WriteFinished(Finished(s))
    /\ UNCHANGED <<handle, broken, call, left, fault>>

\* The read callback learns of the broken connection and closes the handle.
ReadFails(s) ==
    /\ handle[s] = "active" /\ s \in broken
    /\ handle' = MarkClosing(handle, s)
    /\ UNCHANGED <<broken, call, memory, request, left, fault>>

\* The end of an iteration: libuv cancels and finishes what waits for the
\* closing handles, and calls their close callbacks.
EndIteration ==
    /\ IsClosing(handle)
    /\ WriteFinished(UNION {Waiting(s) \cup Finished(s) : s \in {c \in Sockets : handle[c] = "closing"}})
    /\ handle' = OnClose(handle)
    /\ UNCHANGED <<broken, call, left, fault>>

-----------------------------------------------------------------------------
Module(s) ==
    \/ \E n \in Lengths : Write(s, n)
    \/ Close(s)

Loop ==
    \/ EndIteration
    \/ \E s \in Sockets : RunCompleted(s) \/ ReadFails(s)

Next ==
    /\ fault = "none"
    /\ \/ Loop
       \/ \E s \in Sockets : Module(s) \/ Flush(s) \/ Breaks(s)

Spec == Init /\ [][Next]_vars

\* uv_run comes to each of its phases again and again; nothing is said of the
\* peer, which may never read.
FairSpec ==
    /\ Spec
    /\ WF_vars(fault = "none" /\ EndIteration)
    /\ \A s \in Sockets : WF_vars(fault = "none" /\ (RunCompleted(s) \/ ReadFails(s)))

-----------------------------------------------------------------------------
\* A request's memory is there for as long as libuv works with it and not
\* longer, and libuv is done with it before the socket is freed, whenever the
\* module closes it (TemplateSocket.cpp:62-105, 159-181); the requests that are
\* never freed are those that uv_write refused because their socket was closing.
RequestsOwned ==
    fault = "none" =>
        \A r \in Requests :
            /\ memory[r] = "allocated" <=> request[r] \in {"queued", "finished", "refused"}
            /\ memory[r] = "freed" <=> request[r] = "done"
            /\ request[r] \in {"queued", "finished"} => handle[socket[r]] \in {"active", "closing"}
            /\ request[r] = "refused" => handle[socket[r]] \in {"closing", "freed"}

\* What WriteTCP and WriteUDP promise (TemplateSocket.cpp:78-105, 171-181) although
\* neither they nor the callbacks look at a status: messages go in order, a
\* datagram whole or not at all, and no message for a connection is lost before
\* it is closed or its peer is gone; only the send of a datagram may fail alone.
\* A call that ends in a fault submits nothing.
Submitted(r) == request[r] # "none"
OpenSockets == {s \in Sockets : handle[s] = "active" /\ s \notin broken}
To == [r \in Requests |-> IF Submitted(r) THEN socket[r] ELSE NULL]
Rest == [r \in Requests |-> IF Submitted(r) THEN left[r] ELSE 0]
Fate == [r \in Requests |->
    IF ~Submitted(r) THEN "new" ELSE IF request[r] = "queued" THEN "waiting"
    ELSE IF left[r] = 0 THEN "sent" ELSE "lost"]

Service == INSTANCE DeliveryService WITH
    Streams <- Sockets \ UdpSockets, Messages <- Requests, Nowhere <- NULL,
    open <- OpenSockets, to <- To, rest <- Rest, fate <- Fate

DeliverySpec == Service!Spec

\* A request that libuv has finished, or that waits for a socket that is
\* closing or has lost its connection, is freed in the end, sent or not.
RequestsEnd ==
    \A r \in Requests :
        \/ request[r] = "finished"
        \/ request[r] = "queued" /\ (handle[socket[r]] = "closing" \/ socket[r] \in broken)
        ~> memory[r] = "freed" \/ fault # "none"

=============================================================================
