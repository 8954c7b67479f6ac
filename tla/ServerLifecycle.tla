--------------------------- MODULE ServerLifecycle ---------------------------
(***************************************************************************)
(* What a CThreadServer promises to the program that owns it, seen through *)
(* Start, Stop and IsRunning only: one server at a time; it opens a port   *)
(* while it starts, serves, and ends; IsRunning tells exactly whether it   *)
(* serves; and the owner may start the next one only when the last one has *)
(* ended and its port is closed.                                           *)
(***************************************************************************)
CONSTANT Servers

VARIABLES
    starting,   \* servers between Start and the loop
    serving,    \* servers in the loop
    open,       \* servers whose port is open
    recorded,   \* Stop has a server to wait for
    running     \* what IsRunning returns

lifecycle == <<starting, serving, open, recorded, running>>

Init ==
    /\ starting = {} /\ serving = {} /\ open = {}
    /\ recorded = FALSE /\ running = FALSE

Launch(s) ==
    /\ ~recorded /\ starting = {} /\ serving = {} /\ open = {}
    /\ starting' = {s}
    /\ recorded' = TRUE
    /\ UNCHANGED <<serving, open, running>>

Listen(s) ==
    /\ starting = {s} /\ open = {}
    /\ open' = {s}
    /\ UNCHANGED <<starting, serving, recorded, running>>

GiveUp(s) ==
    /\ starting = {s} /\ open = {}
    /\ starting' = {}
    /\ UNCHANGED <<serving, open, recorded, running>>

Serve(s) ==
    /\ starting = {s} /\ open = {s}
    /\ starting' = {} /\ serving' = {s}
    /\ running' = TRUE
    /\ UNCHANGED <<open, recorded>>

\* The port is closed by the owner, who waits for the server.
Shut ==
    /\ recorded /\ starting = {}
    /\ open # {} /\ open' = {}
    /\ UNCHANGED <<starting, serving, recorded, running>>

End(s) ==
    /\ serving = {s}
    /\ serving' = {}
    /\ running' = FALSE
    /\ UNCHANGED <<starting, open, recorded>>

Reap ==
    /\ recorded /\ starting = {} /\ serving = {} /\ open = {}
    /\ recorded' = FALSE
    /\ UNCHANGED <<starting, serving, open, running>>

Next ==
    \/ \E s \in Servers : Launch(s) \/ Listen(s) \/ GiveUp(s) \/ Serve(s) \/ End(s)
    \/ Shut
    \/ Reap

Spec == Init /\ [][Next]_lifecycle

=============================================================================
