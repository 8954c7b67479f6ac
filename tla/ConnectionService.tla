-------------------------- MODULE ConnectionService --------------------------
(***************************************************************************)
(* What CTemplateServer promises to a module that derives from it: a       *)
(* client is offered once, to OnTCPNewConnection; OnTCPRead hears only of  *)
(* clients that the module took, until the client or the module hangs up;  *)
(* and the module is called for one client at a time.                      *)
(***************************************************************************)
CONSTANTS Clients, Nobody

VARIABLES
    client,    \* new, offered, taken or gone, for each client
    called     \* the client the module is being called for

service == <<client, called>>

Init == client = [c \in Clients |-> "new"] /\ called = Nobody

ClientGoes(c, from, to) == client[c] = from /\ client' = [client EXCEPT ![c] = to]

Offer(c) == called = Nobody /\ ClientGoes(c, "new", "offered") /\ called' = c

Answer(c) ==
    /\ called = c /\ called' = Nobody
    /\ ClientGoes(c, "offered", "taken") \/ ClientGoes(c, "offered", "gone")

Deliver(c) == called = Nobody /\ client[c] = "taken" /\ called' = c /\ UNCHANGED client

\* The module hangs up on the client it is called for.
HangUp(c) == called = c /\ ClientGoes(c, "taken", "gone") /\ UNCHANGED called

Delivered == called # Nobody /\ client[called] # "offered" /\ called' = Nobody /\ UNCHANGED client

\* The client hangs up, between two calls of the module.
Leave(c) == called = Nobody /\ ClientGoes(c, "taken", "gone") /\ UNCHANGED called

Next ==
    \/ \E c \in Clients : Offer(c) \/ Answer(c) \/ Deliver(c) \/ HangUp(c) \/ Leave(c)
    \/ Delivered

Spec == Init /\ [][Next]_service

=============================================================================
