-------------------------- MODULE SharedConnection ---------------------------
(***************************************************************************)
(* What a CDatabase promises to the threads that share it, as long as all  *)
(* of them keep the rules: a query that the server has taken keeps the     *)
(* connection to itself until it has its answer, which is its own rows, or *)
(* nothing if the connection was lost meanwhile; a query that comes in     *)
(* between gets no rows and changes nothing; and the database is neither   *)
(* replaced nor taken away under a query.  There are no objects, no        *)
(* results that wait to be read and no libraries here.                     *)
(***************************************************************************)
CONSTANTS Users, NoUser

VARIABLES
    connection,    \* absent, live or lost
    asking,        \* the users between the two steps of a query
    rows           \* whose rows each user got last

shared == <<connection, asking, rows>>

Init ==
    /\ connection = "absent"
    /\ asking = {}
    /\ rows = [t \in Users |-> NoUser]

Gets(t, whose) == rows' = [rows EXCEPT ![t] = whose]

\* The object is there before it is connected.
Connect ==
    /\ asking = {}
    /\ \/ connection = "absent" /\ connection' \in {"live", "lost"}
       \/ connection = "lost" /\ connection' = "live"
    /\ UNCHANGED <<asking, rows>>

Lose == connection = "live" /\ connection' = "lost" /\ UNCHANGED <<asking, rows>>

Disconnect == asking = {} /\ connection' = "absent" /\ UNCHANGED <<asking, rows>>

\* A query begins without rows, and ends so when it is refused.
Begin(t) ==
    /\ connection # "absent"
    /\ t \notin asking /\ Gets(t, NoUser)
    /\ UNCHANGED <<connection, asking>>

\* A query in two steps has the connection to itself.
Ask(t) ==
    /\ connection = "live"
    /\ asking = {} /\ asking' = {t}
    /\ UNCHANGED <<connection, rows>>

Answer(t) ==
    /\ asking = {t} /\ asking' = {}
    /\ Gets(t, IF connection = "live" THEN t ELSE NoUser)
    /\ UNCHANGED connection

\* A query in one step.
Query(t) ==
    /\ connection = "live"
    /\ asking = {} /\ Gets(t, t)
    /\ UNCHANGED <<connection, asking>>

Next ==
    \/ Connect \/ Lose \/ Disconnect
    \/ \E t \in Users : Begin(t) \/ Ask(t) \/ Answer(t) \/ Query(t)

Spec == Init /\ [][Next]_shared

=============================================================================
