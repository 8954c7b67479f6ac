--------------------------- MODULE DeliveryService ---------------------------
(***************************************************************************)
(* What WriteTCP and WriteUDP promise to a module: of the messages for one *)
(* socket the first that is not sent goes first, none for a stream is lost *)
(* as long as the stream is open, a datagram goes whole or not at all and  *)
(* may be lost when its turn comes, and nothing goes to a socket that is   *)
(* not open any more.  There are no requests, no memory and no callbacks   *)
(* here, and a socket closes in one step, whoever closes it.               *)
(***************************************************************************)
EXTENDS Naturals

CONSTANTS
    Sockets,
    Streams,       \* those that may take a part of a message
    Messages,      \* numbers, in the order in which they are submitted
    Lengths,
    Nowhere

VARIABLES
    open,          \* the sockets that still send
    to, rest,      \* of each message: its socket, and how much is not sent yet
    fate           \* new, waiting, sent or lost

delivery == <<open, to, rest, fate>>

Init ==
    /\ open = Sockets
    /\ to = [m \in Messages |-> Nowhere] /\ rest = [m \in Messages |-> 0]
    /\ fate = [m \in Messages |-> "new"]

Queue(s) == {m \in Messages : to[m] = s /\ fate[m] = "waiting"}

Remains(s, n) == IF s \in Streams THEN 0 .. n ELSE {0, n}

\* The next message is for s.  Some of it goes at once if no other is waiting.
Submit(m, s) ==
    /\ fate[m] = "new" /\ \A q \in Messages : q < m => fate[q] # "new"
    /\ to' = [to EXCEPT ![m] = s]
    /\ \E n \in Lengths : \E k \in Remains(s, n) :
        /\ k < n => s \in open /\ Queue(s) = {}
        /\ rest' = [rest EXCEPT ![m] = k]
        /\ \E f \in IF k = 0 THEN {"sent"} ELSE {"waiting", "lost"} :
            /\ f = "lost" /\ s \in open => s \notin Streams /\ Queue(s) = {}
            /\ fate' = [fate EXCEPT ![m] = f]
    /\ UNCHANGED open

\* More of the first message that waits.
Send(m) ==
    /\ fate[m] = "waiting" /\ to[m] \in open
    /\ \A q \in Queue(to[m]) : m <= q
    /\ \E k \in Remains(to[m], rest[m]) :
        /\ k < rest[m]
        /\ rest' = [rest EXCEPT ![m] = k]
        /\ fate' = [fate EXCEPT ![m] = IF k = 0 THEN "sent" ELSE "waiting"]
    /\ UNCHANGED <<open, to>>

\* The first datagram that waits is lost.
Drop(m) ==
    /\ fate[m] = "waiting" /\ to[m] \in open \ Streams
    /\ \A q \in Queue(to[m]) : m <= q
    /\ fate' = [fate EXCEPT ![m] = "lost"]
    /\ UNCHANGED <<open, to, rest>>

Shut(s) == open' = open \ {s} /\ UNCHANGED <<to, rest, fate>>

\* Messages that wait for a socket that is not open are given up.
Lose(given) ==
    /\ \A m \in given : fate[m] = "waiting" /\ to[m] \notin open
    /\ fate' = [m \in Messages |-> IF m \in given THEN "lost" ELSE fate[m]]
    /\ UNCHANGED <<open, to, rest>>

Next ==
    \/ \E m \in Messages : Send(m) \/ Drop(m) \/ \E s \in Sockets : Submit(m, s)
    \/ \E s \in Sockets : Shut(s)
    \/ \E given \in SUBSET Messages : Lose(given)

Spec == Init /\ [][Next]_delivery

=============================================================================
