------------------------ MODULE TemplateServerProofs ------------------------
(***************************************************************************)
(* Proofs about TemplateServer, for any set of clients and any buffer.     *)
(***************************************************************************)
EXTENDS TemplateServer, TLAPS

\* Where the code is safe: connections that are accepted, and reads that
\* leave room for the zero byte.
GentleNetwork == ~AcceptFails /\ \A n \in ReadSizes : n < BufferSize

\* Every handle that libuv still knows has its data.
DataOfRegistered ==
    \A h \in Handles : handle[h] \in {"idle", "active", "closing"} => data[h] = "CClientData"

\* What a module may close exists.
HeldExist ==
    /\ \A h \in held \cup {Server} : handle[h] # "none"
    /\ callback # "none" => current \in held

(***************************************************************************)
(* The inductive invariant of a disciplined module: what state the handle  *)
(* of the running callback is in, and that only that handle is idle.       *)
(***************************************************************************)
CurrentHandle ==
    CASE callback = "none"               -> current = NULL
      [] callback = "OnTCPNewConnection" -> /\ current \in Clients \cap accepted
                                            /\ handle[current] = "idle"
      [] callback = "OnTCPRead"          -> /\ current \in Clients
                                            /\ handle[current] \in {"active", "closing"}
      [] callback = "OnUDPRead"          -> /\ current = Server
                                            /\ handle[current] \in {"active", "closing"}

OnlyCurrentIdle == \A c \in Clients :
    handle[c] = "idle" => callback = "OnTCPNewConnection" /\ current = c

DisciplinedInv == NoFault /\ CurrentHandle /\ OnlyCurrentIdle

-----------------------------------------------------------------------------
USE DEF NULL

\* Closing a handle keeps the table a table and raises only known faults.
LEMMA ClosesTypes ==
    ASSUME TypeOK, NEW p \in Handles, Closes(p)
    PROVE  fault' \in Faults /\ handle' \in [Handles -> HandleStates \ {"dangling"}]
BY DEF TypeOK, Closes, CloseFault, PointerFault, MarkClosing, Faults, HandleStates

LEMMA EndIterationTypes ==
    ASSUME TypeOK, EndIteration
    PROVE  /\ handle' \in [Handles -> HandleStates \ {"dangling"}]
           /\ data' \in [Handles -> {"unset", "CClientData", "null"}]
BY DEF TypeOK, EndIteration, OnClose, HandleStates

LEMMA TypeStep == TypeOK /\ [Next]_vars => TypeOK'
<1> SUFFICES ASSUME TypeOK, [Next]_vars PROVE TypeOK'
  OBVIOUS
<1> USE DEF TypeOK, Handles
<1>1. CASE UNCHANGED vars
  BY <1>1 DEF vars
<1>2. ASSUME NEW c \in Clients, NewConnection(c)
      PROVE  TypeOK'
  <2>1. handle' \in [Handles -> HandleStates \ {"dangling"}] /\ data' \in [Handles -> {"unset", "CClientData", "null"}]
    BY <1>2 DEF NewConnection, HandleStates
  <2> QED
    BY <1>2, <2>1 DEF NewConnection, Calls, Callbacks
<1>3. ASSUME NEW c \in Clients, TcpReadFails(c)
      PROVE  TypeOK'
  BY <1>3, ClosesTypes DEF TcpReadFails
<1>4. ASSUME NEW c \in Clients, TcpRead(c)
      PROVE  TypeOK'
  BY <1>4 DEF TcpRead, Calls, Callbacks, Faults
<1>5. CASE UdpRead
  BY <1>5 DEF UdpRead, Calls, Callbacks
<1>6. CASE NewConnectionReturns /\ current \in Handles
  <2>1. fault' \in Faults /\ handle' \in [Handles -> HandleStates \ {"dangling"}]
    BY <1>6, ClosesTypes DEF NewConnectionReturns, NewConnectionRefused, ReadStart, HandleStates
  <2> QED
    BY <1>6, <2>1 DEF NewConnectionReturns, Callbacks
<1>7. CASE ReadReturns
  BY <1>7 DEF ReadReturns, Callbacks
<1>8. CASE StopServer
  BY <1>8, ClosesTypes DEF StopServer
<1>9. ASSUME NEW s \in held, Close(s)
      PROVE  TypeOK'
  BY <1>9, ClosesTypes DEF Close
<1>10. ASSUME NEW s \in held, Use(s)
       PROVE  TypeOK'
  BY <1>10 DEF Use, PointerFault, Faults
<1>11. CASE EndIteration
  BY <1>11, EndIterationTypes DEF EndIteration
<1>12. CASE NewConnectionReturns /\ current = NULL
  <2>1. fault' \in Faults /\ handle' \in [Handles -> HandleStates \ {"dangling"}]
    BY <1>12, HandleAssumption
       DEF NewConnectionReturns, NewConnectionRefused, ReadStart, Closes, CloseFault, PointerFault, Faults, HandleStates
  <2> QED
    BY <1>12, <2>1 DEF NewConnectionReturns, Callbacks
<1> QED
  BY <1>1, <1>2, <1>3, <1>4, <1>5, <1>6, <1>7, <1>8, <1>9, <1>10, <1>11, <1>12
     DEF Next, LibuvCallback, CallbackReturns, AnyCall

\* TypeOK is an invariant of every module.
THEOREM ServerTypeCorrect == Spec => []TypeOK
<1>1. Init => TypeOK
  BY DEF Init, TypeOK, HandleStates, Callbacks, Faults, Handles
<1> QED
  BY <1>1, TypeStep, PTL DEF Spec
-----------------------------------------------------------------------------
(***************************************************************************)
(* DataWhileAlive, for every module: the data of a handle is set before    *)
(* the module hears of it, and cleared only when the handle is freed.      *)
(***************************************************************************)
LEMMA ClosesData ==
    ASSUME TypeOK, DataOfRegistered, NEW p \in Handles, handle[p] # "none", Closes(p), UNCHANGED data
    PROVE  /\ DataOfRegistered'
           /\ \A h \in Handles : handle[h] # "none" => handle'[h] # "none"
<1> USE DEF DataOfRegistered, TypeOK
<1>1. CASE fault' # "none"
  BY <1>1 DEF Closes
<1>2. CASE fault' = "none"
  <2>1. handle[p] \in {"idle", "active"} /\ handle' = [handle EXCEPT ![p] = "closing"]
    BY <1>2, HandleAssumption
       DEF Closes, CloseFault, PointerFault, MarkClosing, HandleStates, Handles
  <2> QED
    BY <2>1
<1> QED
  BY <1>1, <1>2

LEMMA DataStep ==
    ASSUME TypeOK, DataOfRegistered, HeldExist, [Next]_vars
    PROVE  DataOfRegistered' /\ HeldExist'
<1>0. held \subseteq Handles /\ Clients \subseteq Handles /\ Server \in Handles
  BY DEF TypeOK, Handles
<1>1. ASSUME NEW c \in Clients, NewConnection(c)
      PROVE  DataOfRegistered' /\ HeldExist'
  <2>1. data' = [data EXCEPT ![c] = "CClientData"]
    BY <1>0, <1>1 DEF NewConnection, DataOfRegistered
  <2>2. \A h \in Handles : h # c => handle'[h] = handle[h]
    BY <1>1 DEF NewConnection, TypeOK
  <2>3. handle'[c] # "none" /\ held' = held \cup {c} /\ current' = c
    BY <1>0, <1>1 DEF NewConnection, TypeOK, Calls
  <2>4. DataOfRegistered'
    BY <2>1, <2>2 DEF DataOfRegistered, TypeOK
  <2>5. HeldExist'
    BY <1>0, <2>2, <2>3 DEF HeldExist
  <2> QED
    BY <2>4, <2>5
<1>2. CASE EndIteration
  <2>1. DataOfRegistered'
    BY <1>2 DEF EndIteration, OnClose, DataOfRegistered, TypeOK
  <2>2. HeldExist'
    BY <1>0, <1>2 DEF EndIteration, OnClose, HeldExist, TypeOK, Dispatching
  <2> QED
    BY <2>1, <2>2
<1>3. ASSUME NEW p \in Handles, handle[p] # "none", Closes(p), UNCHANGED <<data, held>>,
             callback' = "none" \/ UNCHANGED <<callback, current>>
      PROVE  DataOfRegistered' /\ HeldExist'
  BY <1>0, <1>3, ClosesData DEF HeldExist
<1>4. ASSUME NEW c \in Clients, TcpReadFails(c)
      PROVE  DataOfRegistered' /\ HeldExist'
  <2>1. handle[c] # "none" /\ Closes(c) /\ UNCHANGED <<data, held, callback, current>>
    BY <1>4 DEF TcpReadFails
  <2> QED
    BY <1>0, <1>3, <2>1
<1>5. CASE UNCHANGED <<handle, data>> /\ (ReadReturns \/ UdpRead \/ \E c \in Clients : TcpRead(c))
  BY <1>0, <1>5 DEF DataOfRegistered, HeldExist, ReadReturns, UdpRead, TcpRead, Calls
<1>6. CASE NewConnectionReturns
  <2>1. current \in held /\ callback' = "none" /\ UNCHANGED <<data, held>>
    BY <1>6 DEF NewConnectionReturns, HeldExist
  <2>2. CASE Closes(current)
    BY <1>0, <1>3, <2>1, <2>2 DEF HeldExist
  <2>3. CASE handle[current] = "idle" /\ handle' = [handle EXCEPT ![current] = "active"]
    BY <1>0, <2>1, <2>3 DEF DataOfRegistered, HeldExist, TypeOK
  <2> QED
    BY <1>6, <2>2, <2>3 DEF NewConnectionReturns, NewConnectionRefused, ReadStart
<1>7. CASE StopServer
  BY <1>0, <1>3, <1>7 DEF StopServer, HeldExist
<1>8. ASSUME NEW s \in held, Close(s)
      PROVE  DataOfRegistered' /\ HeldExist'
  BY <1>0, <1>3, <1>8 DEF Close, HeldExist
<1>9. ASSUME NEW s \in held, Use(s)
      PROVE  DataOfRegistered' /\ HeldExist'
  BY <1>9 DEF Use, DataOfRegistered, HeldExist
<1>10. CASE UNCHANGED vars
  BY <1>10 DEF vars, DataOfRegistered, HeldExist
<1>11. ReadReturns \/ UdpRead \/ (\E c \in Clients : TcpRead(c)) => UNCHANGED <<handle, data>>
  BY DEF ReadReturns, UdpRead, TcpRead
<1> QED
  BY <1>1, <1>2, <1>4, <1>5, <1>6, <1>7, <1>8, <1>9, <1>10, <1>11
     DEF Next, LibuvCallback, CallbackReturns, AnyCall

\* GetSocketExtraData never gives a null pointer for a socket that may be used.
THEOREM DataCorrect == Spec => []DataWhileAlive
<1>1. Init => DataOfRegistered /\ HeldExist
  BY DEF Init, DataOfRegistered, HeldExist, Handles
<1>2. TypeOK /\ DataOfRegistered => DataWhileAlive
  BY DEF TypeOK, DataOfRegistered, DataWhileAlive
<1> QED
  BY <1>1, <1>2, DataStep, ServerTypeCorrect, PTL DEF Spec

-----------------------------------------------------------------------------
(***************************************************************************)
(* ReturnsClean, for every module: the loop is left only at the end of an  *)
(* iteration, after the close callbacks, and nothing runs after that.      *)
(***************************************************************************)
Left == loop = "returned" => callback = "none" /\ ~IsClosing(handle)

LEMMA LeftStep ==
    ASSUME TypeOK, Left, [Next]_vars
    PROVE  Left'
<1> USE DEF Left
<1>1. CASE loop = "running" /\ UNCHANGED loop
  BY <1>1
<1>2. CASE EndIteration
  <2>1. ~IsClosing(handle')
    BY <1>2 DEF EndIteration, OnClose, IsClosing, TypeOK
  <2> QED
    BY <1>2, <2>1 DEF EndIteration, Dispatching
<1>3. CASE UNCHANGED vars
  BY <1>3 DEF vars
<1>4. callback # "none" => loop = "running"
  BY DEF TypeOK
<1>5. LibuvCallback => loop = "running" /\ UNCHANGED loop
  BY DEF LibuvCallback, NewConnection, TcpReadFails, TcpRead, UdpRead, Dispatching
<1>6. CallbackReturns => loop = "running" /\ UNCHANGED loop
  BY <1>4 DEF CallbackReturns, NewConnectionReturns, ReadReturns
<1>7. AnyCall => loop = "running" /\ UNCHANGED loop
  BY <1>4 DEF AnyCall, StopServer, Close, Use
<1> QED
  BY <1>1, <1>2, <1>3, <1>5, <1>6, <1>7 DEF Next

\* StartServer returns with every handle that was closed freed.
THEOREM ReturnsCleanCorrect == Spec => []ReturnsClean
<1>1. Init => Left
  BY DEF Init, Left
<1>2. Left => ReturnsClean
  BY DEF Left, ReturnsClean
<1> QED
  BY <1>1, <1>2, LeftStep, ServerTypeCorrect, PTL DEF Spec

-----------------------------------------------------------------------------
(***************************************************************************)
(* The disciplined module.                                                 *)
(***************************************************************************)
LEMMA DisciplinedIsNext ==
    ASSUME HeldExist PROVE [DisciplinedNext]_vars => [Next]_vars
BY DEF DisciplinedNext, DisciplinedCall, Next, AnyCall, HeldExist, Close, Use

\* A handle that is idle or active can be closed without fault.
LEMMA ClosesOpen ==
    ASSUME TypeOK, NoFault, NEW p \in Handles, handle[p] \in {"idle", "active"}, Closes(p)
    PROVE  NoFault' /\ handle' = [handle EXCEPT ![p] = "closing"]
BY HandleAssumption DEF NoFault, Handles, Closes, CloseFault, PointerFault, MarkClosing

LEMMA DisciplinedStep ==
    ASSUME GentleNetwork, TypeOK, HeldExist, DisciplinedInv, [DisciplinedNext]_vars
    PROVE  DisciplinedInv'
<1> USE DEF DisciplinedInv, TypeOK
<1>0. Clients \subseteq Handles /\ Server \in Handles /\ Server \notin Clients
      /\ NULL \notin Clients /\ Server # NULL
  BY HandleAssumption DEF Handles
<1>1. ASSUME NEW c \in Clients, NewConnection(c)
      PROVE  DisciplinedInv'
  <2>1. /\ handle' = [handle EXCEPT ![c] = "idle"] /\ accepted' = accepted \cup {c}
        /\ callback = "none" /\ callback' = "OnTCPNewConnection" /\ current' = c /\ fault' = fault
    BY <1>1 DEF NewConnection, Dispatching, Calls, GentleNetwork
  <2>2. CurrentHandle'
    BY <1>0, <2>1 DEF CurrentHandle
  <2>3. OnlyCurrentIdle'
    BY <1>0, <2>1 DEF OnlyCurrentIdle
  <2> QED
    BY <2>1, <2>2, <2>3 DEF NoFault
<1>2. ASSUME NEW c \in Clients, TcpReadFails(c)
      PROVE  DisciplinedInv'
  <2>1. /\ NoFault' /\ handle' = [handle EXCEPT ![c] = "closing"]
        /\ callback = "none" /\ UNCHANGED <<callback, current, accepted>>
    BY <1>0, <1>2, ClosesOpen DEF TcpReadFails, Dispatching
  <2> QED
    BY <1>0, <2>1 DEF CurrentHandle, OnlyCurrentIdle
<1>3. ASSUME NEW c \in Clients, TcpRead(c)
      PROVE  DisciplinedInv'
  <2>1. \A n \in ReadSizes : ~(n >= BufferSize)
    BY ReadAssumption DEF GentleNetwork
  <2>2. /\ fault' = fault /\ callback = "none" /\ callback' = "OnTCPRead" /\ current' = c
        /\ handle[c] = "active" /\ handle' = handle
    BY <1>3, <2>1 DEF TcpRead, Dispatching, Calls
  <2> QED
    BY <1>0, <2>2 DEF NoFault, CurrentHandle, OnlyCurrentIdle
<1>4. CASE UdpRead
  <2>1. /\ fault' = fault /\ callback = "none" /\ callback' = "OnUDPRead" /\ current' = Server
        /\ handle[Server] = "active" /\ handle' = handle
    BY <1>4 DEF UdpRead, Dispatching, Calls
  <2> QED
    BY <1>0, <2>1 DEF NoFault, CurrentHandle, OnlyCurrentIdle
<1>5. CASE NewConnectionReturns
  <2>1. current \in Clients /\ handle[current] = "idle" /\ callback' = "none" /\ current' = NULL
    BY <1>5 DEF NewConnectionReturns, CurrentHandle
  <2>2. \A c \in Clients : handle[c] = "idle" => c = current
    BY DEF OnlyCurrentIdle
  <2>3. \E ht \in {"active", "closing"} : NoFault' /\ handle' = [handle EXCEPT ![current] = ht]
    BY <1>0, <1>5, <2>1, ClosesOpen DEF NewConnectionReturns, NewConnectionRefused, ReadStart, NoFault
  <2> QED
    BY <1>0, <2>1, <2>2, <2>3 DEF CurrentHandle, OnlyCurrentIdle
<1>6. CASE ReadReturns
  BY <1>6 DEF ReadReturns, NoFault, CurrentHandle, OnlyCurrentIdle
<1>7. CASE handle[Server] = "active" /\ StopServer
  <2>1. /\ NoFault' /\ handle' = [handle EXCEPT ![Server] = "closing"]
        /\ callback # "none" /\ UNCHANGED <<callback, current, accepted>>
    BY <1>0, <1>7, ClosesOpen DEF StopServer
  <2> QED
    BY <1>0, <2>1 DEF CurrentHandle, OnlyCurrentIdle, Callbacks
<1>8. CASE callback = "OnTCPRead" /\ handle[current] = "active" /\ Close(current)
  <2>1. current \in Clients
    BY <1>8 DEF CurrentHandle
  <2>2. NoFault' /\ handle' = [handle EXCEPT ![current] = "closing"] /\ UNCHANGED <<callback, current, accepted>>
    BY <1>0, <1>8, <2>1, ClosesOpen DEF Close
  <2> QED
    BY <1>0, <1>8, <2>1, <2>2 DEF CurrentHandle, OnlyCurrentIdle
<1>9. CASE current # NULL /\ Use(current)
  <2>1. handle[current] \in {"idle", "active", "closing"}
    BY <1>9 DEF CurrentHandle, Use, Callbacks
  <2> QED
    BY <1>9, <2>1 DEF Use, PointerFault, NoFault, CurrentHandle, OnlyCurrentIdle
<1>10. CASE EndIteration
  <2>1. callback = "none" /\ UNCHANGED <<callback, current, accepted, fault>>
    BY <1>10 DEF EndIteration, Dispatching
  <2>2. \A h \in Handles : handle'[h] = "idle" => handle[h] = "idle"
    BY <1>10 DEF EndIteration, OnClose
  <2> QED
    BY <1>0, <2>1, <2>2 DEF NoFault, CurrentHandle, OnlyCurrentIdle
<1>11. CASE UNCHANGED vars
  BY <1>11 DEF vars, NoFault, CurrentHandle, OnlyCurrentIdle
<1> QED
  BY <1>1, <1>2, <1>3, <1>4, <1>5, <1>6, <1>7, <1>8, <1>9, <1>10, <1>11
     DEF DisciplinedNext, LibuvCallback, CallbackReturns, DisciplinedCall

LEMMA DisciplinedInvariant ==
    GentleNetwork /\ DisciplinedSpec => [](TypeOK /\ DataOfRegistered /\ HeldExist /\ DisciplinedInv)
<1> DEFINE Inv == TypeOK /\ DataOfRegistered /\ HeldExist /\ DisciplinedInv
<1>1. Init => Inv
  BY HandleAssumption
     DEF Init, TypeOK, HandleStates, Callbacks, Faults, Handles, DataOfRegistered, HeldExist,
     DisciplinedInv, NoFault, CurrentHandle, OnlyCurrentIdle
<1>2. GentleNetwork /\ Inv /\ [DisciplinedNext]_vars => Inv'
  BY DisciplinedIsNext, TypeStep, DataStep, DisciplinedStep
<1>3. CASE GentleNetwork
  BY <1>1, <1>2, <1>3, PTL DEF DisciplinedSpec
<1> QED
  BY <1>3

\* With accepted connections and reads that leave room for the zero byte, a
\* disciplined module meets no fault.
THEOREM DisciplinedNoFault == GentleNetwork /\ DisciplinedSpec => []NoFault
<1>1. DisciplinedInv => NoFault
  BY DEF DisciplinedInv
<1> QED
  BY <1>1, DisciplinedInvariant, PTL

\* and hears only of connections that uv_accept gave.
THEOREM DisciplinedHears == GentleNetwork /\ DisciplinedSpec => []HearsOfAccepted
<1>1. DisciplinedInv => HearsOfAccepted
  BY DEF DisciplinedInv, CurrentHandle, HearsOfAccepted
<1> QED
  BY <1>1, DisciplinedInvariant, PTL

-----------------------------------------------------------------------------
(***************************************************************************)
(* A disciplined module gets the service that ConnectionService describes. *)
(***************************************************************************)
ClientMap == [c \in Clients |-> ClientIs(c)]
CalledNow == IF callback \in {"OnTCPNewConnection", "OnTCPRead"} THEN current ELSE NULL

\* How a change of one handle shows in the mapped state.
LEMMA MovedClient ==
    ASSUME TypeOK, NEW c \in Clients, NEW ht \in HandleStates, handle' = [handle EXCEPT ![c] = ht]
    PROVE  ClientMap' = [ClientMap EXCEPT ![c] = IF ht = "none" THEN "new" ELSE IF ht = "idle" THEN "offered"
                                                 ELSE IF ht = "active" THEN "taken" ELSE "gone"]
<1>1. handle'[c] = ht /\ \A d \in Clients : d # c => handle'[d] = handle[d]
  BY DEF TypeOK, Handles
<1>2. ClientIs(c)' = IF ht = "none" THEN "new" ELSE IF ht = "idle" THEN "offered"
                     ELSE IF ht = "active" THEN "taken" ELSE "gone"
  BY <1>1 DEF ClientIs
<1>3. \A d \in Clients : d # c => ClientIs(d)' = ClientIs(d)
  BY <1>1 DEF ClientIs
<1> QED
  BY <1>2, <1>3 DEF ClientMap

LEMMA SameClients ==
    ASSUME \A c \in Clients : handle'[c] = handle[c] \/ {handle[c], handle'[c]} \subseteq {"closing", "freed"}
    PROVE  UNCHANGED ClientMap
BY DEF ClientMap, ClientIs

LEMMA PromiseStep ==
    ASSUME GentleNetwork, TypeOK, DisciplinedInv, DisciplinedInv', [DisciplinedNext]_vars
    PROVE  Promise!Next \/ UNCHANGED Promise!service
<1> USE DEF DisciplinedInv
<1>0. Clients \subseteq Handles /\ Server \in Handles /\ Server \notin Clients
      /\ NULL \notin Clients /\ Server # NULL
  BY HandleAssumption DEF Handles
<1>a. ASSUME UNCHANGED ClientMap, UNCHANGED CalledNow
      PROVE  UNCHANGED Promise!service
  BY <1>a DEF Promise!service, ClientMap, CalledNow
<1>1. ASSUME NEW c \in Clients, NewConnection(c)
      PROVE  Promise!Next
  <2>1. ClientMap[c] = "new" /\ CalledNow = NULL /\ CalledNow' = c
    BY <1>1 DEF NewConnection, Dispatching, Calls, ClientMap, ClientIs, CalledNow
  <2>2. ClientMap' = [ClientMap EXCEPT ![c] = "offered"]
    BY <1>1, MovedClient DEF NewConnection, GentleNetwork, HandleStates
  <2>3. Promise!Offer(c)
    BY <2>1, <2>2 DEF Promise!Offer, Promise!ClientGoes, ClientMap, CalledNow
  <2> QED
    BY <2>3 DEF Promise!Next
<1>2. ASSUME NEW c \in Clients, TcpReadFails(c)
      PROVE  Promise!Next
  <2>1. handle' = [handle EXCEPT ![c] = "closing"] /\ handle[c] = "active" /\ callback = "none"
        /\ UNCHANGED <<callback, current>>
    BY <1>0, <1>2, ClosesOpen DEF TcpReadFails, Dispatching
  <2>2. ClientMap' = [ClientMap EXCEPT ![c] = "gone"]
    BY <2>1, MovedClient DEF HandleStates
  <2>3. ClientMap[c] = "taken" /\ CalledNow = NULL /\ CalledNow' = NULL
    BY <2>1 DEF ClientMap, ClientIs, CalledNow
  <2>4. Promise!Leave(c)
    BY <2>2, <2>3 DEF Promise!Leave, Promise!ClientGoes, ClientMap, CalledNow
  <2> QED
    BY <2>4 DEF Promise!Next
<1>3. ASSUME NEW c \in Clients, TcpRead(c)
      PROVE  Promise!Next
  <2>1. ClientMap[c] = "taken" /\ CalledNow = NULL /\ CalledNow' = c
    BY <1>3 DEF TcpRead, Dispatching, Calls, ClientMap, ClientIs, CalledNow
  <2>2. UNCHANGED ClientMap
    BY <1>3, SameClients DEF TcpRead
  <2>3. Promise!Deliver(c)
    BY <2>1, <2>2 DEF Promise!Deliver, ClientMap, CalledNow
  <2> QED
    BY <2>3 DEF Promise!Next
<1>4. CASE UdpRead
  <2>1. UNCHANGED ClientMap
    BY <1>4, SameClients DEF UdpRead
  <2>2. UNCHANGED CalledNow
    BY <1>4 DEF UdpRead, Dispatching, Calls, CalledNow
  <2> QED
    BY <1>a, <2>1, <2>2
<1>5. CASE NewConnectionReturns
  <2>1. PICK c \in Clients : c = current
    BY <1>5 DEF NewConnectionReturns, CurrentHandle
  <2>2. callback = "OnTCPNewConnection" /\ handle[c] = "idle" /\ callback' = "none"
    BY <1>5, <2>1 DEF NewConnectionReturns, CurrentHandle
  <2>3. \E ht \in {"active", "closing"} : handle' = [handle EXCEPT ![c] = ht]
    BY <1>0, <1>5, <2>1, <2>2, ClosesOpen DEF NewConnectionReturns, NewConnectionRefused, ReadStart
  <2>4. \E k \in {"taken", "gone"} : ClientMap' = [ClientMap EXCEPT ![c] = k]
    BY <2>3, MovedClient DEF HandleStates
  <2>5. ClientMap[c] = "offered" /\ CalledNow = c /\ CalledNow' = NULL
    BY <2>1, <2>2 DEF ClientMap, ClientIs, CalledNow
  <2>6. Promise!Answer(c)
    BY <2>4, <2>5 DEF Promise!Answer, Promise!ClientGoes, ClientMap, CalledNow
  <2> QED
    BY <2>6 DEF Promise!Next
<1>6. CASE ReadReturns
  <2>1. UNCHANGED ClientMap /\ CalledNow' = NULL
    BY <1>6, SameClients DEF ReadReturns, CalledNow
  <2>2. CASE callback = "OnUDPRead"
    BY <1>a, <2>1, <2>2 DEF CalledNow
  <2>3. CASE callback = "OnTCPRead"
    <3>1. CalledNow \in Clients /\ ClientMap[CalledNow] # "offered"
      BY <2>3 DEF CalledNow, CurrentHandle, ClientMap, ClientIs
    <3>2. Promise!Delivered
      BY <1>0, <2>1, <3>1 DEF Promise!Delivered, ClientMap, CalledNow
    <3> QED
      BY <3>2 DEF Promise!Next
  <2> QED
    BY <1>6, <2>2, <2>3 DEF ReadReturns
<1>7. CASE handle[Server] = "active" /\ StopServer
  <2>1. UNCHANGED ClientMap
    BY <1>0, <1>7, ClosesOpen, SameClients DEF StopServer, TypeOK
  <2> QED
    BY <1>7, <1>a, <2>1 DEF StopServer, CalledNow
<1>8. CASE callback = "OnTCPRead" /\ handle[current] = "active" /\ Close(current)
  <2>1. PICK c \in Clients : c = current
    BY <1>8 DEF CurrentHandle
  <2>2. handle' = [handle EXCEPT ![c] = "closing"]
    BY <1>0, <1>8, <2>1, ClosesOpen DEF Close
  <2>3. ClientMap' = [ClientMap EXCEPT ![c] = "gone"]
    BY <2>2, MovedClient DEF HandleStates
  <2>4. ClientMap[c] = "taken" /\ CalledNow = c /\ CalledNow' = c
    BY <1>8, <2>1 DEF ClientMap, ClientIs, CalledNow, Close
  <2>5. Promise!HangUp(c)
    BY <2>3, <2>4 DEF Promise!HangUp, Promise!ClientGoes, ClientMap, CalledNow
  <2> QED
    BY <2>5 DEF Promise!Next
<1>9. CASE Use(current) \/ UNCHANGED vars
  <2>1. UNCHANGED ClientMap
    BY <1>9, SameClients DEF Use, vars
  <2> QED
    BY <1>9, <1>a, <2>1 DEF Use, vars, CalledNow
<1>10. CASE EndIteration
  <2>1. UNCHANGED ClientMap
    BY <1>0, <1>10, SameClients DEF EndIteration, OnClose, TypeOK
  <2> QED
    BY <1>10, <1>a, <2>1 DEF EndIteration, CalledNow
<1> QED
  BY <1>1, <1>2, <1>3, <1>4, <1>5, <1>6, <1>7, <1>8, <1>9, <1>10
     DEF DisciplinedNext, LibuvCallback, CallbackReturns, DisciplinedCall

\* Every step of the callbacks is a step of ConnectionService or leaves its
\* state alone.
THEOREM DisciplinedPromise == GentleNetwork /\ DisciplinedSpec => PromiseSpec
<1>1. Init => Promise!Init
  BY HandleAssumption DEF Init, Promise!Init, ClientIs, Handles
<1>2. GentleNetwork /\ TypeOK /\ DisciplinedInv /\ DisciplinedInv' /\ [DisciplinedNext]_vars
      => [Promise!Next]_Promise!service
  BY PromiseStep
<1>3. CASE GentleNetwork
  BY <1>1, <1>2, <1>3, DisciplinedInvariant, PTL DEF DisciplinedSpec, PromiseSpec, Promise!Spec
<1> QED
  BY <1>3

=============================================================================
