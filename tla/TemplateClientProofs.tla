------------------------ MODULE TemplateClientProofs ------------------------
(***************************************************************************)
(* Proofs about TemplateClient, for any number of connections.  The run    *)
(* client_miscalls shows one callback that takes a CClientData for the     *)
(* client; here it is every callback of every behaviour.                   *)
(***************************************************************************)
EXTENDS TemplateClient, TLAPS

\* A connection that was asked for has the CClientData that ConnectTCP gave it.
PendingHasData == \A h \in Handles :
    request[h] \in {"pending", "lost"} => handle[h] # "none"
        /\ (request[h] = "pending" => data[h] = "CClientData")

\* No connection callback ever reached its client (TemplateClient.cpp:43-69):
\* each one that was called, for a connection that was made, refused or cancelled,
\* called a virtual function of another object.  So nothing is ever read either.
NoneReachesTheClient == \A h \in Handles : request[h] = "freed" => fault = "type_confusion"

Inv == TypeOK /\ PendingHasData /\ NoneReachesTheClient

LEMMA InitInv == Init => Inv
BY DEF Init, Inv, TypeOK, PendingHasData, NoneReachesTheClient, HandleStates

LEMMA ConnectInv == ASSUME Inv, fault = "none", ConnectTCP PROVE Inv'
<1> USE DEF Inv, TypeOK, HandleStates
<1>1. PICK h \in Handles :
        /\ handle[h] = "none" /\ m_socket' = h
        /\ data' = [data EXCEPT ![h] = "CClientData"]
        /\ \/ /\ handle' = [handle EXCEPT ![h] = "active"]
              /\ request' = [request EXCEPT ![h] = "pending"]
           \/ /\ handle' = [handle EXCEPT ![h] = "idle"]
              /\ request' = [request EXCEPT ![h] = "lost"]
  BY DEF ConnectTCP
<1>2. TypeOK' /\ UNCHANGED fault
  BY <1>1 DEF ConnectTCP
<1>3. \A g \in Handles : g # h => /\ handle'[g] = handle[g] /\ request'[g] = request[g]
                                  /\ data'[g] = data[g]
  BY <1>1
<1>4. handle'[h] # "none" /\ data'[h] = "CClientData" /\ request'[h] \in {"pending", "lost"}
  BY <1>1
<1> QED
  BY <1>2, <1>3, <1>4 DEF PendingHasData, NoneReachesTheClient

\* The callback always finds data, and it is never a CTemplateClient.
LEMMA CallbackInv ==
    ASSUME Inv, fault = "none", NEW h \in Handles, NEW status, request[h] = "pending",
           OnConnection(h, status)
    PROVE  Inv' /\ fault' = "type_confusion"
<1> USE DEF Inv, TypeOK, HandleStates
<1>1. data[h] = "CClientData" /\ handle[h] # "none"
  BY DEF PendingHasData
<1>2. /\ fault' = "type_confusion" /\ UNCHANGED <<m_socket, data>>
      /\ request' = [request EXCEPT ![h] = "freed"]
      /\ \E answer \in BOOLEAN : handle' = Connected(h, ~answer /\ status = 0)
  BY <1>1 DEF OnConnection, VirtualCall
<1>3. handle' \in [Handles -> HandleStates] /\ \A g \in Handles : handle[g] # "none" => handle'[g] # "none"
  BY <1>2 DEF Connected
<1>4. TypeOK'
  BY <1>2, <1>3
<1> QED
  BY <1>2, <1>3, <1>4 DEF PendingHasData, NoneReachesTheClient

LEMMA CloseInv == ASSUME Inv, fault = "none", Close PROVE Inv'
<1> USE DEF Inv, TypeOK, HandleStates
<1>1. fault' \in {"none", "null_socket", "use_after_free", "double_close"}
      /\ (fault' = "none" => m_socket \in Handles)
  BY DEF Close, CloseFault, PointerFault
<1>2. /\ handle' \in [Handles -> HandleStates]
      /\ \A g \in Handles : handle[g] # "none" => handle'[g] # "none"
  BY <1>1 DEF Close, MarkClosing
<1>3. \A g \in Handles : request[g] # "freed"
  BY DEF NoneReachesTheClient
<1> QED
  BY <1>1, <1>2, <1>3 DEF Close, PendingHasData, NoneReachesTheClient

LEMMA ClosesInv == ASSUME Inv, fault = "none", NEW h \in Handles, Closes(h) PROVE Inv'
BY DEF Inv, TypeOK, HandleStates, Closes, PendingHasData, NoneReachesTheClient

LEMMA StepInv == Inv /\ [Next]_vars => Inv'
<1> SUFFICES ASSUME Inv, [Next]_vars
             PROVE  Inv'
  OBVIOUS
<1>1. CASE fault = "none" /\ (ConnectTCP \/ Close)
  BY <1>1, ConnectInv, CloseInv
<1>2. ASSUME fault = "none", NEW h \in Handles, Connects(h) \/ Cancels(h)
      PROVE  Inv'
  BY <1>2, CallbackInv DEF Connects, Cancels
<1>3. ASSUME fault = "none", NEW h \in Handles, OnRead(h)
      PROVE  FALSE
  BY <1>3 DEF OnRead, Inv, NoneReachesTheClient
<1>4. ASSUME fault = "none", NEW h \in Handles, Closes(h)
      PROVE  Inv'
  BY <1>4, ClosesInv
<1>5. CASE UNCHANGED vars
  BY <1>5 DEF vars, Inv, TypeOK, PendingHasData, NoneReachesTheClient
<1> QED
  BY <1>1, <1>2, <1>3, <1>4, <1>5 DEF Next

LEMMA Invariance == Spec => []Inv
BY InitInv, StepInv, PTL DEF Spec

\* Types, for any number of connections.
THEOREM ClientTypeCorrect == Spec => []TypeOK
BY Invariance, PTL DEF Inv

\* No connection of any CTemplateClient is ever announced to it.
THEOREM NoneReachesCorrect == Spec => []NoneReachesTheClient
BY Invariance, PTL DEF Inv

\* And libuv's callback for read bytes is never reached.
THEOREM NothingIsRead == Spec => [][\A h \in Handles : ~OnRead(h)]_vars
<1>1. Inv /\ [Next]_vars => [\A h \in Handles : ~OnRead(h)]_vars
  <2> SUFFICES ASSUME Inv, Next, NEW h \in Handles, OnRead(h)
               PROVE  FALSE
    OBVIOUS
  <2>1. fault = "none" /\ request[h] = "freed"
    BY DEF Next, OnRead
  <2> QED
    BY <2>1 DEF Inv, NoneReachesTheClient
<1> QED
  BY <1>1, Invariance, PTL DEF Spec

=============================================================================
