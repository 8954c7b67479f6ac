------------------------- MODULE SocketWriteProofs -------------------------
(***************************************************************************)
(* Proofs about SocketWrite, for any sockets, any number of writes and     *)
(* writes of any length.                                                   *)
(***************************************************************************)
EXTENDS SocketWrite, TLAPS

\* The requests that were not made yet, and those that were.
Numbered ==
    /\ \A r \in Requests :
         IF r > calls
         THEN /\ socket[r] = NULL /\ request[r] = "none" /\ memory[r] = "none"
              /\ length[r] = 0 /\ left[r] = 0
         ELSE socket[r] \in Sockets
    /\ fault = "none" => \A r \in Requests : r <= calls => request[r] # "none"

\* On a healthy connection a request is finished when all of it was taken.
FinishedIsSent ==
    \A r \in Requests :
        /\ request[r] \in {"finished", "done"}
        /\ handle[socket[r]] = "active" /\ ~Fails(socket[r])
        => left[r] = 0

\* A request that waits has something to send.
QueuedIsLeft == \A r \in Requests : request[r] = "queued" => left[r] > 0

\* On a TCP socket the bytes go out in the order of the calls, although each
\* write is tried at once and may be taken in part: no byte of a later write
\* before the last of an earlier one.
InOrder ==
    \A q \in Requests, r \in Requests :
        /\ q < r /\ socket[q] = socket[r] /\ socket[q] \notin UdpSockets
        /\ request[q] # "refused" /\ left[r] < length[r]
        => left[q] = 0

Inv ==
    /\ TypeOK /\ Numbered
    /\ RequestsOwned /\ FinishedIsSent /\ QueuedIsLeft /\ InOrder

-----------------------------------------------------------------------------
USE DEF Fails

LEMMA InitInv == Init => Inv
BY BoundsAssumption, SocketsAssumption DEF Init, Inv, TypeOK, Numbered, RequestsOwned,
   FinishedIsSent, QueuedIsLeft, InOrder, Requests, NULL

LEMMA ChunksAreParts ==
    ASSUME NEW s, NEW n \in Nat
    PROVE  /\ Chunks(s, n) \subseteq 0 .. n
           /\ s \in broken => Chunks(s, n) = {0}
           /\ s \in UdpSockets => Chunks(s, n) \subseteq {0, n}
BY DEF Chunks

\* Every write hands libuv a new request, of which it may take some bytes only
\* if nothing else waits for a healthy socket.
HandsOver(s, n) ==
    /\ calls' = calls + 1 /\ calls' \in Requests /\ calls' > calls
    /\ calls \in Nat /\ n \in Nat /\ n > 0
    /\ request' \in [Requests -> {"none", "refused", "queued", "finished", "done"}]
    /\ request' = [request EXCEPT ![calls'] = request'[calls']]
    /\ left' = [left EXCEPT ![calls'] = left'[calls']]
    /\ left'[calls'] \in 0 .. n
    /\ fault' = "none" =>
         /\ request'[calls'] \in {"refused", "queued", "finished"}
         /\ request'[calls'] = "refused" => handle[s] = "closing"
         /\ request'[calls'] \in {"queued", "finished"} => handle[s] = "active"
         /\ request'[calls'] = "finished" /\ ~Fails(s) => left'[calls'] = 0
         /\ request'[calls'] = "finished" => Waiting(s) = {}
         /\ left'[calls'] = 0 => request'[calls'] = "finished"
    /\ s \in UdpSockets => left'[calls'] \in {0, n}
    /\ left'[calls'] < n => Waiting(s) = {} /\ handle[s] = "active" /\ s \notin broken
    /\ fault' # "none" => request'[calls'] = "none"
    /\ fault' \in {"none", "use_after_free", "write_after_close"}

LEMMA WriteEffect ==
    ASSUME Inv, fault = "none", NEW s \in Sockets, NEW n \in Lengths, Write(s, n)
    PROVE  HandsOver(s, n)
<1> USE DEF Inv, TypeOK, Requests, HandsOver
<1>1. calls \in Nat /\ n \in Nat /\ n > 0 /\ calls' = calls + 1 /\ calls' \in Requests
  BY BoundsAssumption DEF Write
<1>2. fault' \in {"none", "use_after_free", "write_after_close"}
  BY SocketsAssumption DEF Write, WriteFault, PointerFault
<1>3. CASE fault' # "none"
  <2>1. request'[calls'] = "none" /\ request' = request /\ left' = [left EXCEPT ![calls'] = n]
    BY <1>1, <1>3 DEF Write, Numbered
  <2> QED
    BY <1>1, <1>2, <1>3, <2>1
<1>4. CASE fault' = "none" /\ handle[s] = "closing"
  <2>1. request' = [request EXCEPT ![calls'] = "refused"] /\ left' = [left EXCEPT ![calls'] = n]
    BY <1>4 DEF Write, UvWrite
  <2> QED
    BY <1>1, <1>2, <1>4, <2>1
<1>5. CASE fault' = "none" /\ handle[s] # "closing"
  <2>1. handle[s] = "active" /\ UvWrite(s, calls', n)
    BY <1>5 DEF Write, UvWrite
  <2>2. CASE /\ Fails(s) /\ Waiting(s) = {}
             /\ request' = [request EXCEPT ![calls'] = "finished"] /\ left' = [left EXCEPT ![calls'] = n]
    BY <1>1, <1>2, <1>5, <2>1, <2>2
  <2>3. ASSUME NEW k \in Chunks(s, n), k > 0 => Waiting(s) = {},
               request' = [request EXCEPT ![calls'] = IF k = n THEN "finished" ELSE "queued"],
               left' = [left EXCEPT ![calls'] = n - k]
        PROVE  HandsOver(s, n)
    <3>1. k \in 0 .. n /\ (s \in broken => k = 0) /\ (s \in UdpSockets => k \in {0, n})
      BY <1>1, ChunksAreParts
    <3> QED
      BY <1>1, <1>2, <1>5, <2>1, <2>3, <3>1
  <2> QED
    BY <2>1, <2>2, <2>3 DEF UvWrite
<1> QED
  BY <1>3, <1>4, <1>5

LEMMA WriteInv ==
    ASSUME Inv, fault = "none", NEW s \in Sockets, NEW n \in Lengths, Write(s, n)
    PROVE  Inv'
<1> DEFINE r == calls'
<1>1. HandsOver(s, n)
  BY WriteEffect
<1>2. /\ r \in Requests /\ calls \in Nat /\ r = calls + 1
      /\ socket[r] = NULL /\ left[r] = 0 /\ length[r] = 0 /\ n \in Nat /\ s # NULL
  BY <1>1, SocketsAssumption DEF HandsOver, Inv, Numbered, TypeOK
<1>3. /\ socket' = [socket EXCEPT ![r] = s]
      /\ length' = [length EXCEPT ![r] = n] /\ memory' = [memory EXCEPT ![r] = "allocated"]
      /\ UNCHANGED <<handle, broken>>
  BY DEF Write
<1>4. TypeOK'
  <2> HIDE DEF r
  <2>1. /\ calls' \in 0 .. MaxRequests
        /\ request' \in [Requests -> {"none", "refused", "queued", "finished", "done"}]
        /\ fault' \in {"none", "use_after_free", "write_after_close"}
    BY <1>1 DEF HandsOver, Requests
  <2>2. left' = [left EXCEPT ![r] = left'[r]] /\ left'[r] \in Nat
    BY <1>1 DEF HandsOver, r
  <2>3. left' \in [Requests -> Nat] /\ length' \in [Requests -> Nat]
    BY <1>2, <1>3, <2>2 DEF Inv, TypeOK
  <2>4. /\ socket' \in [Requests -> Sockets \cup {NULL}]
        /\ memory' \in [Requests -> {"none", "allocated", "freed"}]
    BY <1>2, <1>3 DEF Inv, TypeOK
  <2> QED
    BY <1>3, <2>1, <2>3, <2>4 DEF Inv, TypeOK
<1>5. ASSUME NEW q \in Requests, q # r
      PROVE  /\ socket'[q] = socket[q] /\ length'[q] = length[q]
             /\ memory'[q] = memory[q] /\ request'[q] = request[q] /\ left'[q] = left[q]
             /\ (q > calls' <=> q > calls)
  <2> HIDE DEF r
  <2>1. request' = [request EXCEPT ![r] = request'[r]] /\ left' = [left EXCEPT ![r] = left'[r]]
    BY <1>1 DEF HandsOver, r
  <2>2. q > calls' <=> q > calls
    BY <1>2, <1>5 DEF Requests, r
  <2> QED
    BY <1>2, <1>3, <1>5, <2>1, <2>2 DEF Inv, TypeOK
<1>6. socket'[r] = s /\ length'[r] = n /\ memory'[r] = "allocated"
  BY <1>2, <1>3 DEF Inv, TypeOK
<1> HIDE DEF r
<1>7. Numbered'
  <2>1. ASSUME NEW q \in Requests
        PROVE  IF q > calls'
               THEN /\ socket'[q] = NULL /\ request'[q] = "none" /\ memory'[q] = "none"
                    /\ length'[q] = 0 /\ left'[q] = 0
               ELSE socket'[q] \in Sockets
    <3>1. CASE q = r
      BY <1>2, <1>6, <3>1 DEF r
    <3>2. CASE q # r
      BY <1>5, <3>2 DEF Inv, Numbered
    <3> QED
      BY <3>1, <3>2
  <2>2. ASSUME fault' = "none", NEW q \in Requests, q <= calls'
        PROVE  request'[q] # "none"
    <3>1. CASE q = r
      BY <1>1, <2>2, <3>1 DEF HandsOver, r
    <3>2. CASE q # r
      <4>1. q <= calls
        BY <1>2, <2>2, <3>2 DEF r, Requests
      <4> QED
        BY <1>5, <3>2, <4>1 DEF Inv, Numbered
    <3> QED
      BY <3>1, <3>2
  <2> QED
    BY <2>1, <2>2 DEF Numbered
<1>8. RequestsOwned'
  <2>1. ASSUME fault' = "none", NEW q \in Requests
        PROVE  /\ memory'[q] = "allocated" <=> request'[q] \in {"queued", "finished", "refused"}
               /\ memory'[q] = "freed" <=> request'[q] = "done"
               /\ request'[q] \in {"queued", "finished"} => handle'[socket'[q]] \in {"active", "closing"}
               /\ request'[q] = "refused" => handle'[socket'[q]] \in {"closing", "freed"}
    <3>1. CASE q = r
      BY <1>1, <1>3, <1>6, <2>1, <3>1 DEF HandsOver, r
    <3>2. CASE q # r
      BY <1>3, <1>5, <3>2 DEF Inv, RequestsOwned
    <3> QED
      BY <3>1, <3>2
  <2> QED
    BY <2>1 DEF RequestsOwned
<1>9. FinishedIsSent'
  <2>1. ASSUME NEW q \in Requests, request'[q] \in {"finished", "done"},
               handle'[socket'[q]] = "active", socket'[q] \notin UdpSockets \cup broken'
        PROVE  left'[q] = 0
    <3>1. CASE q = r
      BY <1>1, <1>3, <1>6, <2>1, <3>1 DEF HandsOver, r
    <3>2. CASE q # r
      BY <1>3, <1>5, <2>1, <3>2 DEF Inv, FinishedIsSent
    <3> QED
      BY <3>1, <3>2
  <2> QED
    BY <2>1 DEF FinishedIsSent
<1>10. InOrder'
  <2>1. ASSUME NEW q \in Requests, NEW p \in Requests, q < p, socket'[q] = socket'[p],
               socket'[q] \notin UdpSockets, request'[q] # "refused", left'[p] < length'[p]
        PROVE  left'[q] = 0
    <3>1. CASE p = r
      <4>1. q # r /\ q <= calls /\ socket[q] = s /\ request[q] # "refused"
        BY <1>2, <1>5, <1>6, <2>1, <3>1 DEF Requests
      <4>2. Waiting(s) = {} /\ handle[s] = "active" /\ s \notin broken
        BY <1>1, <1>6, <2>1, <3>1 DEF HandsOver, r
      <4>3. request[q] \in {"finished", "done"}
        BY <4>1, <4>2 DEF Waiting, Inv, TypeOK, Numbered
      <4> QED
        BY <1>5, <1>6, <2>1, <3>1, <4>1, <4>2, <4>3 DEF Inv, FinishedIsSent
    <3>2. CASE p # r /\ q = r
      <4>1. p > calls
        BY <1>2, <2>1, <3>2 DEF Requests
      <4>2. socket[p] = NULL
        BY <4>1 DEF Inv, Numbered
      <4> QED
        BY <1>2, <1>5, <1>6, <2>1, <3>2, <4>2
    <3>3. CASE p # r /\ q # r
      BY <1>5, <2>1, <3>3 DEF Inv, InOrder
    <3> QED
      BY <3>1, <3>2, <3>3
  <2> QED
    BY <2>1 DEF InOrder
<1>12. QueuedIsLeft'
  <2>1. ASSUME NEW q \in Requests, request'[q] = "queued"
        PROVE  left'[q] > 0
    <3>1. CASE q = r
      <4>1. request'[r] = "queued" => left'[r] # 0 /\ left'[r] \in 0 .. n
        BY <1>1 DEF HandsOver, r
      <4> QED
        BY <1>2, <2>1, <3>1, <4>1
    <3>2. CASE q # r
      BY <1>5, <2>1, <3>2 DEF Inv, QueuedIsLeft
    <3> QED
      BY <3>1, <3>2
  <2> QED
    BY <2>1 DEF QueuedIsLeft
<1> QED
  BY <1>4, <1>7, <1>8, <1>9, <1>10, <1>12 DEF Inv

LEMMA CloseInv ==
    ASSUME Inv, fault = "none", NEW s \in Sockets, Close(s)
    PROVE  Inv'
<1> USE DEF call
<1>1. /\ fault' \in {"none", "use_after_free", "double_close"}
      /\ fault' = "none" => handle[s] = "active"
      /\ handle' = handle \/ (fault' = "none" /\ handle' = [handle EXCEPT ![s] = "closing"])
  BY SocketsAssumption DEF Close, CloseFault, PointerFault, MarkClosing, Inv, TypeOK
<1>2. TypeOK'
  BY <1>1 DEF Close, Inv, TypeOK
<1>3. \A t \in Sockets : handle'[t] = handle[t] \/ (handle[t] = "active" /\ handle'[t] = "closing")
  BY <1>1 DEF Inv, TypeOK
<1>4. RequestsOwned' /\ FinishedIsSent'
  BY <1>3 DEF Close, Inv, TypeOK, Numbered, RequestsOwned, FinishedIsSent
<1> QED
  BY <1>2, <1>4 DEF Close, Inv, Numbered, QueuedIsLeft, InOrder

\* One waiting request gets shorter, or is finished with an error.
FlushOne(s, r, k) ==
    /\ r \in Waiting(s) /\ handle[s] = "active"
    /\ \A q \in Waiting(s) : r <= q
    /\ k \in 0 .. left[r] /\ (s \in UdpSockets => k \in {0, left[r]})
    /\ left' = [left EXCEPT ![r] = left[r] - k]
    /\ request' = [request EXCEPT ![r] = request'[r]]
    /\ \/ k > 0 /\ s \notin broken /\ request'[r] = IF k = left[r] THEN "finished" ELSE "queued"
       \/ k = 0 /\ Fails(s) /\ request'[r] = "finished"
    /\ UNCHANGED <<handle, broken, call, memory, fault>>

LEMMA FlushEffect ==
    ASSUME Inv, NEW s \in Sockets, Flush(s)
    PROVE  \E r \in Requests : \E k \in Nat : FlushOne(s, r, k)
<1>1. PICK r \in Waiting(s) :
        /\ \A q \in Waiting(s) : r <= q
        /\ \/ \E k \in Chunks(s, left[r]) \ {0} :
                /\ left' = [left EXCEPT ![r] = @ - k]
                /\ request' = IF k = left[r] THEN [request EXCEPT ![r] = "finished"] ELSE request
           \/ Fails(s) /\ request' = [request EXCEPT ![r] = "finished"] /\ UNCHANGED left
  BY DEF Flush
<1>2. /\ r \in Requests /\ request[r] = "queued" /\ left[r] \in Nat /\ handle[s] = "active"
      /\ UNCHANGED <<handle, broken, call, memory, fault>>
      /\ left \in [Requests -> Nat]
      /\ request \in [Requests -> {"none", "refused", "queued", "finished", "done"}]
  BY <1>1 DEF Flush, Waiting, Inv, TypeOK
<1>3. ASSUME NEW k \in Chunks(s, left[r]) \ {0}, left' = [left EXCEPT ![r] = @ - k],
             request' = IF k = left[r] THEN [request EXCEPT ![r] = "finished"] ELSE request
      PROVE  k \in Nat /\ FlushOne(s, r, k)
  <2>1. k \in 1 .. left[r] /\ s \notin broken /\ (s \in UdpSockets => k = left[r])
    BY <1>2, <1>3, ChunksAreParts
  <2>2. /\ request' = [request EXCEPT ![r] = request'[r]]
        /\ request'[r] = IF k = left[r] THEN "finished" ELSE "queued"
    BY <1>2, <1>3
  <2>3. left' = [left EXCEPT ![r] = left[r] - k] /\ k \in Nat /\ k > 0 /\ k \in 0 .. left[r]
    BY <1>2, <1>3, <2>1
  <2> QED
    BY <1>1, <1>2, <2>1, <2>2, <2>3 DEF FlushOne
<1>4. ASSUME Fails(s), request' = [request EXCEPT ![r] = "finished"], UNCHANGED left
      PROVE  FlushOne(s, r, 0)
  <2>1. left' = [left EXCEPT ![r] = left[r] - 0] /\ 0 \in 0 .. left[r]
    BY <1>2, <1>4
  <2>2. request' = [request EXCEPT ![r] = request'[r]] /\ request'[r] = "finished"
    BY <1>2, <1>4
  <2> QED
    BY <1>1, <1>2, <1>4, <2>1, <2>2 DEF FlushOne
<1> QED
  BY <1>1, <1>2, <1>3, <1>4

LEMMA FlushInv ==
    ASSUME Inv, fault = "none", NEW s \in Sockets, Flush(s)
    PROVE  Inv'
<1> USE DEF call
<1>1. PICK r \in Requests, k \in Nat : FlushOne(s, r, k)
  BY FlushEffect
<1>2. /\ left' = [left EXCEPT ![r] = left[r] - k] /\ request' = [request EXCEPT ![r] = request'[r]]
      /\ \A q \in Waiting(s) : r <= q
  BY <1>1 DEF FlushOne
<1>3. /\ socket[r] = s /\ request[r] = "queued" /\ left[r] \in Nat
      /\ handle[s] = "active" /\ UNCHANGED <<handle, broken, call, memory, fault>>
  BY <1>1 DEF FlushOne, Waiting, Inv, TypeOK
<1>4. k \in 0 .. left[r] /\ (k > 0 => s \notin broken)
  BY <1>1 DEF FlushOne
<1>5. left[r] - k \in Nat /\ request'[r] \in {"finished", "queued"}
      /\ left'[r] = left[r] - k
      /\ (request'[r] = "finished" /\ ~Fails(s) => left'[r] = 0)
      /\ (request'[r] = "queued" => k # left[r])
  BY <1>1, <1>2, <1>3, <1>4 DEF FlushOne, Inv, TypeOK
<1>6. \A q \in Requests : q # r => request'[q] = request[q] /\ left'[q] = left[q]
  BY <1>2, <1>3 DEF Inv, TypeOK
<1>7. TypeOK'
  <2>1. left' \in [Requests -> Nat]
    BY <1>2, <1>3, <1>5 DEF Inv, TypeOK
  <2>2. request' \in [Requests -> {"none", "refused", "queued", "finished", "done"}]
    BY <1>2, <1>3, <1>5 DEF Inv, TypeOK
  <2> QED
    BY <1>2, <1>3, <2>1, <2>2 DEF Inv, TypeOK
<1>8. Numbered'
  BY <1>3, <1>5, <1>6 DEF Inv, Numbered
<1>9. RequestsOwned'
  <2>1. ASSUME NEW q \in Requests
        PROVE  /\ request'[q] \in {"queued", "finished"} <=> request[q] \in {"queued", "finished"}
               /\ request'[q] = "done" <=> request[q] = "done"
               /\ request'[q] = "refused" <=> request[q] = "refused"
    BY <1>3, <1>5, <1>6
  <2> QED
    BY <1>3, <2>1 DEF Inv, RequestsOwned
<1>10. FinishedIsSent'
  BY <1>3, <1>5, <1>6 DEF Inv, FinishedIsSent, Fails
<1>11. InOrder'
  <2>1. ASSUME NEW q \in Requests, NEW p \in Requests, q < p, socket[q] = socket[p],
               socket[q] \notin UdpSockets, request'[q] # "refused", left'[p] < length[p]
        PROVE  left'[q] = 0
    <3>1. CASE p = r /\ k > 0
      <4>1. q # r /\ socket[q] = s /\ request[q] # "refused" /\ q \notin Waiting(s)
        <5>1. q # r /\ ~(r <= q)
          BY <1>3, <2>1, <3>1 DEF Requests
        <5>2. q \notin Waiting(s)
          BY <1>2, <5>1
        <5> QED
          BY <1>3, <1>6, <2>1, <3>1, <5>1, <5>2
      <4>2. q <= calls
        <5>1. calls \in Int /\ q \in Int
          BY BoundsAssumption DEF Inv, TypeOK, Requests
        <5>2. ~(q > calls)
          BY <1>3, <4>1, SocketsAssumption DEF Inv, Numbered
        <5> QED
          BY <5>1, <5>2
      <4>3. request[q] \in {"finished", "done"}
        BY <1>3, <4>1, <4>2 DEF Waiting, Inv, TypeOK, Numbered
      <4>4. left[q] = 0
        BY <1>3, <1>4, <2>1, <3>1, <4>1, <4>3 DEF Inv, FinishedIsSent
      <4> QED
        BY <1>6, <4>1, <4>4
    <3>2. CASE ~(p = r /\ k > 0)
      <4>1. left'[p] = left[p]
        BY <1>2, <1>3, <1>4, <1>6, <3>2 DEF Inv, TypeOK
      <4>2. left[q] = 0
        BY <1>3, <1>5, <1>6, <2>1, <4>1 DEF Inv, InOrder
      <4> QED
        BY <1>2, <1>3, <1>4, <1>6, <4>2 DEF Inv, TypeOK
    <3> QED
      BY <3>1, <3>2
  <2> QED
    BY <1>3, <2>1 DEF InOrder
<1>12. QueuedIsLeft'
  <2>1. request'[r] = "queued" => left'[r] > 0
    BY <1>3, <1>4, <1>5
  <2> QED
    BY <1>6, <2>1 DEF Inv, QueuedIsLeft
<1> QED
  BY <1>7, <1>8, <1>9, <1>10, <1>11, <1>12 DEF Inv

\* The callbacks of requests that libuv holds.
LEMMA FinishInv ==
    ASSUME Inv, fault = "none", NEW done, WriteFinished(done),
           \A r \in Requests : r \in done =>
                \/ request[r] = "finished"
                \/ request[r] = "queued" /\ handle'[socket[r]] # "active",
           \A r \in Requests : request[r] \in {"queued", "finished"} =>
                r \in done \/ handle'[socket[r]] \in {"active", "closing"},
           \A c \in Sockets :
                /\ handle'[c] = "active" => handle[c] = "active"
                /\ handle[c] \in {"closing", "freed"} => handle'[c] \in {"closing", "freed"},
           handle' \in [Sockets -> {"active", "closing", "freed"}],
           UNCHANGED <<broken, call, left, fault>>
    PROVE  Inv'
<1> USE DEF call, WriteFinished
<1>1. TypeOK'
  BY DEF Inv, TypeOK
<1>2. \A r \in Requests : request[r] # "none" => socket[r] \in Sockets
  BY DEF Inv, Numbered
<1>3. Numbered' /\ RequestsOwned' /\ FinishedIsSent'
  <2>1. Numbered'
    BY DEF Inv, Numbered
  <2>2. RequestsOwned'
    BY <1>2 DEF Inv, RequestsOwned
  <2>3. FinishedIsSent'
    BY <1>2 DEF Inv, FinishedIsSent
  <2> QED
    BY <2>1, <2>2, <2>3
<1>4. InOrder' /\ QueuedIsLeft'
  BY DEF Inv, InOrder, QueuedIsLeft
<1> QED
  BY <1>1, <1>2, <1>3, <1>4 DEF Inv

LEMMA RunCompletedInv ==
    ASSUME Inv, fault = "none", NEW s \in Sockets, RunCompleted(s)
    PROVE  Inv'
<1>1. \A r \in Requests : r \in Finished(s) => request[r] = "finished"
  BY DEF Finished
<1>2. \A r \in Requests : request[r] \in {"queued", "finished"} => handle[socket[r]] \in {"active", "closing"}
  BY DEF Inv, RequestsOwned
<1>3. handle' = handle /\ handle \in [Sockets -> {"active", "closing", "freed"}]
  BY DEF RunCompleted, Inv, TypeOK
<1> QED
  BY <1>1, <1>2, <1>3, FinishInv DEF RunCompleted

LEMMA EndIterationInv ==
    ASSUME Inv, fault = "none", EndIteration
    PROVE  Inv'
<1> DEFINE done == UNION {Waiting(s) \cup Finished(s) : s \in {c \in Sockets : handle[c] = "closing"}}
<1>1. \A r \in Requests : r \in done <=>
          request[r] \in {"queued", "finished"} /\ socket[r] \in Sockets /\ handle[socket[r]] = "closing"
  BY DEF Waiting, Finished
<1>2. WriteFinished(done) /\ UNCHANGED <<broken, call, left, fault>>
  BY DEF EndIteration
<1> HIDE DEF done
<1>3. handle \in [Sockets -> {"active", "closing", "freed"}]
  BY DEF Inv, TypeOK
<1>4. handle' = [c \in Sockets |-> IF handle[c] = "closing" THEN "freed" ELSE handle[c]]
  BY <1>3 DEF EndIteration, OnClose
<1>5. \A r \in Requests : request[r] \in {"queued", "finished"} =>
          socket[r] \in Sockets /\ handle[socket[r]] \in {"active", "closing"}
  BY DEF Inv, Numbered, RequestsOwned
<1>6. \A c \in Sockets :
          /\ handle'[c] = "active" => handle[c] = "active"
          /\ handle[c] \in {"closing", "freed"} => handle'[c] \in {"closing", "freed"}
  BY <1>3, <1>4
<1>7. handle' \in [Sockets -> {"active", "closing", "freed"}]
  BY <1>3, <1>4
<1>8. \A r \in Requests : r \in done =>
          \/ request[r] = "finished"
          \/ request[r] = "queued" /\ handle'[socket[r]] # "active"
  BY <1>1, <1>3, <1>4
<1>9. \A r \in Requests : request[r] \in {"queued", "finished"} =>
          r \in done \/ handle'[socket[r]] \in {"active", "closing"}
  BY <1>1, <1>3, <1>4, <1>5
<1> QED
  BY <1>2, <1>6, <1>7, <1>8, <1>9, FinishInv

LEMMA BreaksInv ==
    ASSUME Inv, fault = "none", NEW s \in Sockets, Breaks(s) \/ ReadFails(s)
    PROVE  Inv'
<1> USE DEF Breaks, ReadFails, call, MarkClosing
<1>1. handle \in [Sockets -> {"active", "closing", "freed"}] /\ broken \subseteq Sockets \ UdpSockets
  BY DEF Inv, TypeOK
<1>2. handle' \in [Sockets -> {"active", "closing", "freed"}] /\ broken' \subseteq Sockets \ UdpSockets
  BY <1>1
<1>3. \A c \in Sockets :
        /\ c \in broken => c \in broken'
        /\ handle'[c] = handle[c] \/ (handle[c] = "active" /\ handle'[c] = "closing")
  BY <1>1
<1>4. \A r \in Requests : request[r] # "none" => socket[r] \in Sockets
  BY DEF Inv, Numbered
<1>5. UNCHANGED <<calls, socket, length, memory, request, left, fault>>
  OBVIOUS
<1>6. RequestsOwned' /\ FinishedIsSent'
  BY <1>3, <1>4, <1>5 DEF Inv, RequestsOwned, FinishedIsSent
<1> QED
  BY <1>2, <1>5, <1>6 DEF Inv, TypeOK, Numbered, QueuedIsLeft, InOrder

-----------------------------------------------------------------------------
LEMMA StepInv == Inv /\ [Next]_vars => Inv'
<1> SUFFICES ASSUME Inv, [Next]_vars
             PROVE  Inv'
  OBVIOUS
<1>1. ASSUME fault = "none", NEW s \in Sockets, Module(s)
      PROVE  Inv'
  <2>1. CASE Close(s)
    BY <1>1, <2>1, CloseInv
  <2>2. ASSUME NEW n \in Lengths, Write(s, n)
        PROVE  Inv'
    BY <1>1, <2>2, WriteInv
  <2> QED
    BY <1>1, <2>1, <2>2 DEF Module
<1>2. CASE fault = "none" /\ Loop
  BY <1>2, EndIterationInv, RunCompletedInv, BreaksInv DEF Loop
<1>3. ASSUME fault = "none", NEW s \in Sockets, Flush(s) \/ Breaks(s)
      PROVE  Inv'
  BY <1>3, FlushInv, BreaksInv
<1>4. CASE UNCHANGED vars
  BY <1>4 DEF vars, call, Inv, TypeOK, Numbered, RequestsOwned, FinishedIsSent,
     QueuedIsLeft, InOrder
<1> QED
  BY <1>1, <1>2, <1>3, <1>4 DEF Next

LEMMA Invariance == Spec => []Inv
BY InitInv, StepInv, PTL DEF Spec

\* Types, for any sockets, writes and lengths.
THEOREM WriteTypeCorrect == Spec => []TypeOK
BY Invariance, PTL DEF Inv

\* The memory of a request is there exactly as long as libuv works with it.
THEOREM OwnedCorrect == Spec => []RequestsOwned
BY Invariance, PTL DEF Inv

\* The bytes of two writes to one TCP socket go out in the order of the calls.
THEOREM OrderCorrect == Spec => []InOrder
BY Invariance, PTL DEF Inv

-----------------------------------------------------------------------------
(* SocketWrite implements DeliveryService: each step is one of its actions *)
(* or none at all.                                                         *)

\* What DeliveryService sees of one request.
SameMessage(r) == To'[r] = To[r] /\ Rest'[r] = Rest[r] /\ Fate'[r] = Fate[r]

LEMMA DeliveryInit == Init => Service!Init
BY DEF Init, Service!Init, OpenSockets, To, Rest, Fate, Submitted

\* Functions over the requests are equal when they agree on each.
LEMMA SameDelivery ==
    ASSUME OpenSockets' = OpenSockets, \A r \in Requests : SameMessage(r)
    PROVE  UNCHANGED Service!delivery
<1>1. To' = To
  BY DEF SameMessage, To
<1>2. Rest' = Rest
  BY DEF SameMessage, Rest
<1>3. Fate' = Fate
  BY DEF SameMessage, Fate
<1> QED
  BY <1>1, <1>2, <1>3 DEF Service!delivery

LEMMA WriteDelivers ==
    ASSUME Inv, fault = "none", NEW s \in Sockets, NEW n \in Lengths, Write(s, n)
    PROVE  Service!Next \/ UNCHANGED Service!delivery
<1> DEFINE r == calls'
<1>1. HandsOver(s, n)
  BY WriteEffect
<1>2. /\ r \in Requests /\ calls \in Nat /\ r = calls + 1 /\ n \in Nat /\ n > 0
      /\ socket \in [Requests -> Sockets \cup {NULL}] /\ left \in [Requests -> Nat]
      /\ request \in [Requests -> {"none", "refused", "queued", "finished", "done"}]
      /\ ~Submitted(r)
  BY <1>1 DEF HandsOver, Inv, Numbered, TypeOK, Submitted
<1>3. socket' = [socket EXCEPT ![r] = s] /\ UNCHANGED <<handle, broken>>
  BY DEF Write
<1>4. /\ request' = [request EXCEPT ![r] = request'[r]]
      /\ left' = [left EXCEPT ![r] = left'[r]] /\ left'[r] \in 0 .. n
  BY <1>1 DEF HandsOver
<1> HIDE DEF r
<1>5. ASSUME NEW q \in Requests, q # r
      PROVE  SameMessage(q)
  BY <1>2, <1>3, <1>4, <1>5 DEF SameMessage, To, Rest, Fate, Submitted
<1>6. OpenSockets' = OpenSockets
  BY <1>3 DEF OpenSockets
<1>7. CASE fault' # "none"
  <2>1. request'[r] = "none"
    BY <1>1, <1>7 DEF HandsOver, r
  <2>2. SameMessage(r)
    BY <1>2, <2>1 DEF SameMessage, To, Rest, Fate, Submitted
  <2> QED
    BY <1>5, <1>6, <2>2, SameDelivery
<1>8. CASE fault' = "none"
  <2>1. /\ request'[r] \in {"refused", "queued", "finished"}
        /\ request'[r] = "refused" => handle[s] = "closing"
        /\ request'[r] = "finished" /\ ~Fails(s) => left'[r] = 0
        /\ request'[r] = "finished" => Waiting(s) = {}
        /\ request'[r] \in {"queued", "finished"} => handle[s] = "active"
        /\ left'[r] = 0 => request'[r] = "finished"
        /\ s \in UdpSockets => left'[r] \in {0, n}
        /\ left'[r] < n => Waiting(s) = {} /\ handle[s] = "active" /\ s \notin broken
    BY <1>1, <1>8 DEF HandsOver, r
  <2>2. Fate[r] = "new" /\ \A q \in Requests : q < r => Fate[q] # "new"
    <3>1. ASSUME NEW q \in Requests, q < r PROVE request[q] # "none"
      <4>1. q <= calls
        BY <1>2, <3>1 DEF Requests
      <4> QED
        BY <4>1 DEF Inv, Numbered
    <3> QED
      BY <1>2, <3>1 DEF Fate, Submitted
  <2>3. To'[r] = s /\ Rest'[r] = left'[r]
    BY <1>2, <1>3, <2>1 DEF To, Rest, Submitted
  <2>4. Fate'[r] = IF request'[r] = "queued" THEN "waiting" ELSE IF left'[r] = 0 THEN "sent" ELSE "lost"
    BY <1>2, <2>1 DEF Fate, Submitted
  <2>5. To' = [To EXCEPT ![r] = s]
    BY <1>2, <1>5, <2>3 DEF SameMessage, To
  <2>6. Rest' = [Rest EXCEPT ![r] = left'[r]]
    BY <1>2, <1>5, <2>3 DEF SameMessage, Rest
  <2>7. Fate' = [Fate EXCEPT ![r] = Fate'[r]]
    <3>1. \A q \in Requests : Fate'[q] = IF q = r THEN Fate'[r] ELSE Fate[q]
      BY <1>5 DEF SameMessage
    <3>2. Fate' = [q \in Requests |-> Fate'[q]] /\ Fate = [q \in Requests |-> Fate[q]]
      BY DEF Fate
    <3> QED
      BY <1>2, <3>1, <3>2
  <2>8. left'[r] \in Service!Remains(s, n)
    BY <1>4, <2>1 DEF Service!Remains
  <2>0. Service!Queue(s) \subseteq Waiting(s)
    BY DEF Service!Queue, Waiting, To, Fate, Submitted
  <2>9. left'[r] < n => s \in OpenSockets /\ Service!Queue(s) = {}
    BY <2>0, <2>1 DEF OpenSockets
  <2>10. /\ Fate'[r] \in IF left'[r] = 0 THEN {"sent"} ELSE {"waiting", "lost"}
         /\ Fate'[r] = "lost" /\ s \in OpenSockets =>
               s \notin Sockets \ UdpSockets /\ Service!Queue(s) = {}
    BY <2>0, <2>1, <2>4 DEF OpenSockets
  <2>11. Service!Submit(r, s)
    BY <1>6, <2>2, <2>5, <2>6, <2>7, <2>8, <2>9, <2>10 DEF Service!Submit
  <2> QED
    BY <1>2, <2>11 DEF Service!Next
<1> QED
  BY <1>7, <1>8

LEMMA FlushDelivers ==
    ASSUME Inv, fault = "none", NEW s \in Sockets, Flush(s)
    PROVE  Service!Next
<1>1. PICK r \in Requests, k \in Nat : FlushOne(s, r, k)
  BY FlushEffect
<1>2. left' = [left EXCEPT ![r] = left[r] - k] /\ request' = [request EXCEPT ![r] = request'[r]]
  BY <1>1 DEF FlushOne
<1>3. /\ r \in Requests /\ socket[r] = s /\ request[r] = "queued"
      /\ handle[s] = "active" /\ UNCHANGED <<handle, broken, socket>>
      /\ socket \in [Requests -> Sockets \cup {NULL}] /\ left \in [Requests -> Nat]
      /\ request \in [Requests -> {"none", "refused", "queued", "finished", "done"}]
      /\ left[r] > 0
  BY <1>1 DEF FlushOne, Waiting, call, Inv, TypeOK, QueuedIsLeft
<1>4. k \in 0 .. left[r] /\ (s \in UdpSockets => k \in {0, left[r]})
  BY <1>1 DEF FlushOne
<1>5. ASSUME NEW q \in Requests, q # r
      PROVE  SameMessage(q)
  BY <1>2, <1>3, <1>5 DEF SameMessage, To, Rest, Fate, Submitted
<1>6. OpenSockets' = OpenSockets
  BY <1>3 DEF OpenSockets
<1>7. /\ left'[r] = left[r] - k
      /\ \/ k > 0 /\ s \notin broken /\ request'[r] = IF k = left[r] THEN "finished" ELSE "queued"
         \/ k = 0 /\ Fails(s) /\ request'[r] = "finished"
  BY <1>1, <1>2, <1>3 DEF FlushOne
<1>8. Fate[r] = "waiting" /\ To[r] = s /\ Rest[r] = left[r]
  BY <1>3 DEF Fate, To, Rest, Submitted
<1>9. To'[r] = s /\ Rest'[r] = left[r] - k
  BY <1>2, <1>3, <1>7 DEF To, Rest, Submitted
<1>10. To' = To
  BY <1>3, <1>5, <1>8, <1>9 DEF SameMessage, To
<1>11. ASSUME NEW f, Fate'[r] = f
       PROVE  Fate' = [Fate EXCEPT ![r] = f]
  <2>1. \A q \in Requests : Fate'[q] = IF q = r THEN f ELSE Fate[q]
    BY <1>5, <1>11 DEF SameMessage
  <2>2. Fate' = [q \in Requests |-> Fate'[q]] /\ Fate = [q \in Requests |-> Fate[q]]
    BY DEF Fate
  <2> QED
    BY <1>3, <2>1, <2>2
<1>0. \A q \in Service!Queue(s) : r <= q
  BY <1>1, <1>3 DEF FlushOne, Service!Queue, Waiting, To, Fate, Submitted
<1>12. CASE k = 0
  <2>1. Fate'[r] = "lost"
    BY <1>3, <1>7, <1>12 DEF Fate, Submitted
  <2>2. Rest' = Rest
    BY <1>3, <1>5, <1>8, <1>9, <1>12 DEF SameMessage, Rest
  <2>3. CASE s \in OpenSockets
    <3>1. s \in OpenSockets \ (Sockets \ UdpSockets)
      BY <1>7, <1>12, <2>3 DEF OpenSockets
    <3>2. Fate' = [Fate EXCEPT ![r] = "lost"]
      BY <1>11, <2>1
    <3>3. Service!Drop(r)
      BY <1>0, <1>6, <1>8, <1>10, <2>2, <3>1, <3>2 DEF Service!Drop
    <3> QED
      BY <1>3, <3>3 DEF Service!Next
  <2>4. CASE s \notin OpenSockets
    <3>1. Fate' = [m \in Requests |-> IF m \in {r} THEN "lost" ELSE Fate[m]]
      BY <1>3, <1>5, <2>1 DEF SameMessage, Fate
    <3>2. Service!Lose({r})
      BY <1>6, <1>8, <1>10, <2>2, <2>4, <3>1 DEF Service!Lose
    <3> QED
      BY <1>3, <3>2 DEF Service!Next
  <2> QED
    BY <2>3, <2>4
<1>13. CASE k > 0
  <2>1. left[r] - k \in 0 .. left[r] /\ s \notin broken
    BY <1>3, <1>4, <1>7, <1>13
  <2>2. Fate' = [Fate EXCEPT ![r] = IF left[r] - k = 0 THEN "sent" ELSE "waiting"]
    <3>1. Fate'[r] = IF left[r] - k = 0 THEN "sent" ELSE "waiting"
      BY <1>3, <1>4, <1>7, <1>13 DEF Fate, Submitted
    <3> QED
      BY <1>11, <3>1
  <2>3. Rest' = [Rest EXCEPT ![r] = left[r] - k]
    BY <1>3, <1>5, <1>9 DEF SameMessage, Rest
  <2>4. left[r] - k \in Service!Remains(s, left[r])
    BY <1>3, <1>4, <2>1 DEF Service!Remains
  <2>6. s \in OpenSockets
    BY <1>3, <2>1 DEF OpenSockets
  <2>7. Service!Send(r)
    <3>1. \E j \in Service!Remains(s, left[r]) :
            /\ j < left[r]
            /\ Rest' = [Rest EXCEPT ![r] = j]
            /\ Fate' = [Fate EXCEPT ![r] = IF j = 0 THEN "sent" ELSE "waiting"]
      <4>1. left[r] - k < left[r]
        BY <1>3, <1>4, <1>13
      <4> QED
        BY <2>2, <2>3, <2>4, <4>1, Zenon
    <3> QED
      BY <1>0, <1>6, <1>8, <1>10, <2>6, <3>1 DEF Service!Send
  <2> QED
    BY <1>3, <2>7 DEF Service!Next
<1> QED
  BY <1>7, <1>12, <1>13

\* One socket stops sending, and nothing else happens.
LEMMA ShutDelivers ==
    ASSUME Inv, NEW s \in Sockets, UNCHANGED <<request, left, socket>>,
           OpenSockets' = OpenSockets \/ OpenSockets' = OpenSockets \ {s}
    PROVE  Service!Next \/ UNCHANGED Service!delivery
<1>1. To' = To /\ Rest' = Rest /\ Fate' = Fate
  BY DEF To, Rest, Fate, Submitted
<1>2. CASE OpenSockets' = OpenSockets
  BY <1>1, <1>2 DEF Service!delivery
<1>3. CASE OpenSockets' = OpenSockets \ {s}
  BY <1>1, <1>3 DEF Service!Next, Service!Shut
<1> QED
  BY <1>2, <1>3

\* The callbacks of finished requests are no step of the service; those of
\* requests that still waited give up messages of sockets that are not open.
LEMMA FinishDelivers ==
    ASSUME Inv, NEW done, WriteFinished(done), UNCHANGED <<broken, left, socket>>,
           \A r \in Requests : r \in done =>
                \/ request[r] = "finished"
                \/ request[r] = "queued" /\ handle[socket[r]] # "active",
           OpenSockets' = OpenSockets
    PROVE  Service!Next
<1> DEFINE given == {r \in Requests : r \in done /\ request[r] = "queued"}
<1>1. request' = [r \in Requests |-> IF r \in done THEN "done" ELSE request[r]]
  BY DEF WriteFinished
<1>2. To' = To /\ Rest' = Rest
  BY <1>1 DEF To, Rest, Submitted
<1>3. \A r \in given : Fate[r] = "waiting" /\ To[r] \notin OpenSockets
  BY DEF Fate, To, Submitted, OpenSockets
<1>4. ASSUME NEW r \in Requests
      PROVE  Fate'[r] = IF r \in given THEN "lost" ELSE Fate[r]
  <2>1. left[r] \in Nat /\ (request[r] = "queued" => left[r] # 0)
    BY DEF Inv, TypeOK, QueuedIsLeft
  <2> QED
    BY <1>1, <2>1 DEF Fate, Submitted
<1>5. Fate' = [r \in Requests |-> IF r \in given THEN "lost" ELSE Fate[r]]
  BY <1>4 DEF Fate
<1>6. given \in SUBSET Requests
  OBVIOUS
<1> HIDE DEF given
<1>7. Service!Lose(given)
  BY <1>2, <1>3, <1>5 DEF Service!Lose
<1> QED
  BY <1>6, <1>7 DEF Service!Next

LEMMA StepDelivers == Inv /\ [Next]_vars => [Service!Next]_(Service!delivery)
<1> SUFFICES ASSUME Inv, [Next]_vars
             PROVE  Service!Next \/ UNCHANGED Service!delivery
  OBVIOUS
<1> USE DEF call
<1>1. handle \in [Sockets -> {"active", "closing", "freed"}]
  BY DEF Inv, TypeOK
<1>2. ASSUME fault = "none", NEW s \in Sockets, Module(s)
      PROVE  Service!Next \/ UNCHANGED Service!delivery
  <2>1. CASE Close(s)
    <3>1. OpenSockets' = OpenSockets \/ OpenSockets' = OpenSockets \ {s}
      BY <1>1, <2>1 DEF Close, MarkClosing, OpenSockets
    <3> QED
      BY <2>1, <3>1, ShutDelivers DEF Close
  <2>2. ASSUME NEW n \in Lengths, Write(s, n)
        PROVE  Service!Next \/ UNCHANGED Service!delivery
    BY <1>2, <2>2, WriteDelivers
  <2> QED
    BY <1>2, <2>1, <2>2 DEF Module
<1>3. ASSUME fault = "none", EndIteration
      PROVE  Service!Next
  <2> DEFINE done == UNION {Waiting(s) \cup Finished(s) : s \in {c \in Sockets : handle[c] = "closing"}}
  <2>1. WriteFinished(done) /\ UNCHANGED <<broken, left, socket>>
    BY <1>3 DEF EndIteration
  <2>2. \A r \in Requests : r \in done =>
            \/ request[r] = "finished"
            \/ request[r] = "queued" /\ handle[socket[r]] # "active"
    BY DEF Waiting, Finished
  <2>3. OpenSockets' = OpenSockets
    BY <1>1, <1>3 DEF EndIteration, OnClose, OpenSockets
  <2> HIDE DEF done
  <2> QED
    BY <2>1, <2>2, <2>3, FinishDelivers
<1>4. ASSUME fault = "none", NEW s \in Sockets, RunCompleted(s)
      PROVE  Service!Next
  <2>1. \A r \in Requests : r \in Finished(s) => request[r] = "finished"
    BY DEF Finished
  <2>2. OpenSockets' = OpenSockets
    BY <1>4 DEF RunCompleted, OpenSockets
  <2> QED
    BY <1>4, <2>1, <2>2, FinishDelivers DEF RunCompleted
<1>5. ASSUME fault = "none", NEW s \in Sockets, ReadFails(s) \/ Breaks(s)
      PROVE  Service!Next \/ UNCHANGED Service!delivery
  <2>1. OpenSockets' = OpenSockets \/ OpenSockets' = OpenSockets \ {s}
    BY <1>1, <1>5 DEF ReadFails, Breaks, MarkClosing, OpenSockets
  <2> QED
    BY <1>5, <2>1, ShutDelivers DEF ReadFails, Breaks
<1>6. CASE UNCHANGED vars
  BY <1>6 DEF vars, Service!delivery, OpenSockets, To, Rest, Fate, Submitted
<1> QED
  BY <1>2, <1>3, <1>4, <1>5, <1>6, FlushDelivers DEF Next, Loop

\* Messages go out in order, a datagram whole or not at all, and none for a
\* connection is lost while it is open, for any sockets, lengths and number of
\* writes.
THEOREM DeliveryCorrect == Spec => DeliverySpec
BY DeliveryInit, Invariance, StepDelivers, PTL DEF Spec, DeliverySpec, Service!Spec

=============================================================================
