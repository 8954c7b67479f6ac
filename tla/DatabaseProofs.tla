--------------------------- MODULE DatabaseProofs ---------------------------
(***************************************************************************)
(* Proofs about Database, for any set of module threads and any number of  *)
(* objects.                                                                *)
(***************************************************************************)
EXTENDS Database, TLAPS

(***************************************************************************)
(* What types need, for every owner and module: a call that writes to the  *)
(* object it was given was given one.                                      *)
(***************************************************************************)
Given ==
    /\ owner \in {"connect", "connecting"} => HasObject
    /\ \A t \in Users : at[t] = "stepping" => held[t] # NULL

AnyInv == TypeOK /\ DanglesOnlyInDisconnect /\ Given

(***************************************************************************)
(* The inductive invariant of behaviours that kept the rules so far.       *)
(***************************************************************************)
Reading == {"store", "storing"}
OfMariaDB == {"command", "sent", "store", "storing", "escape", "escaping", "report", "reporting"}
OfSQLite == {"sqlite", "in_sqlite", "errmsg", "in_errmsg", "stepping"}

\* The owner works alone, and each of its steps finds what the one before left.
OwnerAlone == owner # "idle" => Quiet
OwnerSteady ==
    /\ owner \in {"init", "open"} => ~HasObject
    /\ owner \in {"init", "connect", "connecting"} => m_eDatabasetype = MARIADB
    /\ owner = "open" => m_eDatabasetype = SQLITE
    /\ owner = "clear" /\ HasObject => kind[m_Pointed_db] = "released"

OnlyObject == \A o \in Objects :
    kind[o] \in DatabaseTypes => o = m_Pointed_db /\ kind[o] = m_eDatabasetype

\* A thread works on the object of CDatabase, with the library of its type, and
\* no two of them talk to the server.
RightPlace == \A t \in Users :
    /\ at[t] # "idle" => HasObject
    /\ at[t] \in OfMariaDB => m_eDatabasetype = MARIADB
    /\ at[t] \in OfSQLite => m_eDatabasetype = SQLITE
    /\ at[t] \in InCall \cup {"stepping"} => held[t] = m_Pointed_db
    /\ at[t] = "stepping" => held[t] \in link

OneOnWire == \A t, u \in Users : at[t] \in OnWire /\ at[u] \in OnWire => t = u

\* A thread between mysql_query and mysql_store_result has its own result in the
\* object, and there is no other result.
OwnResult == \A t \in Users : at[t] \in Reading => unread[m_Pointed_db] = t
NoResultLeft == \A o \in Objects :
    unread[o] # NoUser => o = m_Pointed_db /\ at[unread[o]] \in Reading

AskerAlone == \A t, u \in Users : call[t] = "IsConnected" /\ u # t => at[u] = "idle"

AnswerOwn == \A t \in Users : rows[t] \in {t, NoUser}

Good ==
    /\ fault = "none" /\ unfinalized = {}
    /\ OwnerAlone /\ OwnerSteady /\ OnlyObject /\ RightPlace /\ OneOnWire
    /\ OwnResult /\ NoResultLeft /\ AskerAlone /\ AnswerOwn

Kept == careful => Good

\* ExecuteQuery never returns rows of another thread's query, although the
\* threads share one object and the rows travel in two calls (Query.cpp:60-69).
OwnRows == careful => AnswerOwn

-----------------------------------------------------------------------------
USE DEF NULL, MARIADB, SQLITE

\* A step changes careful only by a rule, and only forward.
LEMMA CarefulBefore ==
    ASSUME TypeOK, [Next]_vars
    PROVE  careful' \in BOOLEAN /\ (careful' => careful)
<1> careful \in BOOLEAN
  BY DEF TypeOK
<1> USE DEF Keeps
<1>1. ASSUME NEW type \in DatabaseTypes, Connect(type)
      PROVE  careful' \in BOOLEAN /\ (careful' => careful)
  BY ONLY <1>1 DEF Connect, Keeps
<1>2. CASE Disconnect
  BY <1>2 DEF Disconnect
<1>3. ASSUME NEW t \in Users, NEW f \in Calls, Call(t, f)
      PROVE  careful' \in BOOLEAN /\ (careful' => careful)
  BY ONLY <1>3 DEF Call, Keeps
<1>4. ASSUME NEW t \in Users, BeginCall(t)
      PROVE  careful' \in BOOLEAN /\ (careful' => careful)
  BY ONLY <1>4 DEF BeginCall, Keeps
<1>5. ASSUME NEW t \in Users, EndQuery(t)
      PROVE  careful' \in BOOLEAN /\ (careful' => careful)
  <2>1. UNCHANGED careful \/ \E selects \in BOOLEAN : Keeps(selects <=> call[t] = "ExecuteQuery")
    BY ONLY <1>5 DEF EndQuery
  <2>2. CASE UNCHANGED careful
    BY <2>2
  <2>3. ASSUME NEW selects \in BOOLEAN, Keeps(selects <=> call[t] = "ExecuteQuery")
        PROVE  careful' \in BOOLEAN /\ (careful' => careful)
    BY ONLY <2>3 DEF Keeps
  <2> QED
    BY <2>1, <2>2, <2>3
<1>6. ASSUME NEW t \in Users, EndStepping(t)
      PROVE  careful' \in BOOLEAN /\ (careful' => careful)
  <2>1. UNCHANGED careful \/ Keeps(FALSE)
    BY ONLY <1>6 DEF EndStepping
  <2>2. CASE UNCHANGED careful
    BY <2>2
  <2>3. CASE Keeps(FALSE)
    BY ONLY <2>3 DEF Keeps
  <2> QED
    BY <2>1, <2>2, <2>3
<1>7. CASE UNCHANGED careful
  BY <1>7
<1> QED
  BY <1>1, <1>2, <1>3, <1>4, <1>5, <1>6, <1>7 DEF Next, OwnerStep, ThreadStep, InitObject,
     BeginConnect, EndConnect, OpenSQLite, ClearPointer, LinkBreaks, IfMariaDB, IfSQLite, EndStore,
     EndCall, EndSqlite, vars

LEMMA FaultType ==
    ASSUME NEW p, NEW type
    PROVE  UseFault(p, type) \in Faults /\ WireFault(p) \in Faults /\ CloseFault(p) \in Faults
BY DEF UseFault, WireFault, CloseFault, Faults

\* A new object is one of the bounded set, and is not the null pointer.
LEMMA AllocateEffect ==
    ASSUME TypeOK, NEW type \in DatabaseTypes, Allocate(type)
    PROVE  /\ allocated' \in 0 .. MaxObjects
           /\ m_Pointed_db' \in Objects /\ m_Pointed_db' # NULL
           /\ kind' = [kind EXCEPT ![m_Pointed_db'] = type]
           /\ kind' \in [Objects -> DatabaseTypes \cup {"none", "released"}]
           /\ kind'[m_Pointed_db'] = type
<1>1. /\ allocated' \in 0 .. MaxObjects
      /\ m_Pointed_db' \in Objects /\ m_Pointed_db' # NULL
      /\ kind' = [kind EXCEPT ![m_Pointed_db'] = type]
  BY ObjectAssumption DEF TypeOK, Allocate, Objects
<1> QED
  BY <1>1 DEF TypeOK

LEMMA OwnerTypes ==
    ASSUME AnyInv, OwnerStep \/ LinkBreaks, fault = "none", careful' \in BOOLEAN
    PROVE  AnyInv'
<1> USE DEF AnyInv, TypeOK, DanglesOnlyInDisconnect, Given, database, library, thread, OwnerGoes,
       OwnerSteps, HasObject
<1>1. ASSUME NEW type \in DatabaseTypes, Connect(type)
      PROVE  AnyInv'
  BY <1>1 DEF Connect
<1>2. CASE InitObject
  <2>1. CASE HasObject /\ UNCHANGED <<m_Pointed_db, kind, allocated>>
    BY <1>2, <2>1 DEF InitObject
  <2>2. CASE Allocate(MARIADB)
    BY <1>2, <2>2, AllocateEffect DEF InitObject, DatabaseTypes
  <2> QED
    BY <1>2, <2>1, <2>2 DEF InitObject
<1>3. CASE BeginConnect
  BY <1>3, FaultType DEF BeginConnect
<1>4. CASE EndConnect
  BY <1>4 DEF EndConnect
<1>5. CASE OpenSQLite
  BY <1>5, AllocateEffect DEF OpenSQLite, DatabaseTypes
<1>6. CASE Disconnect
  BY <1>6, FaultType DEF Disconnect
<1>7. CASE ClearPointer
  BY <1>7 DEF ClearPointer
<1>8. CASE LinkBreaks
  BY <1>8 DEF LinkBreaks
<1> QED
  BY <1>1, <1>2, <1>3, <1>4, <1>5, <1>6, <1>7, <1>8 DEF OwnerStep

\* Where a thread may go is one of its steps, and it does not start to step
\* through a statement without an object.
LEMMA ThreadTypes ==
    ASSUME AnyInv, NEW t \in Users, ThreadStep(t), fault = "none", careful' \in BOOLEAN
    PROVE  AnyInv'
<1> USE DEF AnyInv, TypeOK, DanglesOnlyInDisconnect, Given, database, library, Goes, Returns, LetsGo,
       HasObject
<1>0. DOMAIN Inside \cup InCall \cup Tests \cup {"idle", "stepping"} \subseteq ThreadSteps
  BY DEF ThreadSteps, InCall, Tests
<1>00. /\ DOMAIN Inside = {"command", "store", "escape", "report", "sqlite", "errmsg"}
       /\ \A s \in DOMAIN Inside : Inside[s] \in InCall
  BY DEF Inside, InCall
<1>1. ASSUME NEW f \in Calls, Call(t, f)
      PROVE  AnyInv'
  BY <1>0, <1>1 DEF Call, Tests
<1>2. CASE IfMariaDB(t)
  BY <1>0, <1>00, <1>2 DEF IfMariaDB, Tests
<1>3. CASE IfSQLite(t)
  BY <1>0, <1>00, <1>3 DEF IfSQLite
<1>4. CASE BeginCall(t)
  <2>1. Inside[at[t]] \in InCall /\ fault' \in Faults
    BY <1>00, <1>4, FaultType DEF BeginCall
  <2>2. Inside[at[t]] # "stepping"
    BY <2>1 DEF InCall
  <2>3. at' \in [Users -> ThreadSteps] /\ held' \in [Users -> Objects \cup {NULL}]
    BY <1>0, <1>4, <2>1 DEF BeginCall
  <2>4. Given'
    BY <1>4, <2>2 DEF BeginCall
  <2> QED
    BY <1>4, <2>1, <2>3, <2>4 DEF BeginCall
<1>5. CASE EndQuery(t)
  <2>1. PICK to \in {"report", "store", "if_sqlite"} : Goes(t, to)
    BY <1>5 DEF EndQuery
  <2>2. at' \in [Users -> ThreadSteps] /\ held' \in [Users -> Objects \cup {NULL}]
    BY <1>0, <1>00, <1>5, <2>1 DEF EndQuery, Tests
  <2>3. unread' \in [Objects -> Users \cup {NoUser}]
    BY <1>5 DEF EndQuery
  <2>4. Given'
    BY <1>5, <2>1 DEF EndQuery
  <2> QED
    BY <1>5, <2>1, <2>2, <2>3, <2>4 DEF EndQuery
<1>6. CASE EndStore(t)
  <2>1. at' \in [Users -> ThreadSteps] /\ call' \in [Users -> Calls \cup {"none"}]
    BY <1>0, <1>00, <1>6 DEF EndStore, Tests
  <2>2. /\ held' \in [Users -> Objects \cup {NULL}]
        /\ unread' \in [Objects -> Users \cup {NoUser}]
        /\ rows' \in [Users -> Users \cup {NoUser}]
    BY <1>6 DEF EndStore
  <2>3. Given'
    BY <1>6 DEF EndStore
  <2> QED
    BY <1>6, <2>1, <2>2, <2>3 DEF EndStore
<1>7. CASE EndCall(t)
  BY <1>0, <1>7 DEF EndCall
<1>8. CASE EndSqlite(t)
  BY <1>0, <1>00, <1>8 DEF EndSqlite, Objects
<1>9. CASE EndStepping(t)
  <2>0. \/ UNCHANGED rows
        \/ \E whose \in {t, NoUser} : rows' = [rows EXCEPT ![t] = whose]
    BY ONLY <1>9 DEF EndStepping
  <2>1. at' \in [Users -> ThreadSteps] /\ call' \in [Users -> Calls \cup {"none"}]
        /\ held' \in [Users -> Objects \cup {NULL}] /\ rows' \in [Users -> Users \cup {NoUser}]
    BY <1>0, <1>9, <2>0 DEF EndStepping
  <2>2. unfinalized' \subseteq Objects
    BY <1>9 DEF EndStepping
  <2>3. Given'
    BY <1>9 DEF EndStepping
  <2> QED
    BY <1>9, <2>1, <2>2, <2>3 DEF EndStepping
<1> QED
  BY <1>1, <1>2, <1>3, <1>4, <1>5, <1>6, <1>7, <1>8, <1>9 DEF ThreadStep

LEMMA AnyStep == AnyInv /\ [Next]_vars => AnyInv'
<1> SUFFICES ASSUME AnyInv, [Next]_vars
             PROVE  AnyInv'
  OBVIOUS
<1>1. careful' \in BOOLEAN
  BY CarefulBefore DEF AnyInv
<1>2. CASE Next
  BY <1>1, <1>2, OwnerTypes, ThreadTypes DEF Next
<1>3. CASE UNCHANGED vars
  BY <1>3 DEF vars, database, library, thread, AnyInv, TypeOK, DanglesOnlyInDisconnect, Given,
     HasObject
<1> QED
  BY <1>2, <1>3

LEMMA AnyInit == Init => AnyInv
BY ObjectAssumption DEF Init, AnyInv, TypeOK, DanglesOnlyInDisconnect, Given, HasObject,
   DatabaseTypes, OwnerSteps, ThreadSteps, Faults

\* TypeOK is an invariant of every owner and module.
THEOREM DatabaseTypeCorrect == Spec => []TypeOK
BY AnyInit, AnyStep, PTL DEF Spec, AnyInv

\* Whatever its owner and the modules do, CDatabase points to an object that was
\* closed only while Disconnect is between the close and the statement after it.
THEOREM DanglesCorrect == Spec => []DanglesOnlyInDisconnect
BY AnyInit, AnyStep, PTL DEF Spec, AnyInv

-----------------------------------------------------------------------------
\* The object suits the type, unless Disconnect has closed it just now.
LEMMA ObjectSuits ==
    ASSUME AnyInv, Good, HasObject, owner # "clear"
    PROVE  /\ m_Pointed_db \in Objects /\ kind[m_Pointed_db] = m_eDatabasetype
           /\ UseFault(m_Pointed_db, m_eDatabasetype) = "none"
BY DEF AnyInv, TypeOK, HasObject, Good, DanglesOnlyInDisconnect, OnlyObject, UseFault, DatabaseTypes

\* When no thread is in a function, no result is left and none can be disturbed.
LEMMA QuietKeeps ==
    ASSUME AnyInv, Good, Quiet, UNCHANGED <<thread, rows>>
    PROVE  /\ \A o \in Objects : unread[o] = NoUser
           /\ RightPlace' /\ OneOnWire' /\ OwnResult' /\ AskerAlone' /\ AnswerOwn' /\ Quiet'
<1> USE DEF Good, Quiet, thread
<1>1. \A o \in Objects : unread[o] = NoUser
  BY DEF NoResultLeft, AnyInv, TypeOK, Reading
<1>2. RightPlace' /\ OneOnWire' /\ OwnResult'
  BY DEF RightPlace, OneOnWire, OwnResult, OfMariaDB, OfSQLite, InCall, OnWire, Reading
<1>3. AskerAlone' /\ AnswerOwn'
  BY DEF AskerAlone, AnswerOwn
<1> QED
  BY <1>1, <1>2, <1>3

LEMMA OwnerKeeps ==
    ASSUME AnyInv, Good, fault = "none", OwnerStep, careful, careful'
    PROVE  Good'
<1> USE DEF database, library, HasObject
<1>1. ASSUME NEW type \in DatabaseTypes, Connect(type)
      PROVE  Good'
  <2>1. ~HasObject
    BY <1>1 DEF Connect, Keeps
  <2>2. Quiet
    BY <2>1 DEF Quiet, Good, RightPlace
  <2>3. \A o \in Objects : kind[o] \notin DatabaseTypes
    BY <2>1 DEF Good, OnlyObject, Objects
  <2>4. OwnerSteady' /\ OnlyObject' /\ NoResultLeft'
    BY <1>1, <2>1, <2>2, <2>3, QuietKeeps
       DEF Connect, OwnerGoes, OwnerSteady, OnlyObject, NoResultLeft, DatabaseTypes
  <2> QED
    BY <1>1, <2>2, <2>4, QuietKeeps DEF Connect, Good, OwnerAlone
<1>2. CASE Quiet /\ (InitObject \/ OpenSQLite)
  <2>1. PICK type \in DatabaseTypes : Allocate(type) /\ m_eDatabasetype' = type /\ ~HasObject
    BY <1>2 DEF InitObject, OpenSQLite, OwnerGoes, Good, OwnerSteady, DatabaseTypes
  <2>2. m_Pointed_db' \in Objects /\ m_Pointed_db' # NULL /\ kind' = [kind EXCEPT ![m_Pointed_db'] = type]
    BY <2>1, AllocateEffect DEF AnyInv
  <2>3. \A o \in Objects : kind[o] \notin DatabaseTypes
    BY <2>1 DEF Good, OnlyObject, Objects
  <2>4. OnlyObject'
    BY <2>1, <2>2, <2>3 DEF OnlyObject, AnyInv, TypeOK
  <2>5. UNCHANGED <<thread, rows, unread, unfinalized, fault>>
    BY <1>2 DEF InitObject, OpenSQLite
  <2>6. OwnerSteady'
    BY <1>2, <2>2 DEF InitObject, OpenSQLite, OwnerGoes, OwnerSteady, Good
  <2>7. NoResultLeft'
    BY <1>2, <2>5, QuietKeeps DEF NoResultLeft
  <2> QED
    BY <1>2, <2>4, <2>5, <2>6, <2>7, QuietKeeps DEF Good, OwnerAlone
<1>3. CASE Quiet /\ BeginConnect
  <2>1. /\ UNCHANGED <<database, library, thread, rows>> /\ owner = "connect" /\ owner' = "connecting"
        /\ HasObject /\ m_eDatabasetype = MARIADB
    BY <1>3 DEF BeginConnect, OwnerGoes, AnyInv, Given, Good, OwnerSteady
  <2>2. ~Busy(m_Pointed_db)
    BY <1>3, <2>1 DEF Busy, Quiet, OnWire
  <2>3. fault' = "none"
    BY <1>3, <2>1, <2>2, ObjectSuits DEF BeginConnect, WireFault
  <2>4. OwnerSteady' /\ OnlyObject' /\ NoResultLeft'
    BY <1>3, <2>1, QuietKeeps DEF Good, OwnerSteady, OnlyObject, NoResultLeft
  <2> QED
    BY <1>3, <2>1, <2>3, <2>4, QuietKeeps DEF Good, OwnerAlone
<1>4. CASE Quiet /\ EndConnect
  <2>1. \A o \in Objects : unread'[o] = NoUser
    BY <1>4, QuietKeeps DEF EndConnect, AnyInv, TypeOK
  <2>2. OwnerSteady' /\ OnlyObject' /\ NoResultLeft'
    BY <1>4, <2>1 DEF EndConnect, OwnerGoes, Good, OwnerSteady, OnlyObject, NoResultLeft
  <2> QED
    BY <1>4, <2>2, QuietKeeps DEF EndConnect, OwnerGoes, Good, OwnerAlone
<1>5. CASE Disconnect
  <2>1. Quiet /\ owner = "idle" /\ owner' = "clear"
    BY <1>5 DEF Disconnect, Keeps, OwnerGoes
  <2>2. ~StatementOpen(m_Pointed_db)
    BY <2>1 DEF Good, StatementOpen, Quiet
  <2>3. fault' = "none"
    BY <1>5, <2>1, ObjectSuits DEF Disconnect, CloseFault, Quiet, InCall
  <2>4. \A o \in Objects : unread'[o] = NoUser
    BY <1>5, <2>1, QuietKeeps DEF Disconnect, AnyInv, TypeOK
  <2>5. OwnerSteady' /\ OnlyObject' /\ NoResultLeft'
    BY <1>5, <2>1, <2>2, <2>4
       DEF Disconnect, Good, OwnerSteady, OnlyObject, NoResultLeft, AnyInv, TypeOK, DatabaseTypes
  <2> QED
    BY <1>5, <2>1, <2>3, <2>5, QuietKeeps DEF Disconnect, Good, OwnerAlone
<1>6. CASE Quiet /\ ClearPointer
  <2>1. OnlyObject'
    BY <1>6 DEF ClearPointer, OwnerGoes, Good, OwnerSteady, OnlyObject, DatabaseTypes
  <2>2. OwnerSteady' /\ NoResultLeft'
    BY <1>6, QuietKeeps DEF ClearPointer, OwnerGoes, OwnerSteady, NoResultLeft
  <2> QED
    BY <1>6, <2>1, <2>2, QuietKeeps DEF ClearPointer, OwnerGoes, Good, OwnerAlone
<1>7. InitObject \/ BeginConnect \/ EndConnect \/ OpenSQLite \/ ClearPointer => Quiet
  BY DEF InitObject, BeginConnect, EndConnect, OpenSQLite, ClearPointer, OwnerGoes, Good, OwnerAlone
<1> QED
  BY <1>1, <1>2, <1>3, <1>4, <1>5, <1>6, <1>7 DEF OwnerStep

LEMMA BreakKeeps ==
    ASSUME AnyInv, Good, LinkBreaks
    PROVE  Good'
<1> USE DEF LinkBreaks, database, thread, Good
<1>1. PICK o \in link : kind[o] = MARIADB /\ link' = link \ {o}
  OBVIOUS
<1>2. RightPlace'
  <2>1. o = m_Pointed_db /\ m_eDatabasetype = MARIADB
    BY <1>1 DEF OnlyObject, AnyInv, TypeOK, DatabaseTypes
  <2> QED
    BY <2>1 DEF RightPlace, OfSQLite, HasObject
<1> QED
  BY <1>2 DEF OwnerAlone, Quiet, OwnerSteady, HasObject, OnlyObject, OneOnWire, OwnResult,
     NoResultLeft, AskerAlone, AnswerOwn

-----------------------------------------------------------------------------
(* The threads.                                                            *)

\* Thread t goes on, within its function or out of it.
LEMMA GoesOn ==
    ASSUME AnyInv, Good, NEW t \in Users, HasObject, UNCHANGED <<database, link>>,
           NEW to, at' = [at EXCEPT ![t] = to],
           NEW h, held' = [held EXCEPT ![t] = h],
           to \in OfMariaDB => m_eDatabasetype = MARIADB,
           to \in OfSQLite => m_eDatabasetype = SQLITE,
           to \in InCall \cup {"stepping"} => h = m_Pointed_db,
           to = "stepping" => h \in link,
           to \in OnWire => \A u \in Users \ {t} : at[u] \notin OnWire
    PROVE  RightPlace' /\ OneOnWire'
<1> USE DEF database, HasObject, Good, AnyInv, TypeOK
<1>1. at'[t] = to /\ held'[t] = h /\ \A u \in Users \ {t} : at'[u] = at[u] /\ held'[u] = held[u]
  OBVIOUS
<1>2. RightPlace'
  BY <1>1 DEF RightPlace
<1>3. OneOnWire'
  BY <1>1 DEF OneOnWire
<1> QED
  BY <1>2, <1>3

\* A thread in a function has the database to itself as far as the owner goes,
\* and its next step may at most disturb what is about queries.
LEMMA ThreadKeeps ==
    ASSUME AnyInv, Good, NEW t \in Users, at[t] # "idle",
           UNCHANGED <<database, kind, unfinalized, owner, fault>>,
           NEW to, at' = [at EXCEPT ![t] = to], call' \in {call, [call EXCEPT ![t] = "none"]}
    PROVE  /\ owner = "idle" /\ HasObject
           /\ fault' = "none" /\ unfinalized' = {}
           /\ OwnerAlone' /\ OwnerSteady' /\ OnlyObject' /\ AskerAlone'
<1> USE DEF database, HasObject, Good, AnyInv, TypeOK
<1>1. owner = "idle" /\ HasObject
  BY DEF OwnerAlone, Quiet, RightPlace
<1>2. \A u \in Users \ {t} : at'[u] = at[u] /\ call'[u] = call[u]
  OBVIOUS
<1>3. \A u \in Users : call'[u] = "IsConnected" => call[u] = "IsConnected"
  OBVIOUS
<1>4. AskerAlone'
  BY <1>2, <1>3 DEF AskerAlone
<1> QED
  BY <1>1, <1>4 DEF OwnerAlone, OwnerSteady, OnlyObject

\* A step that neither takes a query nor reads its answer.
LEMMA QueriesKeep ==
    ASSUME AnyInv, Good, NEW t \in Users, UNCHANGED <<database, unread>>,
           NEW to, at' = [at EXCEPT ![t] = to], to \in Reading <=> at[t] \in Reading
    PROVE  OwnResult' /\ NoResultLeft'
<1> USE DEF database, Good, AnyInv, TypeOK
<1>1. \A u \in Users : at'[u] \in Reading <=> at[u] \in Reading
  OBVIOUS
<1> QED
  BY <1>1 DEF OwnResult, NoResultLeft

LEMMA CallKeeps ==
    ASSUME AnyInv, Good, NEW t \in Users, NEW f \in Calls, Call(t, f), careful, careful'
    PROVE  Good'
<1> USE DEF Call, database, library, HasObject
<1>1. HasObject /\ owner = "idle" /\ (f = "IsConnected" => Quiet) /\ \A u \in Users : call[u] # "IsConnected"
  BY DEF Keeps
<1>2. RightPlace' /\ OneOnWire'
  <2>1. held' = [held EXCEPT ![t] = held[t]]
    BY DEF AnyInv, TypeOK
  <2>2. at' = [at EXCEPT ![t] = "if_mariadb"] /\ UNCHANGED <<database, link>>
    OBVIOUS
  <2>3. "if_mariadb" \notin OfMariaDB \cup OfSQLite \cup InCall \cup OnWire \cup {"stepping"}
    BY DEF OfMariaDB, OfSQLite, InCall, OnWire
  <2> HIDE DEF Call, database, library
  <2> QED
    BY <1>1, <2>1, <2>2, <2>3, GoesOn
<1>3. OwnResult' /\ NoResultLeft'
  BY QueriesKeep DEF Reading
<1>4. AskerAlone'
  BY <1>1 DEF AskerAlone, Quiet, AnyInv, TypeOK
<1>5. AnswerOwn'
  BY DEF Good, AnswerOwn, AnyInv, TypeOK
<1> QED
  BY <1>1, <1>2, <1>3, <1>4, <1>5 DEF Good, OwnerAlone, OwnerSteady, OnlyObject

LEMMA TestKeeps ==
    ASSUME AnyInv, Good, NEW t \in Users, IfMariaDB(t) \/ IfSQLite(t)
    PROVE  Good'
<1>1. PICK to \in {"escape", "command", "if_sqlite", "sqlite", "idle"} :
         /\ at' = [at EXCEPT ![t] = to] /\ call' \in {call, [call EXCEPT ![t] = "none"]}
         /\ to \in {"escape", "command"} => m_eDatabasetype = MARIADB
         /\ to = "sqlite" => m_eDatabasetype = SQLITE
  BY DEF IfMariaDB, IfSQLite, Goes, Returns
<1>2. at[t] \in Tests /\ UNCHANGED <<database, library, owner, held, rows, fault>>
  BY DEF IfMariaDB, IfSQLite, Tests
<1>3. /\ HasObject /\ fault' = "none" /\ unfinalized' = {}
      /\ OwnerAlone' /\ OwnerSteady' /\ OnlyObject' /\ AskerAlone'
  BY <1>1, <1>2, ThreadKeeps DEF library, Tests
<1>4. RightPlace' /\ OneOnWire'
  <2>1. held' = [held EXCEPT ![t] = held[t]]
    BY <1>2 DEF AnyInv, TypeOK
  <2> QED
    BY <1>1, <1>2, <1>3, <2>1, GoesOn DEF library, OfMariaDB, OfSQLite, InCall, OnWire
<1>5. OwnResult' /\ NoResultLeft'
  BY <1>1, <1>2, QueriesKeep DEF library, Reading, Tests
<1> QED
  BY <1>2, <1>3, <1>4, <1>5 DEF Good, AnswerOwn

LEMMA BeginCallKeeps ==
    ASSUME AnyInv, Good, NEW t \in Users, BeginCall(t), careful, careful'
    PROVE  Good'
<1>1. PICK from \in DOMAIN Inside : at[t] = from /\ at' = [at EXCEPT ![t] = Inside[from]]
  BY DEF BeginCall, Goes
<1>2. /\ UNCHANGED <<database, library, owner, call, rows>> /\ held' = [held EXCEPT ![t] = m_Pointed_db]
      /\ fault = "none" /\ from # "idle"
      /\ from \in {"command", "store"} => ~Busy(m_Pointed_db)
      /\ fault' = IF from \in {"command", "store"} THEN WireFault(m_Pointed_db)
                  ELSE UseFault(m_Pointed_db, IF from \in {"sqlite", "errmsg"} THEN SQLITE ELSE MARIADB)
  BY <1>1 DEF BeginCall, Goes, Keeps, Good, Inside
<1>3. owner = "idle" /\ HasObject
  BY <1>1, <1>2 DEF Good, OwnerAlone, Quiet, RightPlace
<1>4. /\ from \in {"command", "store", "escape", "report"} => m_eDatabasetype = MARIADB
      /\ from \in {"sqlite", "errmsg"} => m_eDatabasetype = SQLITE
      /\ from \in {"command", "store", "escape", "report", "sqlite", "errmsg"}
  BY <1>1 DEF Good, RightPlace, OfMariaDB, OfSQLite, Inside
<1>5. fault' = "none"
  BY <1>2, <1>3, <1>4, ObjectSuits DEF WireFault
<1>6. /\ OwnerAlone' /\ OwnerSteady' /\ OnlyObject' /\ AskerAlone' /\ unfinalized' = {}
  BY <1>1, <1>2, <1>5, ThreadKeeps DEF library
<1>7. RightPlace' /\ OneOnWire'
  <2>1. /\ Inside[from] \in OfMariaDB => m_eDatabasetype = MARIADB
        /\ Inside[from] \in OfSQLite => m_eDatabasetype = SQLITE
        /\ Inside[from] # "stepping"
        /\ Inside[from] \in OnWire => from \in {"command", "store"}
    BY <1>4 DEF Inside, OfMariaDB, OfSQLite, OnWire
  <2>2. ~Busy(m_Pointed_db) => \A u \in Users : at[u] \notin OnWire
    BY DEF Busy, Good, RightPlace, InCall, OnWire
  <2>3. UNCHANGED <<database, link>>
    BY <1>2 DEF library
  <2> QED
    BY <1>1, <1>2, <1>3, <2>1, <2>2, <2>3, GoesOn
<1>8. OwnResult' /\ NoResultLeft'
  <2>1. Inside[from] \in Reading <=> from \in Reading
    BY <1>4 DEF Inside, Reading
  <2> QED
    BY <1>1, <1>2, <2>1, QueriesKeep DEF library
<1> QED
  BY <1>2, <1>5, <1>6, <1>7, <1>8 DEF Good, AnswerOwn

\* A query that the server has taken: its result, if it has one, is the only one.
LEMMA EndQueryKeeps ==
    ASSUME AnyInv, Good, NEW t \in Users, EndQuery(t), careful, careful'
    PROVE  /\ Good'
           /\ at[t] = "sent" /\ UNCHANGED <<database, link, rows>>
           /\ \/ at' = [at EXCEPT ![t] = "report"]
              \/ at' = [at EXCEPT ![t] = "if_sqlite"]
              \/ /\ at' = [at EXCEPT ![t] = "store"]
                 /\ m_Pointed_db \in link /\ \A u \in Users : at[u] \notin Reading
<1>1. /\ at[t] = "sent" /\ held' = [held EXCEPT ![t] = NULL]
      /\ UNCHANGED <<database, kind, link, unfinalized, allocated, owner, call, rows, fault>>
  BY DEF EndQuery, LetsGo, Goes
<1>2. \/ at' = [at EXCEPT ![t] = "report"] /\ UNCHANGED unread
      \/ at' = [at EXCEPT ![t] = "if_sqlite"] /\ UNCHANGED unread
      \/ /\ at' = [at EXCEPT ![t] = "store"] /\ unread' = [unread EXCEPT ![held[t]] = t]
         /\ Accepts(held[t])
  <2>1. CASE Goes(t, "report") /\ UNCHANGED <<unread, careful>>
    BY <2>1 DEF Goes
  <2>2. ASSUME NEW selects \in BOOLEAN, Accepts(held[t]),
               Goes(t, IF call[t] = "ExecuteQuery" THEN "store" ELSE "if_sqlite"),
               Keeps(selects <=> call[t] = "ExecuteQuery"),
               unread' = IF selects THEN [unread EXCEPT ![held[t]] = t] ELSE unread
        PROVE  \/ at' = [at EXCEPT ![t] = "if_sqlite"] /\ UNCHANGED unread
               \/ /\ at' = [at EXCEPT ![t] = "store"] /\ unread' = [unread EXCEPT ![held[t]] = t]
                  /\ Accepts(held[t])
    BY <2>2 DEF Goes, Keeps
  <2> QED
    BY <2>1, <2>2 DEF EndQuery
<1>3. held[t] = m_Pointed_db /\ m_eDatabasetype = MARIADB
  BY <1>1 DEF Good, RightPlace, InCall, OfMariaDB
<1>4. PICK to \in {"report", "if_sqlite", "store"} :
         /\ at' = [at EXCEPT ![t] = to]
         /\ \/ to # "store" /\ UNCHANGED unread
            \/ to = "store" /\ unread' = [unread EXCEPT ![held[t]] = t] /\ Accepts(held[t])
  BY <1>2
<1>5. /\ HasObject /\ fault' = "none" /\ unfinalized' = {}
      /\ OwnerAlone' /\ OwnerSteady' /\ OnlyObject' /\ AskerAlone'
  BY <1>1, <1>4, ThreadKeeps
<1>6. RightPlace' /\ OneOnWire'
  BY <1>1, <1>3, <1>4, <1>5, GoesOn DEF OfMariaDB, OfSQLite, InCall, OnWire
<1>7. AnswerOwn'
  BY <1>1 DEF Good, AnswerOwn
<1>8. CASE UNCHANGED unread /\ to # "store"
  <2>1. OwnResult' /\ NoResultLeft'
    BY <1>1, <1>4, <1>8, QueriesKeep DEF Reading
  <2> QED
    BY <1>1, <1>4, <1>5, <1>6, <1>7, <1>8, <2>1 DEF Good
<1>9. CASE to = "store" /\ unread' = [unread EXCEPT ![m_Pointed_db] = t] /\ Accepts(m_Pointed_db)
  <2>1. m_Pointed_db \in Objects
    BY <1>5 DEF AnyInv, TypeOK, HasObject
  <2>2. \A u \in Users : at[u] \notin Reading
    BY <1>9, UserAssumption DEF Accepts, Good, OwnResult
  <2>3. \A o \in Objects : unread[o] = NoUser
    BY <1>9, <2>2 DEF Good, NoResultLeft, AnyInv, TypeOK
  <2>4. \A u \in Users : at'[u] \in Reading <=> u = t
    BY <1>4, <1>9, <2>2 DEF Reading, AnyInv, TypeOK
  <2>5. OwnResult' /\ NoResultLeft'
    BY <1>1, <1>9, <2>1, <2>3, <2>4 DEF OwnResult, NoResultLeft, database, AnyInv, TypeOK
  <2> QED
    BY <1>1, <1>4, <1>5, <1>6, <1>7, <1>9, <2>2, <2>5 DEF Good, Accepts
<1> QED
  BY <1>3, <1>4, <1>8, <1>9

\* Its answer is its own.
LEMMA EndStoreKeeps ==
    ASSUME AnyInv, Good, NEW t \in Users, EndStore(t)
    PROVE  /\ Good'
           /\ \A u \in Users : at[u] \in Reading <=> u = t
           /\ \A u \in Users : at'[u] \notin Reading
           /\ rows' = [rows EXCEPT ![t] = IF m_Pointed_db \in link THEN t ELSE NoUser]
           /\ HasObject /\ UNCHANGED <<database, link>>
<1>1. /\ at[t] = "storing" /\ held' = [held EXCEPT ![t] = NULL]
      /\ UNCHANGED <<database, kind, link, unfinalized, allocated, owner, fault>>
      /\ unread' = [unread EXCEPT ![held[t]] = NoUser]
      /\ rows' = [rows EXCEPT ![t] = IF held[t] \in link THEN unread[held[t]] ELSE NoUser]
      /\ call' \in {call, [call EXCEPT ![t] = "none"]}
  BY DEF EndStore, LetsGo, Goes, Returns
<1>2. PICK to \in {"report", "if_sqlite", "idle"} : at' = [at EXCEPT ![t] = to]
  BY DEF EndStore, Goes, Returns
<1>3. held[t] = m_Pointed_db /\ m_eDatabasetype = MARIADB /\ unread[m_Pointed_db] = t
  BY <1>1 DEF Good, RightPlace, InCall, OfMariaDB, OwnResult, Reading
<1>4. /\ HasObject /\ fault' = "none" /\ unfinalized' = {}
      /\ OwnerAlone' /\ OwnerSteady' /\ OnlyObject' /\ AskerAlone'
  BY <1>1, <1>2, ThreadKeeps
<1>5. RightPlace' /\ OneOnWire'
  BY <1>1, <1>2, <1>3, <1>4, GoesOn DEF OfMariaDB, OfSQLite, InCall, OnWire
<1>6. \A u \in Users : at[u] \in Reading <=> u = t
  BY <1>1, <1>3 DEF Good, OwnResult, Reading
<1>7. \A u \in Users : at'[u] \notin Reading
  BY <1>2, <1>6 DEF AnyInv, TypeOK, Reading
<1>8. OwnResult'
  BY <1>7 DEF OwnResult
<1>9. \A o \in Objects : unread'[o] = NoUser
  BY <1>1, <1>3, <1>6, UserAssumption DEF Good, NoResultLeft, AnyInv, TypeOK
<1>10. NoResultLeft'
  BY <1>9 DEF NoResultLeft
<1>11. rows' = [rows EXCEPT ![t] = IF m_Pointed_db \in link THEN t ELSE NoUser]
  BY <1>1, <1>3
<1>12. AnswerOwn'
  BY <1>11 DEF Good, AnswerOwn, AnyInv, TypeOK
<1> QED
  BY <1>1, <1>4, <1>5, <1>6, <1>7, <1>8, <1>10, <1>11, <1>12 DEF Good

\* The other ends of a call leave no result and take none.
LEMMA EndKeeps ==
    ASSUME AnyInv, Good, NEW t \in Users, careful, careful',
           EndCall(t) \/ EndSqlite(t) \/ EndStepping(t)
    PROVE  /\ Good' /\ UNCHANGED <<database, link>>
           /\ \A u \in Users : at'[u] \in Reading <=> at[u] \in Reading
<1>1. /\ UNCHANGED <<database, kind, link, unread, allocated, owner, fault>>
      /\ call' \in {call, [call EXCEPT ![t] = "none"]}
      /\ at[t] \in {"sent", "reporting", "in_errmsg", "escaping", "in_sqlite", "stepping"}
  BY DEF EndCall, EndSqlite, EndStepping, library, Goes, Returns
<1>2. UNCHANGED unfinalized
  <2>1. CASE EndStepping(t)
    BY <2>1 DEF EndStepping, Keeps
  <2> QED
    BY <2>1 DEF EndCall, EndSqlite, library
<1>3. PICK to \in {"idle", "errmsg", "stepping"} :
         /\ at' = [at EXCEPT ![t] = to]
         /\ to # "idle" => at[t] = "in_sqlite"
         /\ to = "stepping" => held[t] \in link /\ UNCHANGED held
         /\ to # "stepping" => held' = [held EXCEPT ![t] = NULL]
  BY DEF EndCall, EndSqlite, EndStepping, LetsGo, Goes, Returns
<1>4. /\ HasObject /\ fault' = "none" /\ unfinalized' = {}
      /\ OwnerAlone' /\ OwnerSteady' /\ OnlyObject' /\ AskerAlone'
  BY <1>1, <1>2, <1>3, ThreadKeeps
<1>5. to # "idle" => m_eDatabasetype = SQLITE /\ held[t] = m_Pointed_db
  BY <1>3 DEF Good, RightPlace, OfSQLite, InCall
<1>6. RightPlace' /\ OneOnWire'
  <2>1. PICK h : held' = [held EXCEPT ![t] = h] /\ (to = "stepping" => h = held[t])
    BY <1>3 DEF AnyInv, TypeOK
  <2> QED
    BY <1>1, <1>3, <1>4, <1>5, <2>1, GoesOn DEF OfMariaDB, OfSQLite, InCall, OnWire
<1>7. OwnResult' /\ NoResultLeft'
  BY <1>1, <1>3, QueriesKeep DEF Reading
<1>8. AnswerOwn'
  <2>1. UNCHANGED rows \/ \E whose \in {t, NoUser} : rows' = [rows EXCEPT ![t] = whose]
    BY DEF EndCall, EndSqlite, EndStepping
  <2> QED
    BY <2>1 DEF Good, AnswerOwn, AnyInv, TypeOK
<1>9. \A u \in Users : at'[u] \in Reading <=> at[u] \in Reading
  BY <1>1, <1>3 DEF Reading, AnyInv, TypeOK
<1> QED
  BY <1>1, <1>4, <1>6, <1>7, <1>8, <1>9 DEF Good

LEMMA ThreadGood ==
    ASSUME AnyInv, Good, NEW t \in Users, ThreadStep(t), careful, careful'
    PROVE  Good'
BY CallKeeps, TestKeeps, BeginCallKeeps, EndQueryKeeps, EndStoreKeeps, EndKeeps DEF ThreadStep

LEMMA CarefulStep == AnyInv /\ Kept /\ [Next]_vars => Kept'
<1> SUFFICES ASSUME AnyInv, Kept, [Next]_vars, careful'
             PROVE  Good'
  BY DEF Kept
<1>1. careful /\ Good
  BY CarefulBefore DEF AnyInv, Kept
<1>2. CASE Next
  BY <1>1, <1>2, OwnerKeeps, BreakKeeps, ThreadGood DEF Next
<1>3. CASE UNCHANGED vars
  BY <1>1, <1>3 DEF vars, database, library, thread, Good, OwnerAlone, Quiet, OwnerSteady, HasObject,
     OnlyObject, RightPlace, OneOnWire, OwnResult, NoResultLeft, AskerAlone, AnswerOwn
<1> QED
  BY <1>2, <1>3

LEMMA CarefulInvariant == Spec => [](AnyInv /\ Kept)
<1>1. Init => Kept
  BY DEF Init, Kept, Good, OwnerAlone, OwnerSteady, OnlyObject, RightPlace, OneOnWire, OwnResult,
     NoResultLeft, AskerAlone, AnswerOwn, HasObject, DatabaseTypes, OfMariaDB, OfSQLite, InCall,
     OnWire, Reading
<1> QED
  BY <1>1, AnyInit, AnyStep, CarefulStep, PTL DEF Spec

\* As long as the rules are kept, no library gets the wrong pointer, no two
\* threads are on the wire of one object, and none is closed under a call.
THEOREM DatabaseNoFault == Spec => []NoFault
<1>1. Kept => NoFault
  BY DEF Kept, Good, NoFault
<1> QED
  BY <1>1, CarefulInvariant, PTL

\* As long as the rules are kept, no object leaks, and Disconnect closes it
\* with the right library.
THEOREM DatabaseNothingLost == Spec => []NothingLost
<1>1. Kept => NothingLost
  BY DEF Kept, Good, OnlyObject, NothingLost
<1> QED
  BY <1>1, CarefulInvariant, PTL

\* As long as the rules are kept, no thread gets the rows of another thread's
\* query.
THEOREM DatabaseOwnRows == Spec => []OwnRows
<1>1. Kept => OwnRows
  BY DEF Kept, Good, OwnRows
<1> QED
  BY <1>1, CarefulInvariant, PTL

\* As long as the rules are kept, IsConnected never takes a live connection for
\* a lost one: no query of any thread has left a result in the object.
THEOREM NoFalseAlarmCorrect == Spec => []NoFalseAlarm
<1>1. AnyInv /\ Kept => NoFalseAlarm
  <2> SUFFICES ASSUME AnyInv, Good, NEW t \in Users, at[t] = "sent", call[t] = "IsConnected",
                      held[t] \in link
               PROVE  Accepts(held[t])
    BY DEF Kept, NoFalseAlarm
  <2>1. held[t] \in Objects
    BY DEF AnyInv, TypeOK
  <2>2. \A u \in Users : at[u] \notin Reading
    BY DEF Good, AskerAlone, Reading
  <2>3. unread[held[t]] = NoUser
    BY <2>1, <2>2 DEF Good, NoResultLeft, AnyInv, TypeOK
  <2> QED
    BY <2>3 DEF Accepts
<1> QED
  BY <1>1, CarefulInvariant, PTL

-----------------------------------------------------------------------------
(* As long as the rules are kept, Database implements SharedConnection.    *)

LEMMA SharedInit == Init => Shared!Init
BY DEF Init, Shared!Init, Connection, Asking

\* A step that touches neither the object nor a query.
LEMMA SharedStutters ==
    ASSUME UNCHANGED <<m_Pointed_db, link, rows>>,
           \A u \in Users : at'[u] \in Reading <=> at[u] \in Reading
    PROVE  UNCHANGED Shared!shared
<1>1. Asking' = Asking
  BY DEF Asking, Reading
<1> QED
  BY <1>1 DEF Shared!shared, Connection

\* The owner works on the connection only when nobody asks.
LEMMA OwnerTakesTurns ==
    ASSUME AnyInv, Good, OwnerStep, careful, careful'
    PROVE  [Shared!Next]_(Shared!shared)
<1> USE DEF database, library, thread, HasObject, Reading
<1>1. CASE \/ \E type \in DatabaseTypes : Connect(type)
           \/ BeginConnect
  BY <1>1, SharedStutters DEF Connect, BeginConnect
<1>2. UNCHANGED <<thread, rows, Asking>>
  BY DEF OwnerStep, Connect, InitObject, BeginConnect, EndConnect, OpenSQLite, Disconnect,
     ClearPointer, Asking
<1>3. CASE Quiet /\ (InitObject \/ EndConnect \/ OpenSQLite \/ Disconnect \/ ClearPointer)
  <2>1. Asking = {}
    BY <1>3 DEF Quiet, Asking
  <2>2. CASE InitObject \/ OpenSQLite
    <3>1. PICK type \in DatabaseTypes : Allocate(type) /\ ~HasObject
      BY <2>2 DEF InitObject, OpenSQLite, OwnerGoes, Good, OwnerSteady, DatabaseTypes
    <3>2. Connection = "absent" /\ Connection' \in {"live", "lost"}
      BY <3>1, AllocateEffect DEF AnyInv, Connection
    <3> QED
      BY <1>2, <2>1, <3>2 DEF Shared!Next, Shared!Connect
  <2>3. CASE EndConnect
    <3>1. CASE UNCHANGED link
      BY <1>2, <2>3, <3>1 DEF EndConnect, Connection, Shared!shared
    <3>2. CASE m_Pointed_db \notin link /\ link' = link \cup {m_Pointed_db}
      <4>1. Connection = "lost" /\ Connection' = "live"
        BY <2>3, <3>2 DEF EndConnect, OwnerGoes, AnyInv, Given, Connection
      <4> QED
        BY <1>2, <2>1, <4>1 DEF Shared!Next, Shared!Connect
    <3> QED
      BY <2>3, <3>1, <3>2 DEF EndConnect
  <2>4. CASE Disconnect
    <3>1. UNCHANGED m_Pointed_db /\ (UNCHANGED link \/ (HasObject /\ link' = link \ {m_Pointed_db}))
      BY <2>4 DEF Disconnect
    <3>2. Connection' = Connection \/ (Connection = "live" /\ Connection' = "lost")
      BY <3>1 DEF Connection
    <3> QED
      BY <1>2, <3>2 DEF Shared!Next, Shared!Lose, Shared!shared
  <2>5. CASE ClearPointer
    <3>1. Connection' = "absent"
      BY <2>5 DEF ClearPointer, Connection
    <3> QED
      BY <1>2, <2>1, <3>1 DEF Shared!Next, Shared!Disconnect
  <2> QED
    BY <1>3, <2>2, <2>3, <2>4, <2>5
<1>4. InitObject \/ EndConnect \/ OpenSQLite \/ Disconnect \/ ClearPointer => Quiet
  BY DEF InitObject, EndConnect, OpenSQLite, Disconnect, Keeps, ClearPointer, OwnerGoes, Good, OwnerAlone
<1> QED
  BY <1>1, <1>3, <1>4 DEF OwnerStep

LEMMA BreakTakesTurns ==
    ASSUME AnyInv, Good, LinkBreaks
    PROVE  [Shared!Next]_(Shared!shared)
<1>1. PICK o \in link : kind[o] = MARIADB /\ link' = link \ {o}
  BY DEF LinkBreaks
<1>2. o = m_Pointed_db /\ m_Pointed_db # NULL
  BY <1>1 DEF AnyInv, TypeOK, Good, OnlyObject, Objects, DatabaseTypes
<1>3. Connection = "live" /\ Connection' = "lost" /\ UNCHANGED <<Asking, rows>>
  BY <1>1, <1>2 DEF LinkBreaks, database, thread, Connection, Asking
<1> QED
  BY <1>3 DEF Shared!Next, Shared!Lose

LEMMA CallTakesTurns ==
    ASSUME AnyInv, Good, NEW t \in Users, NEW f \in Calls, Call(t, f), careful, careful'
    PROVE  [Shared!Next]_(Shared!shared)
<1>1. /\ HasObject /\ at[t] = "idle" /\ at' = [at EXCEPT ![t] = "if_mariadb"]
      /\ rows' = IF f = "ExecuteQuery" THEN [rows EXCEPT ![t] = NoUser] ELSE rows
      /\ UNCHANGED <<m_Pointed_db, link>>
  BY DEF Call, Keeps, database, library
<1>2. \A u \in Users : at'[u] \in Reading <=> at[u] \in Reading
  BY <1>1 DEF AnyInv, TypeOK, Reading
<1>3. CASE UNCHANGED rows
  BY <1>1, <1>2, <1>3, SharedStutters
<1>4. CASE rows' = [rows EXCEPT ![t] = NoUser]
  <2>1. UNCHANGED <<Asking, Connection>> /\ t \notin Asking /\ Connection # "absent"
    BY <1>1, <1>2 DEF Asking, Connection, HasObject, Reading
  <2> QED
    BY <1>4, <2>1 DEF Shared!Next, Shared!Begin, Shared!Gets
<1> QED
  BY <1>1, <1>3, <1>4

\* Tests and beginnings of calls change nothing.
LEMMA BetweenTakesTurns ==
    ASSUME AnyInv, Good, NEW t \in Users, IfMariaDB(t) \/ IfSQLite(t) \/ BeginCall(t)
    PROVE  UNCHANGED Shared!shared
<1>1. UNCHANGED <<m_Pointed_db, link, rows>>
  BY DEF IfMariaDB, IfSQLite, BeginCall, database, library
<1>2. CASE IfMariaDB(t) \/ IfSQLite(t)
  <2>1. PICK to \in {"escape", "command", "if_sqlite", "sqlite", "idle"} :
           at[t] \in Tests /\ at' = [at EXCEPT ![t] = to]
    BY <1>2 DEF IfMariaDB, IfSQLite, Goes, Returns, Tests
  <2>2. \A u \in Users : at'[u] \in Reading <=> at[u] \in Reading
    BY <2>1 DEF AnyInv, TypeOK, Reading, Tests
  <2> QED
    BY <1>1, <2>2, SharedStutters
<1>3. CASE BeginCall(t)
  <2>1. PICK from \in DOMAIN Inside : at[t] = from /\ at' = [at EXCEPT ![t] = Inside[from]]
    BY <1>3 DEF BeginCall, Goes
  <2>2. Inside[from] \in Reading <=> from \in Reading
    BY <2>1 DEF Inside, Reading
  <2>3. \A u \in Users : at'[u] \in Reading <=> at[u] \in Reading
    BY <2>1, <2>2 DEF AnyInv, TypeOK
  <2> QED
    BY <1>1, <2>3, SharedStutters
<1> QED
  BY <1>2, <1>3

\* The first call of a query waits for all others, although nothing locks it.
LEMMA EndQueryTakesTurns ==
    ASSUME AnyInv, Good, NEW t \in Users, EndQuery(t), careful, careful'
    PROVE  [Shared!Next]_(Shared!shared)
<1>1. at[t] = "sent" /\ UNCHANGED <<m_Pointed_db, link, rows>>
  BY EndQueryKeeps DEF database
<1>2. CASE at' = [at EXCEPT ![t] = "report"] \/ at' = [at EXCEPT ![t] = "if_sqlite"]
  <2>1. \A u \in Users : at'[u] \in Reading <=> at[u] \in Reading
    BY <1>1, <1>2 DEF AnyInv, TypeOK, Reading
  <2> QED
    BY <1>1, <2>1, SharedStutters
<1>3. CASE /\ at' = [at EXCEPT ![t] = "store"]
           /\ m_Pointed_db \in link /\ \A u \in Users : at[u] \notin Reading
  <2>1. Asking = {} /\ Asking' = {t}
    BY <1>3 DEF Asking, Reading, AnyInv, TypeOK
  <2>2. Connection = "live" /\ Connection' = Connection
    BY <1>1, <1>3 DEF AnyInv, TypeOK, Objects, Connection
  <2> QED
    BY <1>1, <2>1, <2>2 DEF Shared!Next, Shared!Ask
<1> QED
  BY <1>2, <1>3, EndQueryKeeps

LEMMA EndStoreTakesTurns ==
    ASSUME AnyInv, Good, NEW t \in Users, EndStore(t)
    PROVE  [Shared!Next]_(Shared!shared)
<1>1. Asking = {t} /\ Asking' = {}
  BY EndStoreKeeps DEF Asking, Reading
<1>2. Connection' = Connection /\ (Connection = "live" <=> m_Pointed_db \in link)
  BY EndStoreKeeps DEF database, Connection, HasObject
<1>3. rows' = [rows EXCEPT ![t] = IF Connection = "live" THEN t ELSE NoUser]
  BY <1>2, EndStoreKeeps
<1> QED
  BY <1>1, <1>2, <1>3 DEF Shared!Next, Shared!Answer, Shared!Gets

LEMMA EndTakesTurns ==
    ASSUME AnyInv, Good, NEW t \in Users, careful, careful',
           EndCall(t) \/ EndSqlite(t) \/ EndStepping(t)
    PROVE  [Shared!Next]_(Shared!shared)
<1>1. UNCHANGED <<m_Pointed_db, link>> /\ \A u \in Users : at'[u] \in Reading <=> at[u] \in Reading
  BY EndKeeps DEF database
<1>2. CASE UNCHANGED rows
  BY <1>1, <1>2, SharedStutters
<1>3. CASE EndStepping(t)
  <2>1. PICK whose \in {t, NoUser} : rows' = [rows EXCEPT ![t] = whose]
    BY <1>3 DEF EndStepping, Keeps
  <2>2. Connection = "live" /\ UNCHANGED <<Connection, Asking>>
    BY <1>1, <1>3 DEF EndStepping, Good, RightPlace, AnyInv, Given, Connection, Asking, Reading
  <2>3. Asking = {}
    BY <1>3 DEF EndStepping, Good, RightPlace, OfMariaDB, OfSQLite, Asking
  <2> QED
    BY <2>1, <2>2, <2>3 DEF Shared!Next, Shared!Begin, Shared!Query, Shared!Gets
<1> QED
  BY <1>2, <1>3 DEF EndCall, EndSqlite

LEMMA ThreadTakesTurns ==
    ASSUME AnyInv, Good, NEW t \in Users, ThreadStep(t), careful, careful'
    PROVE  [Shared!Next]_(Shared!shared)
BY CallTakesTurns, BetweenTakesTurns, EndQueryTakesTurns, EndStoreTakesTurns, EndTakesTurns
   DEF ThreadStep

LEMMA StepTakesTurns ==
    AnyInv /\ Kept /\ [Next]_vars => [careful' => [Shared!Next]_(Shared!shared)]_vars
<1> SUFFICES ASSUME AnyInv, Kept, Next, careful'
             PROVE  [Shared!Next]_(Shared!shared)
  OBVIOUS
<1>1. careful /\ Good
  BY CarefulBefore DEF AnyInv, Kept
<1> QED
  BY <1>1, OwnerTakesTurns, BreakTakesTurns, ThreadTakesTurns DEF Next

\* As long as the rules are kept, the queries of any number of threads take turns
\* on the connection, although each is two calls and nothing locks it.
THEOREM TurnsCorrect == Spec => QueriesTakeTurns
BY CarefulInvariant, SharedInit, StepTakesTurns, PTL DEF Spec, QueriesTakeTurns

=============================================================================
