------------------------------ MODULE Database ------------------------------
(***************************************************************************)
(* CDatabase (Database.cpp) and the functions that use it: ExecuteQuery of *)
(* CResultSet, mdk_only_run_query and mdk_escape_query_string (Query.cpp). *)
(*                                                                         *)
(* One CDatabase belongs to the master server, which connects and          *)
(* disconnects it, and is handed to every module by CThreadServer::Start:  *)
(* the threads of the modules send statements over it.  Nothing locks it.  *)
(* Every read of the type and every library call is a step of its own, and *)
(* a library call has a beginning, at which it is given the pointer that   *)
(* the object has then, and an end: in between it works on that object,    *)
(* whatever becomes of the pointer.                                        *)
(*                                                                         *)
(* External: the connector (one thread at a time may use a MYSQL object to *)
(* talk to the server; an object that holds an unread result refuses any   *)
(* further command) and SQLite (serialized: calls on one object exclude    *)
(* each other; an open that fails gives an object all the same; an object  *)
(* with a statement that was not finalized is not closed).                 *)
(*                                                                         *)
(* What the owner and the modules may do is not restricted: the history    *)
(* variable careful says whether all of them have kept the rules so far.   *)
(***************************************************************************)
EXTENDS Integers

CONSTANTS
    Users,        \* the module threads
    NoUser,
    MaxObjects    \* bound: objects the two libraries allocate in a behaviour

ASSUME UserAssumption == NoUser \notin Users
ASSUME ObjectAssumption == MaxObjects \in Nat \ {0}

NULL == 0
Objects == 1 .. MaxObjects
MARIADB == "DATABASE_TYPE_MARIADB"
SQLITE == "DATABASE_TYPE_SQLITE"
DatabaseTypes == {MARIADB, SQLITE}

VARIABLES
    m_eDatabasetype,
    m_Pointed_db,
    kind,        \* what each object is: a MYSQL, a sqlite3, or released
    link,        \* objects with an open connection or file
    unread,      \* whose result the object holds that nobody has stored yet
    unfinalized, \* sqlite3 objects with a statement that was not finalized
    allocated,   \* objects allocated so far
    owner,       \* where the owner is in Connect or Disconnect
    call,        \* the function each thread has called
    at,          \* where it is in it
    held,        \* the object that its library call was given
    rows,        \* whose rows the last ExecuteQuery of each thread returned
    fault,
    careful      \* history: every step so far has kept the rules

database == <<m_eDatabasetype, m_Pointed_db>>
library == <<kind, link, unread, unfinalized, allocated>>
thread == <<call, at, held>>
vars == <<database, library, owner, thread, rows, fault, careful>>

(***************************************************************************)
(* The tests and the library calls of the functions, and where a thread is *)
(* during each of those calls.  Between sqlite3_prepare_v2 and             *)
(* sqlite3_finalize ("stepping") it has a statement of the object open.    *)
(***************************************************************************)
Calls == {"ExecuteQuery", "mdk_only_run_query", "IsConnected", "mdk_escape_query_string"}
Tests == {"if_mariadb", "if_sqlite"}
Inside == [command |-> "sent", store |-> "storing", escape |-> "escaping", report |-> "reporting",
           sqlite |-> "in_sqlite", errmsg |-> "in_errmsg"]
InCall == {"sent", "storing", "escaping", "reporting", "in_sqlite", "in_errmsg"}
OnWire == {"sent", "storing"}
ThreadSteps == {"idle", "stepping"} \cup Tests \cup DOMAIN Inside \cup InCall

OwnerSteps == {"idle", "init", "connect", "connecting", "open", "clear"}
Faults == {"none", "null_database", "type_confusion", "use_after_free", "overlap"}

TypeOK ==
    /\ m_eDatabasetype \in DatabaseTypes
    /\ m_Pointed_db \in Objects \cup {NULL}
    /\ kind \in [Objects -> DatabaseTypes \cup {"none", "released"}]
    /\ link \subseteq Objects
    /\ unread \in [Objects -> Users \cup {NoUser}]
    /\ unfinalized \subseteq Objects
    /\ allocated \in 0 .. MaxObjects
    /\ owner \in OwnerSteps
    /\ call \in [Users -> Calls \cup {"none"}]
    /\ at \in [Users -> ThreadSteps]
    /\ held \in [Users -> Objects \cup {NULL}]
    /\ rows \in [Users -> Users \cup {NoUser}]
    /\ fault \in Faults
    /\ careful \in BOOLEAN

Init ==
    /\ m_eDatabasetype = MARIADB
    /\ m_Pointed_db = NULL
    /\ kind = [o \in Objects |-> "none"]
    /\ link = {}
    /\ unread = [o \in Objects |-> NoUser]
    /\ unfinalized = {}
    /\ allocated = 0
    /\ owner = "idle"
    /\ call = [t \in Users |-> "none"]
    /\ at = [t \in Users |-> "idle"]
    /\ held = [t \in Users |-> NULL]
    /\ rows = [t \in Users |-> NoUser]
    /\ fault = "none"
    /\ careful = TRUE

Keeps(rule) == careful' = (careful /\ rule)

Quiet == \A t \in Users : at[t] = "idle"
HasObject == m_Pointed_db # NULL

\* Somebody talks to the server through the object.
Busy(o) ==
    \/ \E t \in Users : held[t] = o /\ at[t] \in OnWire
    \/ owner = "connecting" /\ o = m_Pointed_db

\* What is wrong with the pointer p for a function of the given library;
\* SQLite refuses a null pointer.
UseFault(p, type) ==
    IF p = NULL THEN (IF type = MARIADB THEN "null_database" ELSE "none")
    ELSE IF kind[p] = "released" THEN "use_after_free"
    ELSE IF kind[p] # type THEN "type_confusion" ELSE "none"

\* The same for a function that talks to the MariaDB server.
WireFault(p) ==
    IF UseFault(p, MARIADB) = "none" /\ Busy(p) THEN "overlap" ELSE UseFault(p, MARIADB)

-----------------------------------------------------------------------------
(* The owner: Connect and Disconnect.  It is one thread.                   *)

OwnerGoes(from, to) == owner = from /\ owner' = to

Allocate(type) ==
    /\ allocated < MaxObjects
    /\ allocated' = allocated + 1
    /\ kind' = [kind EXCEPT ![allocated'] = type]
    /\ m_Pointed_db' = allocated'

\* Mutant: the database type is not stored.
Connect_Untyped(type) ==
    /\ OwnerGoes("idle", IF type = MARIADB THEN "init" ELSE "open")
    /\ Keeps(~HasObject)
    /\ UNCHANGED <<database, library, thread, rows, fault>>

Connect(type) ==
    /\ OwnerGoes("idle", IF type = MARIADB THEN "init" ELSE "open")
    /\ m_eDatabasetype' = type
    /\ Keeps(~HasObject)
    /\ UNCHANGED <<m_Pointed_db, library, thread, rows, fault>>

\* The MYSQL object is made once, stored before it is connected, and kept when
\* the connection fails.  (mysql_init has memory.)
InitObject ==
    /\ OwnerGoes("init", "connect")
    /\ \/ HasObject /\ UNCHANGED <<m_Pointed_db, kind, allocated>>
       \/ ~HasObject /\ Allocate(MARIADB)
    /\ UNCHANGED <<m_eDatabasetype, link, unread, unfinalized, thread, rows, fault, careful>>

\* mysql_options, and mysql_real_connect begins.
BeginConnect ==
    /\ OwnerGoes("connect", "connecting")
    /\ fault' = WireFault(m_Pointed_db)
    /\ UNCHANGED <<database, library, thread, rows, careful>>

\* It fails on an object that is connected, and may fail on any other.
EndConnect ==
    /\ OwnerGoes("connecting", "idle")
    /\ \/ UNCHANGED <<link, unread>>
       \/ /\ m_Pointed_db \notin link
          /\ link' = link \cup {m_Pointed_db}
          /\ unread' = [unread EXCEPT ![m_Pointed_db] = NoUser]
    /\ UNCHANGED <<database, kind, unfinalized, allocated, thread, rows, fault, careful>>

\* sqlite3_open_v2 stores a new object over the pointer, whether or not it
\* could open the file.
OpenSQLite ==
    /\ OwnerGoes("open", "idle")
    /\ Allocate(SQLITE)
    /\ link' = link \/ link' = link \cup {m_Pointed_db'}
    /\ UNCHANGED <<m_eDatabasetype, unread, unfinalized, thread, rows, fault, careful>>

(***************************************************************************)
(* Disconnect: the library of the present type closes the object, and its  *)
(* answer is not looked at.  mysql_close takes any object, even one that a *)
(* thread is working on; sqlite3_close returns SQLITE_BUSY, and does       *)
(* nothing, when a statement of the object is open.                        *)
(***************************************************************************)
CloseFault(p) ==
    IF p = NULL THEN "none"
    ELSE IF \E t \in Users : held[t] = p /\ at[t] \in InCall THEN "use_after_free"
    ELSE UseFault(p, m_eDatabasetype)

StatementOpen(o) == o \in unfinalized \/ \E t \in Users : held[t] = o /\ at[t] = "stepping"

\* Mutant: the pointer is cleared, the object is not closed.
Disconnect_Leaks ==
    /\ OwnerGoes("idle", "clear")
    /\ Keeps(Quiet)
    /\ UNCHANGED <<database, library, thread, rows, fault>>

Disconnect ==
    /\ OwnerGoes("idle", "clear")
    /\ Keeps(Quiet)
    /\ fault' = CloseFault(m_Pointed_db)
    /\ IF ~HasObject \/ StatementOpen(m_Pointed_db)
       THEN UNCHANGED <<kind, link, unread>>
       ELSE /\ kind' = [kind EXCEPT ![m_Pointed_db] = "released"]
            /\ link' = link \ {m_Pointed_db}
            /\ unread' = [unread EXCEPT ![m_Pointed_db] = NoUser]
    /\ UNCHANGED <<database, unfinalized, allocated, thread, rows>>

\* Mutant: the pointer is kept.
ClearPointer_Keeps ==
    /\ OwnerGoes("clear", "idle")
    /\ UNCHANGED <<database, library, thread, rows, fault, careful>>

\* Mutant: the type is forgotten with the pointer.
ClearPointer_Untyped ==
    /\ OwnerGoes("clear", "idle")
    /\ m_Pointed_db' = NULL /\ m_eDatabasetype' = "none"
    /\ UNCHANGED <<library, thread, rows, fault, careful>>

\* The pointer is cleared only after that.
ClearPointer ==
    /\ OwnerGoes("clear", "idle")
    /\ m_Pointed_db' = NULL
    /\ UNCHANGED <<m_eDatabasetype, library, thread, rows, fault, careful>>

\* The server closes a MariaDB connection.
LinkBreaks ==
    /\ \E o \in link : kind[o] = MARIADB /\ link' = link \ {o}
    /\ UNCHANGED <<database, kind, unread, unfinalized, allocated, owner, thread, rows, fault, careful>>

-----------------------------------------------------------------------------
(* Thread t: ExecuteQuery, mdk_only_run_query, IsConnected and             *)
(* mdk_escape_query_string.                                                *)

Goes(t, to) == at' = [at EXCEPT ![t] = to] /\ UNCHANGED call
Returns(t) == at' = [at EXCEPT ![t] = "idle"] /\ call' = [call EXCEPT ![t] = "none"]
LetsGo(t) == held' = [held EXCEPT ![t] = NULL]

\* mdk_only_run_query and IsConnected look at the pointer first and return
\* false when it is null.
Call(t, f) ==
    /\ at[t] = "idle"
    /\ f \in {"mdk_only_run_query", "IsConnected"} => HasObject
    /\ call' = [call EXCEPT ![t] = f]
    /\ at' = [at EXCEPT ![t] = "if_mariadb"]
    /\ rows' = IF f = "ExecuteQuery" THEN [rows EXCEPT ![t] = NoUser] ELSE rows
    /\ Keeps(/\ HasObject /\ owner = "idle"
             /\ f = "IsConnected" => Quiet
             /\ \A u \in Users : call[u] # "IsConnected")
    /\ UNCHANGED <<database, library, owner, held, fault>>

IfMariaDB(t) ==
    /\ at[t] = "if_mariadb"
    /\ \/ /\ m_eDatabasetype = MARIADB
          /\ Goes(t, IF call[t] = "mdk_escape_query_string" THEN "escape" ELSE "command")
       \/ /\ m_eDatabasetype # MARIADB
          /\ IF call[t] \in {"ExecuteQuery", "mdk_only_run_query"}
             THEN Goes(t, "if_sqlite") ELSE Returns(t)
    /\ UNCHANGED <<database, library, owner, held, rows, fault, careful>>

IfSQLite(t) ==
    /\ at[t] = "if_sqlite"
    /\ IF m_eDatabasetype = SQLITE THEN Goes(t, "sqlite") ELSE Returns(t)
    /\ UNCHANGED <<database, library, owner, held, rows, fault, careful>>

\* GetDatabasePointer is asked again for every library call, which begins.
BeginCall(t) ==
    /\ at[t] \in DOMAIN Inside
    /\ held' = [held EXCEPT ![t] = m_Pointed_db]
    /\ Goes(t, Inside[at[t]])
    /\ fault' = IF at[t] \in {"command", "store"} THEN WireFault(m_Pointed_db)
                ELSE UseFault(m_Pointed_db, IF at[t] \in {"sqlite", "errmsg"} THEN SQLITE ELSE MARIADB)
    /\ Keeps(at[t] \in {"command", "store"} => ~Busy(m_Pointed_db))
    /\ UNCHANGED <<database, library, owner, rows>>

\* The connector takes a command for the object.
Accepts(o) == o \in link /\ unread[o] = NoUser

\* Mutant: the result of mysql_query is not looked at.
EndQuery_Unchecked(t) ==
    /\ at[t] = "sent" /\ call[t] # "IsConnected"
    /\ LetsGo(t)
    /\ Goes(t, IF call[t] = "ExecuteQuery" THEN "store" ELSE "if_sqlite")
    /\ \/ UNCHANGED <<unread, careful>>
       \/ /\ Accepts(held[t])
          /\ \E selects \in BOOLEAN :
                /\ Keeps(selects <=> call[t] = "ExecuteQuery")
                /\ unread' = IF selects THEN [unread EXCEPT ![held[t]] = t] ELSE unread
    /\ UNCHANGED <<database, kind, link, unfinalized, allocated, owner, rows, fault>>

(***************************************************************************)
(* mysql_query of a statement that has a result (selects) or has none.  It *)
(* fails when the object is not connected, holds an unread result, or the  *)
(* server refuses the statement.  mdk_only_run_query leaves a result       *)
(* unread.                                                                 *)
(***************************************************************************)
EndQuery(t) ==
    /\ at[t] = "sent" /\ call[t] # "IsConnected"
    /\ LetsGo(t)
    /\ \/ Goes(t, "report") /\ UNCHANGED <<unread, careful>>
       \/ /\ Accepts(held[t])
          /\ Goes(t, IF call[t] = "ExecuteQuery" THEN "store" ELSE "if_sqlite")
          /\ \E selects \in BOOLEAN :
                /\ Keeps(selects <=> call[t] = "ExecuteQuery")
                /\ unread' = IF selects THEN [unread EXCEPT ![held[t]] = t] ELSE unread
    /\ UNCHANGED <<database, kind, link, unfinalized, allocated, owner, rows, fault>>

\* Mutant: the result stays in the object.
EndStore_Peeks(t) ==
    /\ at[t] = "storing"
    /\ LetsGo(t)
    /\ rows' = [rows EXCEPT ![t] = IF held[t] \in link THEN unread[held[t]] ELSE NoUser]
    /\ \/ rows'[t] = NoUser /\ Goes(t, "report")
       \/ rows'[t] # NoUser /\ (Goes(t, "if_sqlite") \/ Returns(t))
    /\ UNCHANGED <<database, library, owner, fault, careful>>

\* mysql_store_result reads the result that the object holds, if it can; it
\* returns NULL when there is none.  ExecuteQuery returns early when the result
\* has no rows.
EndStore(t) ==
    /\ at[t] = "storing"
    /\ LetsGo(t)
    /\ unread' = [unread EXCEPT ![held[t]] = NoUser]
    /\ rows' = [rows EXCEPT ![t] = IF held[t] \in link THEN unread[held[t]] ELSE NoUser]
    /\ \/ rows'[t] = NoUser /\ Goes(t, "report")
       \/ rows'[t] # NoUser /\ (Goes(t, "if_sqlite") \/ Returns(t))
    /\ UNCHANGED <<database, kind, link, unfinalized, allocated, owner, fault, careful>>

\* mysql_stat, a command like any other, has answered IsConnected;
\* mysql_error, sqlite3_errmsg or mysql_real_escape_string has returned.
EndCall(t) ==
    /\ \/ at[t] = "sent" /\ call[t] = "IsConnected"
       \/ at[t] \in {"reporting", "in_errmsg", "escaping"}
    /\ LetsGo(t) /\ Returns(t)
    /\ UNCHANGED <<database, library, owner, rows, fault, careful>>

\* sqlite3_exec, or sqlite3_prepare_v2, which fails on an object that is not open.
EndSqlite(t) ==
    /\ at[t] = "in_sqlite"
    /\ \/ call[t] = "mdk_only_run_query" /\ LetsGo(t) /\ Returns(t)
       \/ call[t] = "ExecuteQuery" /\ LetsGo(t) /\ Goes(t, "errmsg")
       \/ /\ call[t] = "ExecuteQuery" /\ held[t] \in link
          /\ Goes(t, "stepping") /\ UNCHANGED held
    /\ UNCHANGED <<database, library, owner, rows, fault, careful>>

(***************************************************************************)
(* The statement is stepped through and finalized.  A column that is NULL  *)
(* makes a std::string of a null pointer, whose exception leaves           *)
(* ExecuteQuery before sqlite3_finalize.                                   *)
(***************************************************************************)
EndStepping(t) ==
    /\ at[t] = "stepping"
    /\ LetsGo(t) /\ Returns(t)
    /\ \/ \E whose \in {t, NoUser} : rows' = [rows EXCEPT ![t] = whose] /\ UNCHANGED <<unfinalized, careful>>
       \/ Keeps(FALSE) /\ unfinalized' = unfinalized \cup {held[t]} /\ UNCHANGED rows
    /\ UNCHANGED <<database, kind, link, unread, allocated, owner, fault>>

-----------------------------------------------------------------------------
(***************************************************************************)
(* The rules that careful remembers.  The owner connects a database that   *)
(* it has disconnected, or never connected, and disconnects it when no     *)
(* thread is in a function.  The threads use a database that has an object *)
(* and that the owner is not working on, CResultSet for "a SELECT or COUNT *)
(* query" (Query.h:23), without NULL columns, mdk_only_run_query for       *)
(* statements without a result, and IsConnected when no other thread uses  *)
(* the database.  No two of them talk to the server at the same moment; a  *)
(* second thread may still come between mysql_query and                    *)
(* mysql_store_result of the first.                                        *)
(***************************************************************************)
OwnerStep ==
    \/ \E type \in DatabaseTypes : Connect(type)
    \/ InitObject \/ BeginConnect \/ EndConnect \/ OpenSQLite
    \/ Disconnect \/ ClearPointer

ThreadStep(t) ==
    \/ \E f \in Calls : Call(t, f)
    \/ IfMariaDB(t) \/ IfSQLite(t) \/ BeginCall(t)
    \/ EndQuery(t) \/ EndStore(t) \/ EndCall(t) \/ EndSqlite(t) \/ EndStepping(t)

Next ==
    /\ fault = "none"
    /\ \/ OwnerStep
       \/ LinkBreaks
       \/ \E t \in Users : ThreadStep(t)

Spec == Init /\ [][Next]_vars

-----------------------------------------------------------------------------
(* What holds for every owner and every module.                            *)

\* m_Pointed_db points to a closed object only while the owner is between
\* mysql_close or sqlite3_close and the next statement of Disconnect
\* (Database.cpp:96-102), in whatever order Connect, Disconnect and the
\* functions of the threads come and whether or not they succeed: that is the
\* only time at which a library call can be begun with a dead pointer.
DanglesOnlyInDisconnect ==
    m_Pointed_db # NULL /\ kind[m_Pointed_db] \notin DatabaseTypes => owner = "clear"

-----------------------------------------------------------------------------
(* What careful owners and modules may rely on.                            *)

\* No call reaches a library with a null or dead pointer, with the other
\* library's object, or while another thread uses the connection, and no object
\* is closed under a call that works on it (Database.cpp:47-122, Query.cpp:54-273).
NoFault == careful => fault = "none"

\* Nothing is leaked: an object that was not closed is the one of CDatabase,
\* and is of the type that Disconnect will close it as (Database.cpp:92-103).
NothingLost ==
    careful => \A o \in Objects :
        kind[o] \in DatabaseTypes => o = m_Pointed_db /\ kind[o] = m_eDatabasetype

\* As long as no two commands are on the wire at once, the refusals of the
\* connector keep the queries of the threads apart (Query.cpp:54-149,
\* Database.cpp:92-103), although nothing stops a thread from coming between the
\* mysql_query and the mysql_store_result of another: SharedConnection.
Connection ==
    IF m_Pointed_db = NULL THEN "absent" ELSE IF m_Pointed_db \in link THEN "live" ELSE "lost"

Asking == {t \in Users : at[t] \in {"store", "storing"}}

Shared == INSTANCE SharedConnection WITH connection <- Connection, asking <- Asking

QueriesTakeTurns ==
    Shared!Init /\ [][careful' => [Shared!Next]_(Shared!shared)]_vars

\* IsConnected of a thread that has the database to itself (Database.cpp:107-122)
\* never calls a live connection lost: no query, whether it failed, was refused
\* or its connection broke, has left a result behind that mysql_stat trips over.
NoFalseAlarm ==
    careful => \A t \in Users :
        at[t] = "sent" /\ call[t] = "IsConnected" /\ held[t] \in link => Accepts(held[t])

=============================================================================
