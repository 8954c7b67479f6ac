# A TLA+ model of the GameProgressive Module Development Kit

The Module Development Kit (MDK) is the C++ library that modules of the
GameProgressive master server are built with.  A module derives a class from
`CThreadServer`; the master server creates it through `MDKModule()`, calls
`Start`, and the module serves TCP or UDP clients on a libuv loop in a thread
of its own, with a database that it shares with the other modules.

This directory holds TLA+ modules that model the library, configurations that
check them with TLC, and proofs that TLAPS checks.  `PROJECT.json` lists the
runs, the source lines of every definition, the findings, the hazards and the
theorems.

## The system

| Part | State it keeps | Operations | Who calls it |
|---|---|---|---|
| `CThreadServer` (ThreadServer.cpp) | `m_lpThread`, `m_ulExitCode`, the arguments of Start (`m_ip`, `m_port`, `m_cfg`, `m_lpDatabase`), `m_bUDP` | Start, Stop, IsRunning, GetExitCode, Execute, Initialize, delete | the master server (the host); Execute runs on the thread that Start creates |
| `CTemplateServer` (TemplateServer.cpp) | the listening handle and its `CClientData` | Bind; callbacks for new connections, TCP reads, UDP reads | Execute; libuv on the loop's thread |
| `CTemplateSocket` (TemplateSocket.cpp) | `m_loop`, `m_socket`, `m_sockType` | StartServer, StopServer, Close, WriteTCP, WriteUDP, GetIPFromSocket, GetSocketExtraData, the close and write callbacks | CThreadServer, the callbacks, the module |
| `CTemplateClient` (TemplateClient.cpp) | the same, for one outgoing connection | ConnectTCP, connect and read callbacks | the module; libuv |
| `CDatabase` (Database.cpp) | `m_eDatabasetype`, `m_Pointed_db` | Connect, Disconnect, IsConnected | the host |
| `CResultSet`, `mdk_only_run_query`, `mdk_escape_query_string` (Query.cpp) | `m_vvRows`, `m_uiPos` | ExecuteQuery, Goto*Row, Get*FromRow, GetTotalRows | the modules' threads |
| Utility.cpp | none between calls; a buffer of the caller and the variables of a loop within one | strdelete, strrand, strfind, strstartswith, strendswith; the log | everything |

There is no lock in the library.  The hard behaviours are

- the host's `Stop`, `StopServer` and `delete` against the server thread, which
  may be in Initialize, in Bind, or in any phase of the loop;
- handles: libuv owns them from `uv_*_init` to the close callback, the library
  frees them in two places, and the module keeps pointers to them;
- the order of callbacks within an iteration of the loop, and what a module
  does inside its virtual functions;
- writes that outlive the call: libuv keeps a request, and sends the bytes when
  the peer has room, or finds that they cannot be sent;
- one database connection used by several threads, with library calls that take
  time, queries in two calls, and an owner that replaces the object under them;
- boundaries: int to unsigned long, the last byte of a buffer, the cursor, loops
  over size_t.

What makes each part correct: a server object runs at most one server, whose
`IsRunning` is true exactly while it serves, and `Stop` ends it; the module
hears of a client from the time it is accepted until it is closed, never of a
freed handle, and a closed handle is freed; what is written goes out in order,
and its request is freed once; a database object is closed once, by its own
library, and a thread gets its own rows; a walk over a result gives
each row once; a string function does what its name says within its buffer.

## Modules

| Module | What it is |
|---|---|
| `UvLoop` | the handles of a libuv loop, as far as the library relies on them: operators over a table from handles to `none`, `idle`, `active`, `closing`, `freed`, `dangling`. libuv is a submodule without sources, so all but `OnClose` (the library's close callback) is external |
| `ServerLifecycle` | abstract: what a CThreadServer promises to the host |
| `ThreadServer` | CThreadServer with Bind, StartServer, StopServer and ~CTemplateSocket, one host and its server threads |
| `ThreadServerProofs` | theorems about it |
| `ConnectionService` | abstract: what a CTemplateServer promises to a module |
| `TemplateServer` | the callbacks of the server and what a module does in them |
| `TemplateServerProofs` | theorems about it |
| `SocketWrite` | WriteTCP, WriteUDP and Close against libuv's write queues |
| `DeliveryService` | abstract: what WriteTCP and WriteUDP promise |
| `SocketWriteProofs` | theorems about SocketWrite |
| `TemplateClient` | ConnectTCP and the callbacks of a CTemplateClient |
| `TemplateClientProofs` | theorems about it |
| `Database` | CDatabase, ExecuteQuery, mdk_only_run_query and mdk_escape_query_string on a shared connection |
| `SharedConnection` | abstract: what threads that share one connection rely on |
| `DatabaseProofs` | theorems about Database |
| `ResultSet` | the rows and the cursor of a CResultSet |
| `ResultSetProofs` | theorems about it |
| `StringUtility` | the string functions of Utility.cpp, loop by loop |
| `StringUtilityProofs` | theorems about them |
| `MCThreadServer`, `MCTemplateServer`, `MCStringUtility` | values for the constants of the runs |

### ThreadServer

The variables `m_*` are the members.  `args` is the number of the Start call
whose ip, port, database and configuration the object holds.  A server thread
is named by the Start (or Execute) that created it, and the handle it binds has
the same name; `thread[t]` is its program counter through `Execute` and through
the phases of `uv_run`: `poll`, `blocked` (waiting in the poll), `dispatch`,
`closing` (close callbacks), `check` (the test of the loop).  `hostOp` and
`hostAt` are the operation the host is in and its next statement.  `Stop` is
the steps `RecvStop`, `CloseSocket`, `LoopStop`, `Join`; `delete` goes on with
`FreeSocket` and `LoopClose`.  TCP clients are only counted here: they keep the
loop alive and can wake it.

`Bind` is one action per libuv call and per store to the object: `Bind` stores
`m_sockType`, `InitHandle` puts the socket into the loop, `BindAddress` reads the ip
string (`ip` is the parameter, `args` the member it was copied from), `Listen`
opens the socket, and only `StoreSocket` makes the object point to it.  So a
StopServer from the host's thread finds the socket at each stage, and a null
`m_socket` while it is already open.  `BindFailed` is the return of Execute after
a failure in any of them, with whatever the steps before have left in the loop.

C's undefined behaviour is a `fault`: the step that would dereference a null or
freed pointer, close a handle twice, or run one loop on two threads sets it and
nothing happens afterwards.  Properties say that faults do not occur, and
liveness properties allow them as an end.

### TemplateServer

One thread, so no interleaving of statements, but of callbacks: a callback is
the action that calls the module (`NewConnection`, `TcpRead`, `UdpRead`), any
number of calls of the module (`Close`, `StopServer`, `Use`), and the action
that ends it (`NewConnectionReturns`, `ReadReturns`).  `EndIteration` runs the
close callbacks and tests whether `uv_run` returns.  `held` is what the module
was ever given: a module may keep sockets and use them in a later callback.
Reads are numbers of bytes; an error is a negative number.

### SocketWrite

Each call of WriteTCP or WriteUDP is numbered and makes a request, whose
`memory` (the malloc of the library) and whose `request` state (what libuv does
with it: refused, queued, finished, done) are followed separately.  `left` are
the bytes that the kernel has not taken.  `Write` includes the try of uv_write
or uv_udp_send to send at once, `Flush` sends more later, `RunCompleted` runs the
write callbacks, `Breaks` and `ReadFails` are a peer that resets the connection
and the callback that finds out, and `EndIteration` cancels what waits for a
closing handle before its close callback runs.  `Fails` is where the system
reports an error: for any datagram (too long, no route, not permitted), at once
or when its turn in the queue comes, and for a connection that is broken.  libuv
then finishes the request with what is left of it unsent, and a UDP socket stays
open; the library's callbacks ignore the status.

The overloads of WriteTCP and WriteUDP differ in how they measure the bytes and
in how long the bytes live.  Neither is modelled: a write has a length.

DeliveryService has the `open` sockets and, per message, its socket (`to`), the
bytes that are not sent yet (`rest`) and its `fate`.  The mapping forgets requests, memory and
what libuv calls when: a refused request, one cancelled by Close, one that
the peer broke off and a datagram that was rejected are all `lost`.  The service
allows that for a connection only once it is not open any more, and for a
datagram only when it is its turn to be sent.  A TCP socket sends a byte of a
message only when nothing waits before it; a UDP socket sends a datagram whole.

### TemplateClient

`ConnectTCP` makes a handle, gives it a CClientData and starts to connect;
`Connects`, `OnRead`, `Cancels` and `Closes` are what libuv calls.  `data` is
the class of the object that the handle's data points to, so that a virtual
call through the wrong class is a fault.  Every callback of a connection makes
one, whether the connection is made, refused or cancelled (`NoneReachesCorrect`).

### Database

There is no lock in CDatabase, so a step is what one thread does between two
moments at which another can come in.  `at[t]` is where a module thread is in its
function, `call[t]`: `IfMariaDB` and `IfSQLite` read the type, `BeginCall` reads the
database pointer and hands it to a library function (`held`), and `EndQuery`,
`EndStore`, `EndCall`, `EndSqlite` and `EndStepping` are the returns of mysql_query,
mysql_store_result, mysql_stat (or mysql_error, sqlite3_errmsg,
mysql_real_escape_string), sqlite3_prepare_v2 (or sqlite3_exec), and of the walk to
sqlite3_finalize.  A call works on the object it was given, whatever becomes of
the pointer.  The owner goes through Connect as `Connect` (the type), `InitObject`
(mysql_init, whose object is stored before it is connected), `BeginConnect` and
`EndConnect` around mysql_real_connect, or `OpenSQLite`; and through Disconnect as
`Disconnect` (the close) and `ClearPointer`.

The objects of the two libraries are numbered and have a `kind`, may have an open
`link`, and may hold an `unread` result, with which the MariaDB connector
refuses any other command.  `unfinalized` are SQLite objects with a statement
that an exception kept from being finalized, which sqlite3_close refuses to
close.  The build that is modelled has both libraries compiled in, so a new
CDatabase starts as a MariaDB one.  Rows are named by the thread whose query
made them.  The faults are a null or dead pointer, the other library's object, an
object closed under a call that works on it, and `overlap`: two threads that talk
to the server through one MYSQL object at the same time, mysql_real_connect
included.  (sqlite3_open_v2 stores the pointer and opens the file in one step;
nothing is said of a thread that comes between.)

SharedConnection has a `connection` (`absent`, `live`, `lost`), the thread that is
`asking`, and whose `rows` each thread got last: a thread asks only when nobody
else does, and gets its own rows or none.  CDatabase keeps no such record.  The
mapping takes a thread whose mysql_query has succeeded for the asking one until its
mysql_store_result returns.  Other threads may begin and end any call between these
two; the theorem says that the connector's refusals are enough to keep the rows
apart, as long as no two calls are on the wire at the same moment, which is a
rule and not something the library or the connector sees to.

Owner and modules may call anything at any time; the history variable `careful`
is true as long as every call so far kept the rules below, and the properties
that need the rules say `careful => ...`.  So the rules are checked in the same
behaviours as what happens without them.

### ResultSet

`m_vvRows` holds rows named by query, position and number of columns;
`m_uiPos` is a number modulo `SIZE_MAX + 1`.  `call` and `returned` are the last
call and its value, `visited` the rows that the walk since GotoFirstRow has
selected, `got` the row that was read last.

### StringUtility

A behaviour is one call.  `buffer` is the memory the caller owns, with any
contents; `buffersize`, `number` and `counter` are the variables of the loops,
each a number modulo `SIZE_MAX + 1`, and every iteration is a step.  An access
outside of the buffer is a fault.  `Legal` says which calls promise to stay
inside; the properties about results hold for every call that returns.

## Users of the library

The library checks little, so most properties need a user who keeps some rules.
Each model has `Spec`, where anything is called in any order; ThreadServer and
TemplateServer also have a specification with a careful user, and Database and
StringUtility tell careful calls from others in the properties.

- Careful host (`CarefulSpec`): `Start` only when no thread is recorded, `Stop`
  only while `IsRunning()`, the ip string kept until `IsRunning()`, no
  `StopServer`, `Execute` or `delete` from outside, no handler that stops its
  own server.
- Disciplined module (`DisciplinedSpec`): uses only the socket it is called
  with; closes it in OnTCPRead, once; refuses in OnTCPNewConnection by
  returning false; stops the server at most once.
- Careful owner and modules (`Keeps` in Database): the owner connects only after
  Disconnect, and disconnects when no thread is in a function; threads call only
  when there is an object and the owner is in no function; no two of them talk to
  the server at the same moment; IsConnected has the database to itself; SELECTs go
  through CResultSet and without NULL columns, statements without a result
  through mdk_only_run_query.  A lock around each function, Connect and Disconnect
  included, would keep the rules about who comes between; they ask for less, since
  a thread may still come between two calls of another's function.
- Legal calls (`Legal` in StringUtility): strdelete within the buffer, strrand
  with room for the zero byte and a table of at least two characters, strings
  that end in their buffer; strendswith has no legal call.

These rules are findings of their own: none of them is written in the headers,
and the runs that expect a violation show what happens without them.

## Runs

| Run | Shows | Bounds |
|---|---|---|
| `careful_host` | `NoFault`, `OwnArguments`, `LifecycleSpec` (ServerLifecycle is implemented), `StopAdvances`, `StartSettles`, `StopEndsWithTraffic` | 3 starts, 2 clients |
| `any_host` | `TypeOK`, `StillAliveIsTrue`, `NullMeansNotStored`, `StopIsKept`, `AwakeLoopStops` | 2 starts, 1 client |
| `disciplined_module` | `NoFault`, `PromiseSpec` (ConnectionService is implemented) | 4 clients |
| `any_module` | `TypeOK`, `DataWhileAlive`, `ReturnsClean`, `ClosedIsFreed`, `StopReturnsFromLoop` | 4 clients |
| `any_writer` | `TypeOK`, `RequestsOwned`, `DeliverySpec` (DeliveryService is implemented), `RequestsEnd` | a TCP and a UDP socket, 4 writes of 2 bytes |
| `any_owner` | `TypeOK`, `DanglesOnlyInDisconnect`; `NoFault`, `NothingLost`, `NoFalseAlarm`, `QueriesTakeTurns` (SharedConnection is implemented) as long as all are careful | 2 threads, 2 objects |
| `any_reader` | `TypeOK`, `WalkIsComplete`, `WalkReadsSelected`, `FalseMeansNoRow` | 2 queries of 3 rows |
| `any_caller` | `TypeOK`, `LegalIsSafe`, `DeleteRemoves`, `RandFills`, `SearchesTell`, `LoopsAdvance`, `CallsEnd` | buffers of 3 bytes over 2 characters and the zero byte, all texts of up to 3, `SIZE_MAX` 5 |

Why the bounds are enough.  Three starts give a server that follows a server
that follows another, so that state left behind by one (stop_flag, m_socket,
the arguments) meets the next twice; any_host needs two threads at once, not
three.  `ULONG_MAX = 7` keeps the enumerators distinct and makes a negative
int wrap.  A second client is enough for one that stays while another leaves;
four show every combination of new, offered, taken and closed.  A buffer of two
bytes has reads below and at its size.  Two database threads are enough for
one to come between two calls of the other, and two objects for a connection that
is closed and made again, by either library (1,586,411 states); the proofs are for
any number of both.  `SIZE_MAX = 7` lets the cursor wrap.
Two bytes can be taken whole, in part or not at all; with four writes one can
be sent, one lost, one in the queue and one refused or cancelled, and one can follow
two that wait.  A TCP and a UDP socket show that the queues are separate.
A buffer of three bytes has a first, a middle and a last, a `SIZE_MAX` of 5 has
sizes beyond it, and a text of three characters is longer than any string that fits in it.

Runs that expect a violation, each of one statement of a comment:

| Run | What the code does |
|---|---|
| `stop_hangs` | Stop waits for a thread that nobody wakes (ThreadServer.cpp:71, TemplateSocket.cpp:75) |
| `restart_quits` | a stop_flag left behind makes the next server leave its loop at once (TemplateSocket.cpp:75) |
| `failed_accept` | a failed uv_accept is announced as a connection (TemplateServer.cpp:128) |
| `client_miscalls` | the callbacks of a client take its CClientData for the client (TemplateClient.cpp:57) |

What the models also show and no run states, because the headers promise
nothing that could be quoted against it or another run says it better:

- `Stop` before the first successful Bind, or after a Bind that failed, hands a
  null m_socket to uv_close (ThreadServer.cpp:69): a careful host asks
  IsRunning() first.
- `delete` after a successful Bind always frees m_socket once too often or too
  early (TemplateSocket.cpp:43), and calls uv_loop_close on a closed loop (:49).
- An Initialize that returns -1 is stored as ULONG_MAX, which is
  ERROR_STILL_ALIVE: IsRunning is true of a thread that has ended
  (ThreadServer.cpp:90).  `any_host` lets it return other numbers, and the
  theorems say so (`HonestResults`).
- A StopServer between the uv_listen of Bind and the store of m_socket
  (TemplateServer.cpp:76-95) hands a null pointer to uv_close although the socket is
  open; `NullMeansNotStored` says that this is the only such moment.
- Two threads in mysql_query at once use one MYSQL object at the same time, which
  the connector does not allow (Query.cpp:63); a query during Connect does the same
  with mysql_real_connect (Database.cpp:60).
- Disconnect closes the object under a query (Database.cpp:96), and a thread that
  reads the pointer before it is cleared (:102) gets a dead one;
  `DanglesOnlyInDisconnect` says that it is never dead at any other time.
- IsConnected is false while the result of another thread's query waits to be read
  (Database.cpp:113), and stays so after an mdk_only_run_query with a SELECT
  (Query.cpp:233); `NoFalseAlarm` is about a caller that has the database to itself.
  For SQLite it is true of any object.
- A NULL column of SQLite throws out of ExecuteQuery before sqlite3_finalize,
  and Disconnect then loses the object (Query.cpp:142, Database.cpp:100).
- A write that is refused leaks its request (TemplateSocket.cpp:90), and a datagram
  whose send fails is lost without a word (:177).
- strendswith compares memory that was not written (Utility.cpp:29); strrand
  never picks the last character of its table (:73); strstartswith leaks
  checkbuf when the text is too long (:99).
- After a failed SQLite open, Connect is false and IsConnected true
  (Database.cpp:82, 118).
- GotoRow(size) is true (Query.cpp:182), and so is GotoNextRow when it arrives
  at SIZE_MAX, because `m_uiPos + 1` wraps in its test (:172); a CResultSet that is queried again
  keeps the old rows (:105, :144); a failing sqlite3_step passes for the end of
  the result (:145).

Deadlock is not checked: a host may stop calling, a network may be silent, and
a fault ends a behaviour.

### Fairness

- ThreadServer: weak fairness for the host's next statement once it is in an
  operation, and for each server thread (the operating system schedules both).
  None for `Wake` and `ClientEvent`: no client must send anything, and none for
  the host's calls.  `StopEndsWithTraffic` therefore assumes in its statement
  that polls end; without it, `stop_hangs` is the counterexample.
- TemplateServer: weak fairness for the return of the module's functions, and
  strong fairness for the end of an iteration, because libuv hands out a
  bounded batch of events per poll while the model lets events arrive for ever.
- SocketWrite: weak fairness for the end of an iteration and, for each socket,
  for the callbacks that libuv has ready: `uv_run` comes to each of these phases
  in every iteration.  None for `Flush` and `Breaks`: a peer may never read and
  never go away, and then a queued request waits for ever, which `RequestsEnd`
  leaves open.
- StringUtility: weak fairness for the next iteration of a function that was
  called, so that `CallsEnd` is termination.
- Database and ResultSet have no liveness property: each call ends by itself.
  TemplateClient has none because its first callback is a fault.

## Proofs

TLAPS proves, for every value of the constants that the ASSUMEs allow:

- `ThreadServerProofs`: `TypeCorrect`, `NotStoredCorrect`, `StillAliveCorrect`
  and `StopKeptCorrect` for any host; `CarefulNoFault`, `CarefulArguments`,
  `CarefulLifecycle` and `StopAdvancesCorrect` for a careful one.
  `StillAliveCorrect` and the careful ones assume `HonestResults`: no result of
  Initialize turns into ERROR_STILL_ALIVE.
- `TemplateServerProofs`: `ServerTypeCorrect`, `DataCorrect` and
  `ReturnsCleanCorrect` for any module and any network; `DisciplinedNoFault`,
  `DisciplinedHears` and `DisciplinedPromise` under `GentleNetwork` (uv_accept
  does not fail, reads leave room for a zero byte: both are assumptions the code
  makes and does not test).
- `TemplateClientProofs`: `ClientTypeCorrect`, `NoneReachesCorrect` and
  `NothingIsRead`, for any number of connections.
- `DatabaseProofs`: `DatabaseTypeCorrect` and `DanglesCorrect` for any owner and
  modules; `DatabaseNoFault`, `DatabaseNothingLost`, `NoFalseAlarmCorrect`,
  `TurnsCorrect` and `DatabaseOwnRows` as long as the rules are kept; all for any
  number of threads and objects.
- `SocketWriteProofs`: `WriteTypeCorrect`, `OwnedCorrect`, `DeliveryCorrect` and
  `OrderCorrect`, for any sockets, modules and peers, any number of writes and any
  lengths.
- `StringUtilityProofs`: `StringTypeCorrect`, `LegalCorrect`, `DeleteCorrect`,
  `RandCorrect`, `SearchesCorrect` and `AdvanceCorrect`, for any buffer, any
  texts and any width of size_t that is wider than the buffer.
- `ResultSetProofs`: `ResultSetTypeCorrect`, `WalkCorrect`, `ReadsCorrect` and
  `FalseCorrect` for any user, any width of size_t, and any number and size of
  results that fit in memory (`SizeAssumption`).

Four of them are refinements, `CarefulLifecycle`, `DisciplinedPromise`,
`DeliveryCorrect` and `TurnsCorrect`: one lemma per action says which abstract
action, or which stutter, it is.  `OrderCorrect` and `DatabaseOwnRows` state
what two of the refinements mean in the terms of the code; they are parts of
the inductive invariants, and the runs check the refinements instead.

Three action properties are the safety that a liveness property rests on, and
the part of it that can be proved.  `StopAdvances` (for `StopEndsWithTraffic`):
while a Stop joins the server thread, every step of that thread has fewer phases
of the loop left before it, so that only a poll that does not end can hold it up.  `StopIsKept` (for
`AwakeLoopStops`): whatever the host does, a loop that was told to stop is told
so until it returns.  `LoopsAdvance` (for `CallsEnd`): each iteration of a string
function that stays in its loop has fewer to go, down to none at the least.

The inductive invariant for the careful host (`CarefulInv`) says what "no fault"
does not: there is at most one live thread and it is the recorded one
(`OneThread`), which reads its own ip string while that is there (`IpKept`); once
it has stored the socket m_socket names it (`SocketIsOwn`), and the socket is
active from uv_listen on while the host is idle (`OpenWhileIdle`) and never
before (`NoEarlyHandle`); only the recorded
server has an open port, until CloseSocket (`OpenIsRecorded`); and the host is
idle or in a Stop of a thread that was serving when Stop began (`Stopping`,
`Closable`).  The last one is why `IsRunning` has to be asked: it implies that
m_socket is bound, and it stays so although the thread may leave the loop at
any moment, because only the thread's loop frees a handle and only after
CloseSocket.  For `StopAdvances` it says too that a Stop that joins finds its
stop_flag set or the loop left (`StopIsPending`).  The refinement proof maps each
step to one action of ServerLifecycle or to a stutter.  `StopIsKept` holds for
any host, which may run two threads, because at most one of them is in the loop
(`OneInLoop`): for a second one to enter it is a fault.

For the module (`DisciplinedInv`), the state of the handle of the running
callback is fixed by which callback it is (`CurrentHandle`), and no other
handle is idle (`OnlyCurrentIdle`): so the close that follows a refusal is the
first one.  `DataWhileAlive` needs `DataOfRegistered`, about all handles that
libuv knows and not only those the module holds.

`NullMeansNotStored` rests on the fact that no step of any host or module
clears m_socket, that nobody can close a socket before it is stored, and that as
long as m_socket is null every handle is at most initialised or belongs to a
thread that is about to store it (`NotStored`); `ReturnsClean` on the fact that the loop is left only
by EndIteration, after the close callbacks, and that nothing is called
afterwards (`Left`).

For the database, `AnyInv` is what holds for everybody: types, the pointer, and
that a call that writes to the object it was given was given one (`Given`).
`Kept` holds as long as the rules were kept.  The owner works alone (`OwnerAlone`)
and each of its steps finds what the one before left (`OwnerSteady`); an object that
was not closed is the one of CDatabase (`OnlyObject`), on which every thread works
with the library of its type (`RightPlace`); at most one thread is on the wire
(`OneOnWire`).  The object still holds the result of a thread that is between its
two calls (`OwnResult`) and no other (`NoResultLeft`): together they say that the
thread that asks is the one whose result is unread, which is what `TurnsCorrect`
needs, and with `AskerAlone` that IsConnected trips over none.

For the writes, `Numbered` says that requests are those of the calls made so far
and go to the sockets they name, `FinishedIsSent` that on a connection that is open
and has its peer a request is finished only when the kernel has taken all of it,
so that a later one finds nothing left of it, and `QueuedIsLeft` that a request that waits has bytes to send, so that no fate is
both `waiting` and `sent`.

For the client, `PendingHasData` says that the handle of a connection that was
asked for has the CClientData that ConnectTCP gave it, until a callback finds it
there.

For the string functions, each loop has its invariant: what is already in place,
what the variables still are to the arguments (in strdelete, `number - counter`
is the argument and `buffersize` the argument less it), and what the buffer
still is behind the counter.

For the cursor, `OnWalk` says that a walk that goes on has the cursor on the row
it selected last, and `AtCursor` that what was read is the row under the cursor.
`RowsFit` bounds the rows by the queries: it is why a cursor that wraps cannot
come back to a row within a walk, and why a position that wraps is past the
rows.

Only model-checked: everything about liveness (`StartSettles`,
`StopEndsWithTraffic`, `AwakeLoopStops`, `ClosedIsFreed`,
`StopReturnsFromLoop`, `CallsEnd`, `RequestsEnd`), which needs fairness and
ENABLED, beyond the prover.  Every safety property of a passing run is proved,
and so is every action property and every refinement that a run checks.

## Not modelled

- GetIPFromSocket beyond its use of a live handle: it reads the type of a socket
  from an object of another class and passes an uninitialised length, so that
  its value can be anything.
- The value stored by CClientData::SetData: the library never calls it.
- Contents of messages and of rows, ports, addresses and passwords.
- How long the bytes of a write live, in which the overloads differ:
  WriteTCP(std::string) hands libuv the bytes of a parameter that is gone when the
  call returns (TemplateSocket.cpp:119).  The model has what makes that matter,
  that libuv may send the bytes later.
- The growth of memory by read buffers that nobody frees (TemplateServer.cpp:152)
  and by the MYSQL_RES that an exception on a NULL column leaves behind
  (Query.cpp:103), and running out of memory.
- The peer of a datagram: a UDP socket has one queue, whatever the addresses.
- What strendswith returns, which is undefined; the log, which only prints.
- The composition of ThreadServer with TemplateServer: ThreadServer counts
  clients, TemplateServer has them as handles on one thread.
- Vendored headers of SQLite (sqlite3.h, sqlite3ext.h) and of integer types
  (mdkstdint.h), the build, the SQL schema.  These headers are declarations
  without behaviour and seven eighths of the lines of the repository, so that
  the share of all lines that the map covers is small although nearly every
  function of the library is mapped; what the library uses of SQLite is external.

## Plan

1. Done: ThreadServer with ServerLifecycle; TemplateServer with
   ConnectionService; SocketWrite; TemplateClient; Database; ResultSet;
   StringUtility; a proof module for each of the seven; DeliveryService and
   SharedConnection, which SocketWrite and Database implement.
2. `ModuleServer`: ThreadServer composed with TemplateServer, so that the
   clients of a server that is stopped and started again are handles and not a
   number.
3. A cursor specification that ResultSet implements.
