----------------------------- MODULE ResultSet ------------------------------
(***************************************************************************)
(* CResultSet (Query.cpp): the rows that ExecuteQuery copies out of the    *)
(* database and the cursor that walks them.  A row is the query it came    *)
(* from with its place in the result; what its columns say is left out,    *)
(* but not how many there are and whether one of them is an SQL NULL.      *)
(*                                                                         *)
(* m_uiPos is a size_t and wraps.  Where the code throws an exception, the *)
(* model records a fault and stops.                                        *)
(***************************************************************************)
EXTENDS Integers, Sequences

CONSTANTS
    SIZE_MAX,      \* largest size_t
    MaxQueries,    \* bound: ExecuteQuery calls on one object
    MaxRows,       \* bound: rows of one result
    Columns        \* numbers of columns a result may have

\* All rows that an object ever holds fit in memory, with room to spare.
ASSUME SizeAssumption ==
    /\ MaxQueries \in Nat /\ MaxRows \in Nat /\ SIZE_MAX \in Nat
    /\ MaxQueries * MaxRows < SIZE_MAX
ASSUME ColumnAssumption == Columns \subseteq 1 .. SIZE_MAX

VARIABLES
    m_vvRows,
    m_uiPos,
    queries,     \* ExecuteQuery calls so far
    call,        \* the last ExecuteQuery or Goto*Row
    returned,    \* what it returned
    visited,     \* rows that the walk since GotoFirstRow has selected
    got,         \* row that the last Get*FromRow read, or <<>>
    fault

vars == <<m_vvRows, m_uiPos, queries, call, returned, visited, got, fault>>

Row == [query : 1 .. MaxQueries, row : 1 .. MaxRows, columns : Columns]
Gotos == {"GotoFirstRow", "GotoNextRow", "GotoRow"}
Faults == {"none", "no_row", "no_column", "null_string"}

TypeOK ==
    /\ m_vvRows \in Seq(Row)
    /\ m_uiPos \in 0 .. SIZE_MAX
    /\ queries \in 0 .. MaxQueries
    /\ call \in {"none", "ExecuteQuery"} \cup Gotos
    /\ returned \in BOOLEAN
    /\ visited \in Seq(Row)
    /\ got \in Row \cup {<<>>}
    /\ fault \in Faults

Init ==
    /\ m_vvRows = <<>> /\ m_uiPos = 0
    /\ queries = 0
    /\ call = "none" /\ returned = FALSE
    /\ visited = <<>> /\ got = <<>>
    /\ fault = "none"

\* size_t arithmetic.
Plus(a, b) == (a + b) % (SIZE_MAX + 1)

\* m_vvRows.at(m_uiPos), and whether at() finds it.
CurrentRow == m_vvRows[m_uiPos + 1]
InRange == m_uiPos < Len(m_vvRows)

-----------------------------------------------------------------------------
(***************************************************************************)
(* ExecuteQuery appends the rows of the result to those of earlier queries *)
(* and leaves the cursor where it is; n is the number of rows that arrive, *)
(* which is less than the result has when sqlite3_step fails.  No row is a *)
(* success for MariaDB and a failure for SQLite and for a refused query.   *)
(***************************************************************************)
Result(n, c) == [i \in 1 .. n |-> [query |-> queries + 1, row |-> i, columns |-> c]]

Queried ==
    /\ queries < MaxQueries
    /\ queries' = queries + 1
    /\ call' = "ExecuteQuery"
    /\ visited' = <<>> /\ got' = <<>>
    /\ UNCHANGED m_uiPos

ExecuteQuery(n, c) ==
    /\ Queried
    /\ m_vvRows' = m_vvRows \o Result(n, c)
    /\ returned' \in IF n > 0 THEN {TRUE} ELSE BOOLEAN
    /\ UNCHANGED fault

\* Every column is made a std::string, which fails for an SQL NULL, with the n
\* rows before it already appended.
ExecuteQueryOfNull(n, c) ==
    /\ Queried
    /\ m_vvRows' = m_vvRows \o Result(n, c)
    /\ returned' = FALSE
    /\ fault' = "null_string"

-----------------------------------------------------------------------------
\* A Goto*Row function moves to pos and returns answer.
Goes(function, pos, answer) ==
    /\ m_uiPos' = pos
    /\ call' = function /\ returned' = answer
    /\ got' = <<>>
    /\ UNCHANGED <<m_vvRows, queries, fault>>

\* The rows of the walk, when the cursor goes to pos and the caller is told
\* that there is a row.
Visits(rows, pos, answer) ==
    visited' = IF answer /\ pos < Len(m_vvRows) THEN Append(rows, m_vvRows[pos + 1]) ELSE rows

GotoFirstRow ==
    LET some == ~(Len(m_vvRows) < 1) IN
    /\ Goes("GotoFirstRow", IF some THEN 0 ELSE m_uiPos, some)
    /\ Visits(<<>>, 0, some)

\* GotoNextRow goes on with a walk that did not come to its end.
WalksOn(pos, answer) ==
    IF returned /\ visited # <<>> THEN Visits(visited, pos, answer) ELSE visited' = <<>>

\* Mutant: the test is made before the cursor moves.
GotoNextRow_TestFirst ==
    LET pos == Plus(m_uiPos, 1)
        some == ~(Len(m_vvRows) < Plus(m_uiPos, 1)) IN
    Goes("GotoNextRow", pos, some) /\ WalksOn(pos, some)

\* Mutant: the test leaves the last row out.
GotoNextRow_Early ==
    LET pos == Plus(m_uiPos, 1)
        some == ~(Len(m_vvRows) <= Plus(pos, 1)) IN
    Goes("GotoNextRow", pos, some) /\ WalksOn(pos, some)

\* Mutant: a cursor wider than size_t, which does not wrap.
GotoNextRow_Wide ==
    LET pos == m_uiPos + 1
        some == ~(Len(m_vvRows) < pos + 1) IN
    Goes("GotoNextRow", pos, some) /\ WalksOn(pos, some)

GotoNextRow ==
    LET pos == Plus(m_uiPos, 1)
        some == ~(Len(m_vvRows) < Plus(pos, 1)) IN
    Goes("GotoNextRow", pos, some) /\ WalksOn(pos, some)

\* Mutant: rows counted from one.
GotoRow_FromOne(r) == Goes("GotoRow", r, ~(Len(m_vvRows) <= r + 1)) /\ visited' = <<>>

GotoRow(r) == Goes("GotoRow", r, ~(Len(m_vvRows) < r)) /\ visited' = <<>>

(***************************************************************************)
(* Get*FromRow.  at() throws when the cursor is not on a row, and when the *)
(* index is the number of columns, which the test before it lets pass.     *)
(* Beyond it the numbers are 0 and the string is made from a null pointer. *)
(***************************************************************************)
GetFromRow(index, kind) ==
    /\ fault' =
         CASE ~InRange                     -> "no_row"
           [] CurrentRow.columns < index   -> IF kind = "String" THEN "null_string" ELSE fault
           [] CurrentRow.columns = index   -> "no_column"
           [] OTHER                        -> fault
    /\ got' = IF InRange /\ index < CurrentRow.columns THEN CurrentRow ELSE <<>>
    /\ UNCHANGED <<m_vvRows, m_uiPos, queries, call, returned, visited>>

-----------------------------------------------------------------------------
Next ==
    /\ fault = "none"
    /\ \/ \E n \in 0 .. MaxRows, c \in Columns : ExecuteQuery(n, c) \/ ExecuteQueryOfNull(n, c)
       \/ GotoFirstRow
       \/ GotoNextRow
       \/ \E r \in 0 .. SIZE_MAX : GotoRow(r)
       \/ \E index \in 0 .. SIZE_MAX, kind \in {"Number", "String"} : GetFromRow(index, kind)

Spec == Init /\ [][Next]_vars

-----------------------------------------------------------------------------
(* What holds for every user, in whatever order the functions are called.  *)

\* Query.h:26, "Go to the first line and start parsing the data": a walk of
\* GotoFirstRow and GotoNextRow selects the rows that the object holds from
\* the first on, in order and none twice, and when GotoNextRow says that there
\* is no other, none was left out.
WalkIsComplete ==
    visited # <<>> =>
        /\ Len(visited) <= Len(m_vvRows)
        /\ \A i \in 1 .. Len(visited) : visited[i] = m_vvRows[i]
        /\ ~returned => Len(visited) = Len(m_vvRows)

\* Query.h:28, "to get the data the row you selected": as long as a walk goes
\* on, Get*FromRow finds a row, and it is the one that was selected last.
WalkReadsSelected ==
    visited # <<>> /\ returned =>
        /\ fault # "no_row"
        /\ got # <<>> => got = visited[Len(visited)]

\* When a Goto*Row function returns false, the cursor is on no row, also when
\* the user goes on past the end or to a row that is not there: code that
\* ignores the answer gets an exception and never the data of another row.
FalseMeansNoRow == call \in Gotos /\ ~returned => ~InRange

=============================================================================
