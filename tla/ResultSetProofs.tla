-------------------------- MODULE ResultSetProofs ---------------------------
(***************************************************************************)
(* Proofs about ResultSet, for any width of size_t, any number of queries  *)
(* and any size of their results.                                          *)
(***************************************************************************)
EXTENDS ResultSet, TLAPS

\* The rows fit below SIZE_MAX, because each query brings at most MaxRows.
RowsFit == Len(m_vvRows) <= queries * MaxRows

\* As long as a walk goes on, the cursor is on the row it selected last.
OnWalk == visited # <<>> /\ returned => m_uiPos + 1 = Len(visited)

\* What was read is the row under the cursor, and at() throws only off the
\* rows.
AtCursor ==
    /\ got # <<>> => InRange /\ got = CurrentRow
    /\ fault = "no_row" => ~InRange

Inv == TypeOK /\ RowsFit /\ OnWalk /\ AtCursor /\ WalkIsComplete /\ FalseMeansNoRow

-----------------------------------------------------------------------------
\* size_t wraps at SIZE_MAX only.
LEMMA PlusOne ==
    ASSUME NEW a \in 0 .. SIZE_MAX
    PROVE  Plus(a, 1) = IF a = SIZE_MAX THEN 0 ELSE a + 1
BY SizeAssumption DEF Plus

\* One more query keeps the rows below SIZE_MAX.
LEMMA Sizes ==
    ASSUME NEW q \in 0 .. MaxQueries
    PROVE  /\ q * MaxRows < SIZE_MAX
           /\ q * MaxRows \in Nat
           /\ (q + 1) * MaxRows = q * MaxRows + MaxRows
<1>1. q * MaxRows <= MaxQueries * MaxRows
  BY SizeAssumption
<1> QED
  BY <1>1, SizeAssumption

\* What a query leaves behind.
LEMMA RowsAppended ==
    ASSUME Inv, NEW n \in 0 .. MaxRows, NEW c \in Columns, Queried,
           m_vvRows' = m_vvRows \o Result(n, c)
    PROVE  /\ m_vvRows' \in Seq(Row) /\ queries' \in 0 .. MaxQueries
           /\ RowsFit'
<1>1. Result(n, c) \in Seq(Row) /\ Len(Result(n, c)) = n
  BY SizeAssumption, ColumnAssumption DEF Inv, TypeOK, Queried, Result, Row
<1>2. m_vvRows' \in Seq(Row) /\ Len(m_vvRows') = Len(m_vvRows) + n
  BY <1>1 DEF Inv, TypeOK
<1>3. (queries + 1) * MaxRows = queries * MaxRows + MaxRows /\ queries * MaxRows \in Nat
  BY Sizes DEF Inv, TypeOK
<1> QED
  BY <1>2, <1>3, SizeAssumption DEF Inv, TypeOK, Queried, RowsFit

\* The rows and the cursor are numbers below SIZE_MAX.
LEMMA Numbers ==
    ASSUME Inv
    PROVE  /\ Len(m_vvRows) \in Nat /\ Len(m_vvRows) < SIZE_MAX
           /\ m_uiPos \in 0 .. SIZE_MAX /\ Len(visited) \in Nat
           /\ visited # <<>> => Len(visited) > 0
BY Sizes, SizeAssumption DEF Inv, TypeOK, RowsFit

\* The cursor moves to pos, and the walk is not extended.
LEMMA Leaves ==
    ASSUME Inv, NEW function \in Gotos, NEW pos \in 0 .. SIZE_MAX, NEW answer \in BOOLEAN,
           Goes(function, pos, answer), visited' = <<>>,
           answer \/ ~(pos < Len(m_vvRows)), fault = "none"
    PROVE  Inv'
<1>1. TypeOK'
  BY DEF Inv, TypeOK, Goes
<1>2. RowsFit' /\ OnWalk' /\ WalkIsComplete'
  BY DEF Inv, Goes, RowsFit, OnWalk, WalkIsComplete
<1>3. AtCursor'
  BY DEF Inv, Goes, AtCursor
<1>4. FalseMeansNoRow'
  BY <1>1 DEF FalseMeansNoRow, Goes, InRange
<1> QED
  BY <1>1, <1>2, <1>3, <1>4 DEF Inv

LEMMA InvStep == Inv /\ [Next]_vars => Inv'
<1> SUFFICES ASSUME Inv, [Next]_vars
             PROVE  Inv'
  OBVIOUS
<1> USE DEF Faults
<1>1. ASSUME NEW n \in 0 .. MaxRows, NEW c \in Columns, fault = "none",
             ExecuteQuery(n, c)
      PROVE  Inv'
  <2>1. m_vvRows' \in Seq(Row) /\ queries' \in 0 .. MaxQueries /\ RowsFit'
    BY <1>1, RowsAppended DEF ExecuteQuery
  <2>2. /\ visited' = <<>> /\ got' = <<>> /\ call' = "ExecuteQuery"
        /\ m_uiPos' = m_uiPos /\ returned' \in BOOLEAN
    BY <1>1 DEF ExecuteQuery, Queried
  <2>3. fault' # "no_row" /\ fault' \in Faults
    BY <1>1 DEF ExecuteQuery
  <2>4. TypeOK'
    BY <2>1, <2>2, <2>3 DEF Inv, TypeOK
  <2> QED
    BY <2>1, <2>2, <2>3, <2>4 DEF Inv, OnWalk, AtCursor, WalkIsComplete, FalseMeansNoRow, Gotos
<1>2. ASSUME NEW n \in 0 .. MaxRows, NEW c \in Columns,
             ExecuteQueryOfNull(n, c)
      PROVE  Inv'
  <2>1. m_vvRows' \in Seq(Row) /\ queries' \in 0 .. MaxQueries /\ RowsFit'
    BY <1>2, RowsAppended DEF ExecuteQueryOfNull
  <2>2. /\ visited' = <<>> /\ got' = <<>> /\ call' = "ExecuteQuery"
        /\ m_uiPos' = m_uiPos /\ returned' \in BOOLEAN
    BY <1>2 DEF ExecuteQueryOfNull, Queried
  <2>3. fault' # "no_row" /\ fault' \in Faults
    BY <1>2 DEF ExecuteQueryOfNull
  <2>4. TypeOK'
    BY <2>1, <2>2, <2>3 DEF Inv, TypeOK
  <2> QED
    BY <2>1, <2>2, <2>3, <2>4 DEF Inv, OnWalk, AtCursor, WalkIsComplete, FalseMeansNoRow, Gotos
<1>3. CASE fault = "none" /\ GotoFirstRow
  <2> DEFINE some == ~(Len(m_vvRows) < 1)
  <2>1. CASE some
    <3>1. Goes("GotoFirstRow", 0, TRUE) /\ Visits(<<>>, 0, TRUE)
      <4>1. some = TRUE
        BY <2>1
      <4>2. Goes("GotoFirstRow", IF some THEN 0 ELSE m_uiPos, some) /\ Visits(<<>>, 0, some)
        BY <1>3 DEF GotoFirstRow
      <4> HIDE DEF some
      <4> QED
        BY <4>1, <4>2
    <3>2. m_vvRows[1] \in Row
      BY <2>1 DEF Inv, TypeOK
    <3>3. visited' = Append(<<>>, m_vvRows[1])
      BY <2>1, <3>1, Numbers DEF Visits
    <3>4. visited' \in Seq(Row) /\ Len(visited') = 1 /\ visited'[1] = m_vvRows[1]
      BY <3>2, <3>3
    <3>5. TypeOK'
      BY <3>1, <3>4, SizeAssumption DEF Inv, TypeOK, Goes, Gotos
    <3>6. RowsFit' /\ OnWalk' /\ WalkIsComplete'
      BY <2>1, <3>1, <3>4, Numbers DEF Inv, Goes, RowsFit, OnWalk, WalkIsComplete
    <3> QED
      BY <1>3, <3>1, <3>5, <3>6 DEF Inv, Goes, AtCursor, FalseMeansNoRow
  <2>2. CASE ~some
    <3>1. Goes("GotoFirstRow", m_uiPos, some) /\ visited' = <<>>
      BY <1>3, <2>2 DEF GotoFirstRow, Visits
    <3>2. m_uiPos \in 0 .. SIZE_MAX /\ (some \/ ~(m_uiPos < Len(m_vvRows)))
      BY <2>2, Numbers
    <3>3. some \in BOOLEAN /\ "GotoFirstRow" \in Gotos
      BY DEF Gotos
    <3> HIDE DEF some
    <3> QED
      BY <1>3, <3>1, <3>2, <3>3, Leaves
  <2> QED
    BY <2>1, <2>2
<1>4. CASE fault = "none" /\ GotoNextRow
  <2> DEFINE pos == Plus(m_uiPos, 1)
             some == ~(Len(m_vvRows) < Plus(pos, 1))
  <2>1. /\ pos \in 0 .. SIZE_MAX /\ Plus(pos, 1) \in 0 .. SIZE_MAX
        /\ some \/ ~(pos < Len(m_vvRows))
    <3>1. pos = (IF m_uiPos = SIZE_MAX THEN 0 ELSE m_uiPos + 1)
      BY PlusOne, Numbers
    <3>2. pos \in 0 .. SIZE_MAX
      BY <3>1, Numbers, SizeAssumption
    <3>3. Plus(pos, 1) = IF pos = SIZE_MAX THEN 0 ELSE pos + 1
      BY <3>2, PlusOne
    <3> HIDE DEF pos
    <3> QED
      BY <3>2, <3>3, Numbers, SizeAssumption
  <2>2. Goes("GotoNextRow", pos, some) /\ WalksOn(pos, some)
    BY <1>4 DEF GotoNextRow
  <2>3. CASE ~(returned /\ visited # <<>>)
    <3>1. visited' = <<>>
      BY <2>2, <2>3 DEF WalksOn
    <3> HIDE DEF pos, some
    <3>2. some \in BOOLEAN
      BY DEF some
    <3> QED
      BY <1>4, <2>1, <2>2, <3>1, <3>2, Leaves DEF Gotos
  <2>4. CASE returned /\ visited # <<>>
    <3>1. Visits(visited, pos, some)
      BY <2>2, <2>4 DEF WalksOn
    <3>2. m_uiPos + 1 = Len(visited) /\ Len(visited) <= Len(m_vvRows)
      BY <2>4 DEF Inv, OnWalk, WalkIsComplete
    <3>3. pos = m_uiPos + 1 /\ Plus(pos, 1) = pos + 1
      <4>1. m_uiPos \in 0 .. SIZE_MAX /\ m_uiPos < Len(m_vvRows) /\ Len(m_vvRows) < SIZE_MAX
        BY <3>2, Numbers
      <4>2. pos = m_uiPos + 1
        BY <4>1, PlusOne
      <4>3. m_uiPos + 1 \in 0 .. SIZE_MAX /\ m_uiPos + 1 # SIZE_MAX
        BY <4>1, SizeAssumption, Numbers
      <4> HIDE DEF pos
      <4>4. Plus(m_uiPos + 1, 1) = m_uiPos + 1 + 1
        BY <4>3, PlusOne
      <4> QED
        BY <4>2, <4>4
    <3>4. pos = Len(visited) /\ (some <=> pos < Len(m_vvRows))
      BY <3>2, <3>3, Numbers
    <3> HIDE DEF pos, some
    <3>5. some \in BOOLEAN
      BY DEF some
    <3>6. CASE some
      <4>1. visited' = Append(visited, m_vvRows[pos + 1]) /\ m_vvRows[pos + 1] \in Row
        BY <2>1, <3>1, <3>4, <3>6, Numbers DEF Visits, Inv, TypeOK
      <4>2. TypeOK'
        BY <2>1, <2>2, <3>5, <4>1 DEF Inv, TypeOK, Goes, Gotos
      <4>3. Len(visited') = Len(visited) + 1 /\ visited' # <<>>
        BY <4>1 DEF Inv, TypeOK
      <4>4. RowsFit' /\ OnWalk'
        BY <2>2, <3>4, <4>3 DEF Inv, Goes, RowsFit, OnWalk
      <4>5. WalkIsComplete'
        BY <2>2, <3>4, <3>6, <4>1, <4>3, Numbers DEF Inv, TypeOK, Goes, WalkIsComplete
      <4> QED
        BY <1>4, <2>2, <3>6, <4>2, <4>4, <4>5 DEF Inv, Goes, AtCursor, FalseMeansNoRow
    <3>7. CASE ~some
      <4>1. visited' = visited
        BY <3>1, <3>7 DEF Visits
      <4>2. TypeOK'
        BY <2>1, <2>2, <3>5, <4>1 DEF Inv, TypeOK, Goes, Gotos
      <4>3. RowsFit' /\ OnWalk'
        BY <2>2, <3>7, <4>1 DEF Inv, Goes, RowsFit, OnWalk
      <4>4. WalkIsComplete'
        BY <2>2, <3>2, <3>4, <3>7, <4>1, Numbers DEF Inv, Goes, WalkIsComplete
      <4>5. FalseMeansNoRow'
        BY <2>2, <3>4, <3>7, Numbers DEF Goes, FalseMeansNoRow, InRange
      <4> QED
        BY <1>4, <2>2, <4>2, <4>3, <4>4, <4>5 DEF Inv, Goes, AtCursor
    <3> QED
      BY <3>6, <3>7
  <2> QED
    BY <2>3, <2>4
<1>5. ASSUME fault = "none", NEW r \in 0 .. SIZE_MAX, GotoRow(r)
      PROVE  Inv'
  <2> DEFINE some == ~(Len(m_vvRows) < r)
  <2>1. Goes("GotoRow", r, some) /\ visited' = <<>>
    BY <1>5 DEF GotoRow
  <2>2. some \/ ~(r < Len(m_vvRows))
    BY Numbers
  <2>3. some \in BOOLEAN
    OBVIOUS
  <2> HIDE DEF some
  <2> QED
    BY <1>5, <2>1, <2>2, <2>3, Leaves DEF Gotos
<1>6. ASSUME fault = "none", NEW index \in 0 .. SIZE_MAX, NEW kind \in {"Number", "String"},
             GetFromRow(index, kind)
      PROVE  Inv'
  <2>1. UNCHANGED <<m_vvRows, m_uiPos, queries, call, returned, visited>>
    BY <1>6 DEF GetFromRow
  <2>2. InRange => CurrentRow \in Row
    BY Numbers DEF Inv, TypeOK, InRange, CurrentRow
  <2>3. got' \in Row \cup {<<>>} /\ fault' \in Faults
    BY <1>6, <2>2 DEF GetFromRow
  <2>4. AtCursor'
    BY <1>6, <2>1 DEF GetFromRow, AtCursor, InRange, CurrentRow
  <2>5. TypeOK'
    BY <2>1, <2>3 DEF Inv, TypeOK
  <2> QED
    BY <2>1, <2>4, <2>5 DEF Inv, RowsFit, OnWalk, WalkIsComplete, FalseMeansNoRow, InRange
<1>7. CASE UNCHANGED vars
  BY <1>7 DEF vars, Inv, TypeOK, RowsFit, OnWalk, AtCursor, WalkIsComplete, FalseMeansNoRow,
      InRange, CurrentRow
<1> QED
  BY <1>1, <1>2, <1>3, <1>4, <1>5, <1>6, <1>7 DEF Next

LEMMA InvInit == Init => Inv
<1> SUFFICES ASSUME Init PROVE Inv
  OBVIOUS
<1>1. m_uiPos \in 0 .. SIZE_MAX /\ queries \in 0 .. MaxQueries
  BY SizeAssumption DEF Init
<1>2. m_vvRows \in Seq(Row) /\ visited \in Seq(Row) /\ got \in Row \cup {<<>>}
  BY DEF Init
<1>3. TypeOK
  BY <1>1, <1>2 DEF Init, TypeOK, Faults
<1>4. RowsFit
  BY SizeAssumption DEF Init, RowsFit
<1> QED
  BY <1>3, <1>4 DEF Init, Inv, OnWalk, AtCursor, WalkIsComplete, FalseMeansNoRow, Gotos

LEMMA Invariant == Spec => []Inv
BY InvInit, InvStep, PTL DEF Spec

-----------------------------------------------------------------------------
\* The types of CResultSet: the cursor wraps like a size_t, and every stored
\* row belongs to a query that was made.
THEOREM ResultSetTypeCorrect == Spec => []TypeOK
<1>1. Inv => TypeOK
  BY DEF Inv
<1> QED
  BY <1>1, Invariant, PTL

\* GotoFirstRow and GotoNextRow select every row that the object holds, once
\* and in order, wherever the cursor was before.
THEOREM WalkCorrect == Spec => []WalkIsComplete
<1>1. Inv => WalkIsComplete
  BY DEF Inv
<1> QED
  BY <1>1, Invariant, PTL

\* In a walk, Get*FromRow reads the row that was selected last.
THEOREM ReadsCorrect == Spec => []WalkReadsSelected
<1>1. ASSUME Inv PROVE WalkReadsSelected
  <2> SUFFICES ASSUME visited # <<>>, returned
               PROVE  /\ fault # "no_row"
                      /\ got # <<>> => got = visited[Len(visited)]
    BY DEF WalkReadsSelected
  <2>1. /\ m_uiPos + 1 = Len(visited) /\ Len(visited) <= Len(m_vvRows)
        /\ Len(visited) \in 1 .. Len(visited)
        /\ visited[Len(visited)] = m_vvRows[Len(visited)]
    BY <1>1, Numbers DEF Inv, OnWalk, WalkIsComplete
  <2>2. InRange /\ CurrentRow = visited[Len(visited)]
    BY <1>1, <2>1, Numbers DEF InRange, CurrentRow
  <2> QED
    BY <1>1, <2>2 DEF Inv, AtCursor
<1> QED
  BY <1>1, Invariant, PTL

\* A Goto*Row function that returns false has left the cursor on no row.
THEOREM FalseCorrect == Spec => []FalseMeansNoRow
<1>1. Inv => FalseMeansNoRow
  BY DEF Inv
<1> QED
  BY <1>1, Invariant, PTL

=============================================================================
