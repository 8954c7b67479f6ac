------------------------ MODULE StringUtilityProofs ------------------------
(***************************************************************************)
(* Proofs about StringUtility, for buffers and strings of any size and any *)
(* width of size_t.  Each function has a loop invariant; together with     *)
(* what the functions promise they are one inductive invariant.            *)
(***************************************************************************)
EXTENDS StringUtility, SequenceTheorems, WellFoundedInduction, TLAPS

\* Before the call.
IdleInv ==
    /\ Len(text) <= SIZE_MAX
    /\ at # "returned" => returned = "none"
    /\ at = "idle" => buffer = before /\ counter = 0 /\ checkbuf = <<>>

\* The loop of strdelete: the bytes before counter are those count further on,
\* the others are as they were.
DeleteInv ==
    In("strdelete") =>
        /\ size >= count /\ buffersize = size - count
        /\ counter <= buffersize /\ number = counter + count
        /\ \A i \in Index : buffer[i] = IF i < counter THEN before[i + count] ELSE before[i]

\* The loop of strrand: the bytes before counter are filled.
RandInv ==
    In("strrand") =>
        /\ buffersize = size /\ counter <= Minus(size, 1)
        /\ \A i \in Index :
             IF i < counter
             THEN Len(text) >= 2 => \E k \in 1 .. Len(text) - 1 : buffer[i] = text[k]
             ELSE buffer[i] = before[i]

\* The loop of strfind: what has not been found, and the string goes on.
FindInv ==
    In("strfind") =>
        /\ buffer = before /\ counter <= Capacity
        /\ \A j \in Index : j < counter => before[j] \notin {NUL, text[1]}

\* The loop of strstartswith: checkbuf is the first counter bytes.
StartsInv ==
    In("strstartswith") =>
        /\ buffer = before /\ Terminated(before)
        /\ Len(text) <= StrLen(before)
        /\ counter <= Len(text) /\ Len(checkbuf) = counter
        /\ \A i \in 1 .. counter : checkbuf[i] = before[i - 1]

Loops == DeleteInv /\ RandInv /\ FindInv /\ StartsInv
Promises == LegalIsSafe /\ DeleteRemoves /\ RandFills /\ FindTells /\ StartsTells
Inv == TypeOK /\ IdleInv /\ Loops /\ Promises

-----------------------------------------------------------------------------
\* The largest size_t is what is left of nothing.
LEMMA MinusOne ==
    ASSUME NEW a \in Size
    PROVE  /\ Minus(a, 1) \in Size
           /\ a > 0 => Minus(a, 1) = a - 1
           /\ a = 0 => Minus(a, 1) = SIZE_MAX
BY SizeAssumption DEF Minus, Size

LEMMA MinusPart ==
    ASSUME NEW a \in Size, NEW b \in Size, a >= b
    PROVE  Minus(a, b) = a - b /\ Minus(a, b) \in Size
BY SizeAssumption DEF Minus, Size

\* A string that ends in the buffer has a first zero byte.
LEMMA StrLenIsFirst ==
    ASSUME NEW b, Terminated(b)
    PROVE  StrLen(b) \in Index /\ b[StrLen(b)] = NUL /\ \A j \in 0 .. StrLen(b) - 1 : b[j] # NUL
<1> DEFINE Ends == {i \in Index : b[i] = NUL}
           Less == OpToRel(<, Nat)
<1>1. Ends \subseteq Nat /\ Ends # {}
  BY DEF Terminated, Index
<1>2. IsWellFoundedOn(Less, Nat)
  BY NatLessThanWellFounded
<1>3. PICK i \in Ends : \A j \in Ends : ~(<<j, i>> \in Less)
  <2> HIDE DEF Ends, Less
  <2> QED
    BY <1>1, <1>2, WFMin
<1>4. \A j \in Ends : ~(j < i)
  BY <1>1, <1>3 DEF OpToRel
<1>5. \A j \in 0 .. i - 1 : b[j] # NUL
  BY <1>4, SizeAssumption DEF Index
<1> QED
  BY <1>3, <1>5 DEF StrLen

LEMMA TextsAreBytes == ASSUME NEW t \in Texts PROVE t \in Seq(Byte) /\ Len(t) <= SIZE_MAX
BY TextAssumption, SizeAssumption DEF Byte

LEMMA InitInv == Init => Inv
BY SizeAssumption DEF Init, Inv, TypeOK, Index, Size, Byte, Faults, IdleInv, Loops, DeleteInv,
   RandInv, FindInv, StartsInv, In, Promises, LegalIsSafe, DeleteRemoves, RandFills, FindTells,
   StartsTells, Legal

-----------------------------------------------------------------------------
(* The calls.                                                              *)

\* A call that does not return at once has nothing to keep but its loop.
LEMMA CallTypes ==
    ASSUME TypeOK, IdleInv, NEW f \in Functions, NEW t \in Seq(Byte), Len(t) <= SIZE_MAX,
           NEW s \in Size, NEW n \in Size, Called(f, t, s, n),
           buffersize' \in Size, number' \in Size, at' \in {"idle", "loop", "returned"},
           returned' \in {"none", "true", "false"}, fault' \in Faults,
           at' # "returned" => returned' = "none"
    PROVE  TypeOK' /\ IdleInv'
BY DEF TypeOK, IdleInv, Called

LEMMA StrDeleteInv ==
    ASSUME Inv, fault = "none", NEW s \in Size, NEW n \in Size, StrDelete(s, n)
    PROVE  Inv'
<1> USE DEF Inv, StrDelete, Called
<1>1. buffersize' \in Size /\ (s >= n => buffersize' = s - n)
  <2>1. s \in Nat /\ n \in Nat
    BY SizeAssumption DEF Size
  <2>2. CASE s < n
    BY <2>1, <2>2
  <2>3. CASE s >= n
    BY <2>1, <2>3, MinusPart
  <2> QED
    BY <2>1, <2>2, <2>3
<1>2. TypeOK' /\ IdleInv'
  BY <1>1, CallTypes, SizeAssumption DEF Functions, TypeOK, IdleInv, Returns, Size, Faults
<1>3. Loops'
  BY <1>1, SizeAssumption DEF Loops, DeleteInv, RandInv, FindInv, StartsInv, In, IdleInv, Returns, Index, Size
<1>4. Promises'
  BY <1>1 DEF Promises, LegalIsSafe, DeleteRemoves, RandFills, FindTells, StartsTells, IdleInv, Returns
<1> QED
  BY <1>2, <1>3, <1>4

LEMMA StrRandInv ==
    ASSUME Inv, fault = "none", NEW s \in Size, NEW t \in Texts, StrRand(s, t)
    PROVE  Inv'
<1> USE DEF Inv, StrRand, Called
<1>1. TypeOK' /\ IdleInv'
  BY CallTypes, TextsAreBytes, SizeAssumption DEF Functions, TypeOK, IdleInv, Size
<1>2. Loops'
  BY MinusOne, SizeAssumption DEF Loops, DeleteInv, RandInv, FindInv, StartsInv, In, IdleInv, Index, Size
<1>3. Promises'
  BY DEF Promises, LegalIsSafe, DeleteRemoves, RandFills, FindTells, StartsTells, IdleInv
<1> QED
  BY <1>1, <1>2, <1>3

LEMMA StrFindInv ==
    ASSUME Inv, fault = "none", NEW what \in Byte, StrFind(what)
    PROVE  Inv'
<1> USE DEF Inv, StrFind, Called
<1>1. <<what>> \in Seq(Byte) /\ Len(<<what>>) = 1
  OBVIOUS
<1>2. TypeOK' /\ IdleInv'
  BY <1>1, CallTypes, SizeAssumption DEF Functions, TypeOK, IdleInv, Size
<1>3. Loops'
  BY SizeAssumption DEF Loops, DeleteInv, RandInv, FindInv, StartsInv, In, IdleInv, Index
<1>4. Promises'
  BY DEF Promises, LegalIsSafe, DeleteRemoves, RandFills, FindTells, StartsTells, IdleInv
<1> QED
  BY <1>2, <1>3, <1>4

LEMMA StrStartsWithInv ==
    ASSUME Inv, fault = "none", NEW what \in Texts, StrStartsWith(what)
    PROVE  Inv'
<1> USE DEF Inv, StrStartsWith, Called
<1>1. what \in Seq(Byte) /\ Len(what) \in Nat /\ Len(what) <= SIZE_MAX
  BY TextsAreBytes
<1>2. TypeOK' /\ IdleInv'
  BY <1>1, CallTypes, SizeAssumption DEF Functions, TypeOK, IdleInv, Size, Returns, Faults
<1>3. Loops'
  BY <1>1, SizeAssumption DEF Loops, DeleteInv, RandInv, FindInv, StartsInv, In, IdleInv, Index, Returns
<1>4. LegalIsSafe' /\ StartsTells'
  BY <1>1, StrLenIsFirst DEF LegalIsSafe, Legal, StartsTells, IdleInv, Returns, Index
<1>5. DeleteRemoves' /\ RandFills' /\ FindTells'
  BY DEF DeleteRemoves, RandFills, FindTells
<1> QED
  BY <1>2, <1>3, <1>4, <1>5 DEF Promises

LEMMA StrEndsWithInv ==
    ASSUME Inv, fault = "none", NEW what \in Texts, StrEndsWith(what)
    PROVE  Inv'
<1> USE DEF Inv, StrEndsWith, Called
<1>1. what \in Seq(Byte) /\ Len(what) <= SIZE_MAX
  BY TextsAreBytes
<1>2. TypeOK' /\ IdleInv'
  BY <1>1, CallTypes, SizeAssumption DEF Functions, TypeOK, IdleInv, Size, Returns, Truth, Faults
<1>3. Loops'
  BY DEF Loops, DeleteInv, RandInv, FindInv, StartsInv, In
<1>4. Promises'
  BY DEF Promises, LegalIsSafe, Legal, DeleteRemoves, RandFills, FindTells, StartsTells
<1> QED
  BY <1>2, <1>3, <1>4

-----------------------------------------------------------------------------
(* The loops.                                                              *)

\* A step of one function's loop can only disturb what is said of that function.
LEMMA StrDeleteCopiesInv == ASSUME Inv, fault = "none", StrDeleteCopies PROVE Inv'
<1> USE DEF Inv, StrDeleteCopies, In, arguments
<1>1. /\ size >= count /\ buffersize = size - count
      /\ counter < buffersize /\ number = counter + count
      /\ \A i \in Index : buffer[i] = IF i < counter THEN before[i + count] ELSE before[i]
      /\ size \in Nat /\ count \in Nat /\ counter \in Nat
  BY SizeAssumption DEF Loops, DeleteInv, TypeOK, Size
<1>2. CASE counter \in Index /\ number \in Index
  <2>1. /\ buffer' = [buffer EXCEPT ![counter] = buffer[number]]
        /\ counter' = counter + 1 /\ number' = number + 1
        /\ UNCHANGED <<buffersize, checkbuf, at, returned, fault>>
    BY <1>2 DEF Stays
  <2>2. buffer[number] = before[counter + count]
    BY <1>1, <1>2
  <2>3. DeleteInv'
    <3>1. buffer \in [Index -> Byte]
      BY DEF TypeOK
    <3>2. counter' <= buffersize' /\ number' = counter' + count'
      BY <1>1, <1>2, <2>1 DEF Index
    <3>3. ASSUME NEW i \in Index
          PROVE  buffer'[i] = IF i < counter' THEN before[i + count] ELSE before[i]
      <4>1. CASE i = counter
        BY <1>1, <1>2, <2>1, <2>2, <3>1, <4>1
      <4>2. CASE i # counter
        BY <1>1, <1>2, <2>1, <3>1, <4>2 DEF Index
      <4> QED
        BY <4>1, <4>2
    <3> QED
      BY <1>1, <2>1, <3>2, <3>3 DEF DeleteInv
  <2>4. TypeOK' /\ IdleInv'
    BY <1>1, <1>2, <2>1, SizeAssumption DEF TypeOK, IdleInv, Size, Index
  <2>5. Promises' /\ RandInv' /\ FindInv' /\ StartsInv'
    BY <2>1 DEF Promises, LegalIsSafe, DeleteRemoves, RandFills, FindTells, StartsTells,
       RandInv, FindInv, StartsInv, IdleInv
  <2> QED
    BY <2>3, <2>4, <2>5 DEF Loops
<1>3. CASE ~(counter \in Index /\ number \in Index)
  <2>1. fault' = "out_of_bounds" /\ UNCHANGED <<buffer, locals, at, returned>>
    BY <1>3 DEF Fails
  <2>2. ~Legal
    BY <1>1, <1>3, SizeAssumption DEF Legal, Index
  <2>3. TypeOK' /\ IdleInv' /\ Loops'
    BY <2>1 DEF TypeOK, IdleInv, Loops, DeleteInv, RandInv, FindInv, StartsInv, locals, Faults
  <2>4. Promises'
    BY <2>1, <2>2 DEF Promises, LegalIsSafe, Legal, DeleteRemoves, RandFills, FindTells,
       StartsTells, locals
  <2> QED
    BY <2>3, <2>4
<1> QED
  BY <1>2, <1>3

LEMMA StrDeleteEndsInv == ASSUME Inv, fault = "none", StrDeleteEnds PROVE Inv'
<1> USE DEF Inv, StrDeleteEnds, In, arguments
<1>1. /\ size >= count /\ counter = size - count
      /\ \A i \in Index : buffer[i] = IF i < counter THEN before[i + count] ELSE before[i]
      /\ size \in Nat /\ count \in Nat /\ counter \in Nat
  BY SizeAssumption DEF Loops, DeleteInv, TypeOK, Size
<1>2. CASE counter \in Index
  <2>1. /\ buffer' = [buffer EXCEPT ![counter] = NUL]
        /\ at' = "returned" /\ returned' = "true" /\ UNCHANGED <<locals, fault>>
    BY <1>2 DEF Terminates, Returns
  <2>2. TypeOK' /\ IdleInv' /\ Loops'
    BY <2>1 DEF TypeOK, IdleInv, Loops, DeleteInv, RandInv, FindInv, StartsInv, locals, Byte
  <2>3. DeleteRemoves'
    BY <1>1, <1>2, <2>1 DEF DeleteRemoves, TypeOK, Index
  <2>4. LegalIsSafe' /\ RandFills' /\ FindTells' /\ StartsTells'
    BY <2>1 DEF LegalIsSafe, RandFills, FindTells, StartsTells
  <2> QED
    BY <2>2, <2>3, <2>4 DEF Promises
<1>3. CASE counter \notin Index
  <2>1. fault' = "out_of_bounds" /\ UNCHANGED <<buffer, locals, at, returned>>
    BY <1>3 DEF Terminates, Fails
  <2>2. ~Legal
    BY <1>1, <1>3, SizeAssumption DEF Legal, Index
  <2>3. TypeOK' /\ IdleInv' /\ Loops'
    BY <2>1 DEF TypeOK, IdleInv, Loops, DeleteInv, RandInv, FindInv, StartsInv, locals, Faults
  <2>4. Promises'
    BY <2>1, <2>2 DEF Promises, LegalIsSafe, Legal, DeleteRemoves, RandFills, FindTells,
       StartsTells, locals
  <2> QED
    BY <2>3, <2>4
<1> QED
  BY <1>2, <1>3

LEMMA StrRandPicksInv == ASSUME Inv, fault = "none", StrRandPicks PROVE Inv'
<1> USE DEF Inv, StrRandPicks, In, arguments
<1> DEFINE range == Minus(Len(text), 1)
<1>1. /\ buffersize = size /\ counter < Minus(size, 1)
      /\ size \in Nat /\ counter \in Nat /\ Minus(size, 1) \in Nat
      /\ Len(text) \in Size /\ Len(text) \in Nat /\ text \in Seq(Byte)
  BY MinusOne, SizeAssumption DEF Loops, RandInv, TypeOK, IdleInv, Size
<1>2. range \in Nat /\ (Len(text) > 0 => range = Len(text) - 1) /\ (Len(text) = 0 => range = SIZE_MAX)
  <2>1. /\ range \in Size
        /\ Len(text) > 0 => range = Len(text) - 1
        /\ Len(text) = 0 => range = SIZE_MAX
    <3> HIDE DEF Inv, StrRandPicks, In
    <3> QED
      BY <1>1, MinusOne
  <2> QED
    BY <2>1, SizeAssumption DEF Size
<1> HIDE DEF range
<1>3. ASSUME NEW randnum \in 0 .. range - 1, randnum <= Len(text), counter \in Index,
             buffer' = [buffer EXCEPT ![counter] = CharAt(text, randnum)],
             counter' = counter + 1, UNCHANGED <<buffersize, number, checkbuf>>, Stays
      PROVE  Inv'
  <2>1. CharAt(text, randnum) \in Byte
    BY <1>1, <1>2, <1>3 DEF CharAt, Byte
  <2>2. Len(text) >= 2 => \E k \in 1 .. Len(text) - 1 : CharAt(text, randnum) = text[k]
    <3> SUFFICES ASSUME Len(text) >= 2
                 PROVE  \E k \in 1 .. Len(text) - 1 : CharAt(text, randnum) = text[k]
      OBVIOUS
    <3>1. randnum + 1 \in 1 .. Len(text) - 1 /\ randnum < Len(text)
      BY <1>1, <1>2, <1>3
    <3> QED
      BY <3>1 DEF CharAt
  <2>3. TypeOK' /\ IdleInv'
    BY <1>1, <1>3, <2>1, SizeAssumption DEF TypeOK, IdleInv, Size, Index, Stays
  <2>4. buffer \in [Index -> Byte]
    BY DEF TypeOK
  <2>5. counter' <= Minus(size', 1)
    BY <1>1, <1>3
  <2>6. ASSUME NEW i \in Index
        PROVE  IF i < counter'
               THEN Len(text) >= 2 => \E k \in 1 .. Len(text) - 1 : buffer'[i] = text[k]
               ELSE buffer'[i] = before[i]
    <3>1. CASE i = counter
      BY <1>1, <1>3, <2>2, <2>4, <3>1
    <3>2. CASE i # counter
      <4>1. buffer'[i] = buffer[i] /\ (i < counter' <=> i < counter)
        BY <1>1, <1>3, <2>4, <3>2 DEF Index
      <4> QED
        BY <4>1 DEF Loops, RandInv
    <3> QED
      BY <3>1, <3>2
  <2>7. RandInv'
    BY <1>1, <1>3, <2>5, <2>6 DEF RandInv
  <2>8. Promises' /\ DeleteInv' /\ FindInv' /\ StartsInv'
    BY <1>3 DEF Promises, LegalIsSafe, DeleteRemoves, RandFills, FindTells, StartsTells,
       DeleteInv, FindInv, StartsInv, IdleInv, Stays
  <2> QED
    BY <2>3, <2>7, <2>8 DEF Loops
<1>4. ASSUME NEW f \in {"out_of_bounds", "division_by_zero"}, Fails(f), ~Legal
      PROVE  Inv'
  <2>1. TypeOK' /\ IdleInv' /\ Loops'
    BY <1>4 DEF Fails, TypeOK, IdleInv, Loops, DeleteInv, RandInv, FindInv, StartsInv, locals, Faults
  <2>2. Promises'
    BY <1>4 DEF Fails, Promises, LegalIsSafe, Legal, DeleteRemoves, RandFills, FindTells,
       StartsTells, locals
  <2> QED
    BY <2>1, <2>2
<1>5. CASE range = 0 /\ Fails("division_by_zero")
  <2>1. ~Legal
    <3>1. Len(text) < 2
      <4>1. Len(text) \in Nat /\ (Len(text) > 0 => Len(text) - 1 = 0)
        BY <1>1, <1>2, <1>5
      <4> QED
        BY <4>1
    <3> QED
      BY <1>1, <3>1 DEF Legal
  <2> QED
    BY <1>4, <1>5, <2>1
<1>6. ASSUME NEW randnum \in 0 .. range - 1, ~(randnum <= Len(text) /\ counter \in Index),
             Fails("out_of_bounds")
      PROVE  Inv'
  <2>1. ~Legal
    <3> SUFFICES ASSUME Legal PROVE FALSE
      OBVIOUS
    <3>1. size \in 1 .. Capacity /\ Len(text) >= 2
      BY DEF Legal
    <3>2. Minus(size, 1) = size - 1
      BY <1>1, <3>1, MinusOne, SizeAssumption DEF Size
    <3> QED
      BY <1>1, <1>2, <1>6, <3>1, <3>2, SizeAssumption DEF Index
  <2> QED
    BY <1>4, <1>6, <2>1
<1> QED
  BY <1>3, <1>5, <1>6 DEF range

LEMMA StrRandEndsInv == ASSUME Inv, fault = "none", StrRandEnds PROVE Inv'
<1> USE DEF Inv, StrRandEnds, In, arguments
<1>1. /\ counter = Minus(size, 1) /\ size \in Size /\ counter \in Nat
      /\ \A i \in Index :
             IF i < counter
             THEN Len(text) >= 2 => \E k \in 1 .. Len(text) - 1 : buffer[i] = text[k]
             ELSE buffer[i] = before[i]
  BY MinusOne, SizeAssumption DEF Loops, RandInv, TypeOK, Size
<1>2. CASE counter \in Index
  <2>1. /\ buffer' = [buffer EXCEPT ![counter] = NUL]
        /\ at' = "returned" /\ returned' = "none" /\ UNCHANGED <<locals, fault>>
    BY <1>2 DEF Terminates, Returns
  <2>2. TypeOK' /\ IdleInv' /\ Loops'
    BY <2>1 DEF TypeOK, IdleInv, Loops, DeleteInv, RandInv, FindInv, StartsInv, locals, Byte
  <2>3. counter = size - 1
    BY <1>1, <1>2, MinusOne, SizeAssumption DEF Size, Index
  <2>4. buffer \in [Index -> Byte]
    BY DEF TypeOK
  <2>5. ASSUME NEW i \in Index, Len(text) >= 2
        PROVE  \/ i < size - 1 /\ \E k \in 1 .. Len(text) - 1 : buffer'[i] = text[k]
               \/ i = size - 1 /\ buffer'[i] = NUL
               \/ i >= size /\ buffer'[i] = before[i]
    BY <1>1, <1>2, <2>1, <2>3, <2>4, <2>5, SizeAssumption DEF Index, Size
  <2>6. RandFills'
    BY <2>5 DEF RandFills
  <2>7. LegalIsSafe' /\ DeleteRemoves' /\ FindTells' /\ StartsTells'
    BY <2>1 DEF LegalIsSafe, DeleteRemoves, FindTells, StartsTells
  <2> QED
    BY <2>2, <2>6, <2>7 DEF Promises
<1>3. CASE counter \notin Index
  <2>1. fault' = "out_of_bounds" /\ UNCHANGED <<buffer, locals, at, returned>>
    BY <1>3 DEF Terminates, Fails
  <2>2. ~Legal
    BY <1>1, <1>3, MinusOne, SizeAssumption DEF Legal, Index, Size
  <2>3. TypeOK' /\ IdleInv' /\ Loops'
    BY <2>1 DEF TypeOK, IdleInv, Loops, DeleteInv, RandInv, FindInv, StartsInv, locals, Faults
  <2>4. Promises'
    BY <2>1, <2>2 DEF Promises, LegalIsSafe, Legal, DeleteRemoves, RandFills, FindTells,
       StartsTells, locals
  <2> QED
    BY <2>3, <2>4
<1> QED
  BY <1>2, <1>3

LEMMA StrFindLooksInv == ASSUME Inv, fault = "none", StrFindLooks PROVE Inv'
<1> USE DEF Inv, StrFindLooks, In, arguments
<1>1. /\ buffer = before /\ counter <= Capacity /\ counter \in Nat
      /\ \A j \in Index : j < counter => before[j] \notin {NUL, text[1]}
  BY SizeAssumption DEF Loops, FindInv, TypeOK, Size
<1>2. ASSUME counter \in Index, UNCHANGED locals, UNCHANGED buffer,
             \/ buffer[counter] = NUL /\ Returns("false")
             \/ buffer[counter] # NUL /\ buffer[counter] = text[1] /\ Returns("true")
      PROVE  Inv'
  <2>1. TypeOK' /\ IdleInv' /\ Loops'
    BY <1>2 DEF TypeOK, IdleInv, Loops, DeleteInv, RandInv, FindInv, StartsInv, locals, Returns
  <2>2. returned' = "true" <=>
            \E i \in Index : before[i] = text[1] /\ \A j \in 0 .. i : before[j] # NUL
    <3>1. CASE buffer[counter] = NUL
      <4>1. ASSUME NEW i \in Index, before[i] = text[1], \A j \in 0 .. i : before[j] # NUL
            PROVE  FALSE
        BY <1>1, <1>2, <3>1, <4>1 DEF Index
      <4> QED
        BY <1>2, <3>1, <4>1 DEF Returns
    <3>2. CASE buffer[counter] # NUL
      <4>1. \A j \in 0 .. counter : before[j] # NUL
        BY <1>1, <1>2, <3>2, SizeAssumption DEF Index
      <4> QED
        BY <1>1, <1>2, <3>2, <4>1 DEF Returns
    <3> QED
      BY <3>1, <3>2
  <2>3. FindTells'
    BY <2>2 DEF FindTells
  <2>4. LegalIsSafe' /\ DeleteRemoves' /\ RandFills' /\ StartsTells'
    BY <1>2 DEF LegalIsSafe, DeleteRemoves, RandFills, StartsTells, Returns
  <2> QED
    BY <2>1, <2>3, <2>4 DEF Promises
<1>3. CASE /\ counter \in Index /\ buffer[counter] \notin {NUL, text[1]}
           /\ counter' = counter + 1 /\ UNCHANGED <<buffersize, number, checkbuf, buffer>> /\ Stays
  <2>1. TypeOK' /\ IdleInv'
    BY <1>1, <1>3, SizeAssumption DEF TypeOK, IdleInv, Size, Index, Stays
  <2>2. FindInv'
    BY <1>1, <1>3, SizeAssumption DEF FindInv, Index, Stays
  <2>3. Promises' /\ DeleteInv' /\ RandInv' /\ StartsInv'
    BY <1>3 DEF Promises, LegalIsSafe, DeleteRemoves, RandFills, FindTells, StartsTells,
       DeleteInv, RandInv, StartsInv, IdleInv, Stays
  <2> QED
    BY <2>1, <2>2, <2>3 DEF Loops
<1>4. CASE counter \notin Index /\ Fails("out_of_bounds")
  <2>1. ~Legal
    BY <1>1, <1>4, SizeAssumption DEF Legal, Index, Terminated
  <2>2. TypeOK' /\ IdleInv' /\ Loops'
    BY <1>4 DEF Fails, TypeOK, IdleInv, Loops, DeleteInv, RandInv, FindInv, StartsInv, locals, Faults
  <2>3. Promises'
    BY <1>4, <2>1 DEF Fails, Promises, LegalIsSafe, Legal, DeleteRemoves, RandFills, FindTells,
       StartsTells, locals
  <2> QED
    BY <2>2, <2>3
<1> QED
  BY <1>2, <1>3, <1>4

LEMMA StrStartsWithCopiesInv == ASSUME Inv, fault = "none", StrStartsWithCopies PROVE Inv'
<1> USE DEF Inv, StrStartsWithCopies, In, arguments, Stays
<1>1. /\ buffer = before /\ Terminated(before) /\ Len(text) <= StrLen(before)
      /\ counter < Len(text) /\ Len(checkbuf) = counter
      /\ \A i \in 1 .. counter : checkbuf[i] = before[i - 1]
      /\ counter \in Nat /\ Len(text) \in Nat /\ checkbuf \in Seq(Byte)
  BY SizeAssumption DEF Loops, StartsInv, TypeOK, Size
<1>2. counter \in Index /\ buffer[counter] \in Byte
  <2>1. StrLen(before) \in Index
    BY <1>1, StrLenIsFirst
  <2>2. counter \in Index
    BY <1>1, <2>1, SizeAssumption DEF Index
  <2> QED
    BY <2>2 DEF TypeOK
<1>3. TypeOK' /\ IdleInv'
  BY <1>1, <1>2, SizeAssumption DEF TypeOK, IdleInv, Size
<1>4. StartsInv'
  <2>1. Len(checkbuf') = counter'
    BY <1>1, <1>2
  <2>2. ASSUME NEW i \in 1 .. counter'
        PROVE  checkbuf'[i] = before[i - 1]
    <3>1. CASE i = counter + 1
      BY <1>1, <1>2, <3>1
    <3>2. CASE i # counter + 1
      BY <1>1, <1>2, <3>2
    <3> QED
      BY <3>1, <3>2
  <2> QED
    BY <1>1, <2>1, <2>2 DEF StartsInv
<1>5. Promises' /\ DeleteInv' /\ RandInv' /\ FindInv'
  BY DEF Promises, LegalIsSafe, DeleteRemoves, RandFills, FindTells, StartsTells,
     DeleteInv, RandInv, FindInv, IdleInv
<1> QED
  BY <1>3, <1>4, <1>5 DEF Loops

LEMMA StrStartsWithEndsInv == ASSUME Inv, fault = "none", StrStartsWithEnds PROVE Inv'
<1> USE DEF Inv, StrStartsWithEnds, In, arguments, Returns
<1>1. /\ Len(text) <= StrLen(before) /\ Len(checkbuf) = Len(text)
      /\ \A i \in 1 .. Len(text) : checkbuf[i] = before[i - 1]
      /\ checkbuf \in Seq(Byte) /\ text \in Seq(Byte)
  BY SizeAssumption DEF Loops, StartsInv, TypeOK, Size
<1>2. checkbuf = text <=> \A i \in 1 .. Len(text) : before[i - 1] = text[i]
  <2>1. ASSUME \A i \in 1 .. Len(text) : before[i - 1] = text[i]
        PROVE  checkbuf = text
    BY <1>1, <2>1, SeqEqual
  <2> QED
    BY <1>1, <2>1
<1>3. StartsTells'
  BY <1>1, <1>2 DEF StartsTells, Truth
<1>4. TypeOK' /\ IdleInv' /\ Loops'
  BY DEF TypeOK, IdleInv, Loops, DeleteInv, RandInv, FindInv, StartsInv, locals, Truth
<1>5. LegalIsSafe' /\ DeleteRemoves' /\ RandFills' /\ FindTells'
  BY DEF LegalIsSafe, DeleteRemoves, RandFills, FindTells
<1> QED
  BY <1>3, <1>4, <1>5 DEF Promises

-----------------------------------------------------------------------------
LEMMA StepInv == Inv /\ [Next]_vars => Inv'
<1> SUFFICES ASSUME Inv, [Next]_vars
             PROVE  Inv'
  OBVIOUS
<1>1. CASE fault = "none" /\ Call
  BY <1>1, StrDeleteInv, StrRandInv, StrFindInv, StrStartsWithInv, StrEndsWithInv DEF Call
<1>2. CASE fault = "none" /\ Iterate
  BY <1>2, StrDeleteCopiesInv, StrDeleteEndsInv, StrRandPicksInv, StrRandEndsInv,
     StrFindLooksInv, StrStartsWithCopiesInv, StrStartsWithEndsInv DEF Iterate
<1>3. CASE UNCHANGED vars
  BY <1>3 DEF vars, arguments, locals, Inv, TypeOK, IdleInv, Loops, DeleteInv, RandInv, FindInv,
     StartsInv, In, Promises, LegalIsSafe, Legal, DeleteRemoves, RandFills, FindTells, StartsTells
<1> QED
  BY <1>1, <1>2, <1>3 DEF Next

LEMMA Invariance == Spec => []Inv
BY InitInv, StepInv, PTL DEF Spec

\* The types, for every buffer, string and width of size_t: no counter leaves
\* the range of a size_t.
THEOREM StringTypeCorrect == Spec => []TypeOK
BY Invariance, PTL DEF Inv

\* A legal call touches no byte outside of its buffer and divides by no zero.
THEOREM LegalCorrect == Spec => []LegalIsSafe
BY Invariance, PTL DEF Inv, Promises

\* strdelete removes what it was told to and nothing else.
THEOREM DeleteCorrect == Spec => []DeleteRemoves
BY Invariance, PTL DEF Inv, Promises

\* strrand fills the buffer from the table and ends it with a zero byte.
THEOREM RandCorrect == Spec => []RandFills
BY Invariance, PTL DEF Inv, Promises

\* strfind finds the characters of the string, and strstartswith its prefixes.
THEOREM SearchesCorrect == Spec => []SearchesTell
BY Invariance, PTL DEF Inv, Promises, SearchesTell

-----------------------------------------------------------------------------
(* Each iteration has one less to go.                                      *)

LEMMA IterateAdvances ==
    ASSUME Inv, at = "loop", fault' = "none", at' = "loop", Iterate
    PROVE  IterationsLeft' \in 0 .. IterationsLeft - 1
<1> USE DEF In, arguments, Stays, Returns, Fails, Terminates, IterationsLeft
<1>1. counter \in Nat /\ Capacity \in Nat /\ SIZE_MAX \in Nat
  BY SizeAssumption DEF Inv, TypeOK, Size
<1>2. CASE StrDeleteCopies
  <2>1. buffersize \in Nat /\ counter < buffersize
    BY <1>2, SizeAssumption DEF StrDeleteCopies, Inv, TypeOK, Size
  <2> QED
    BY <1>1, <1>2, <2>1 DEF StrDeleteCopies
<1>3. CASE StrRandPicks
  <2>1. Minus(buffersize, 1) \in Nat /\ counter < Minus(buffersize, 1)
    BY <1>3, MinusOne, SizeAssumption DEF StrRandPicks, Inv, TypeOK, Size
  <2>2. counter' = counter + 1 /\ UNCHANGED <<function, buffersize>>
    BY <1>3 DEF StrRandPicks
  <2>3. function = "strrand" /\ Minus(buffersize', 1) = Minus(buffersize, 1)
    BY <1>3, <2>2 DEF StrRandPicks
  <2>4. IterationsLeft' = Minus(buffersize, 1) - counter'
    BY <2>2, <2>3
  <2> QED
    BY <1>1, <2>1, <2>2, <2>3, <2>4
<1>4. CASE StrFindLooks
  BY <1>1, <1>4 DEF StrFindLooks, Index
<1>5. CASE StrStartsWithCopies
  <2>1. Len(text) \in Nat /\ counter < Len(text)
    BY <1>5 DEF StrStartsWithCopies, Inv, TypeOK
  <2> QED
    BY <1>1, <1>5, <2>1 DEF StrStartsWithCopies
<1>6. ~(StrDeleteEnds \/ StrRandEnds \/ StrStartsWithEnds)
  BY DEF StrDeleteEnds, StrRandEnds, StrStartsWithEnds
<1> QED
  BY <1>2, <1>3, <1>4, <1>5, <1>6 DEF Iterate

\* No loop goes round without coming closer to its end, for any buffer, any
\* arguments and any width of size_t: every call takes a bounded number of steps.
THEOREM AdvanceCorrect == Spec => LoopsAdvance
<1> DEFINE Advances ==
      at = "loop" /\ at' = "loop" /\ fault' = "none" => IterationsLeft' \in 0 .. IterationsLeft - 1
<1>1. Inv /\ [Next]_vars => [Advances]_vars
  <2> SUFFICES ASSUME Inv, Next, at = "loop", at' = "loop", fault' = "none"
               PROVE  IterationsLeft' \in 0 .. IterationsLeft - 1
    OBVIOUS
  <2>1. ~Call
    BY DEF Call, Called, StrDelete, StrRand, StrFind, StrStartsWith, StrEndsWith
  <2> QED
    BY <2>1, IterateAdvances DEF Next
<1> QED
  BY <1>1, Invariance, PTL DEF Spec, LoopsAdvance

=============================================================================
