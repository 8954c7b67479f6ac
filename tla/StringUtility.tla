--------------------------- MODULE StringUtility ----------------------------
(***************************************************************************)
(* The string functions of Utility.cpp, loop by loop: strdelete, strrand,  *)
(* strfind, strstartswith and strendswith.  They keep no state between     *)
(* calls, so a behaviour is one call, on a buffer of Capacity bytes with   *)
(* any contents; a size_t is a number modulo SIZE_MAX + 1.  The const      *)
(* char* argument is a sequence of characters, without its zero byte.      *)
(*                                                                         *)
(* Where the C code would read or write outside of the buffer, or divide   *)
(* by zero, the model records a fault and stops.                           *)
(***************************************************************************)
EXTENDS Integers, Sequences

CONSTANTS
    Char,        \* the characters other than the zero byte
    NUL,         \* the zero byte
    Capacity,    \* bytes of the buffer that the caller owns
    Texts,       \* the strings that are passed as what and as table
    SIZE_MAX     \* largest size_t

ASSUME CharAssumption == NUL \notin Char
ASSUME TextAssumption == Texts \subseteq Seq(Char)
ASSUME SizeAssumption ==
    /\ Capacity \in Nat \ {0} /\ SIZE_MAX \in Nat /\ Capacity < SIZE_MAX
    /\ \A text \in Texts : Len(text) <= SIZE_MAX

Byte == Char \cup {NUL}
Index == 0 .. Capacity - 1
Size == 0 .. SIZE_MAX

VARIABLES
    function,      \* the function that was called
    buffer,
    before,        \* the buffer at the time of the call
    text,          \* what, or table
    size, count,   \* the arguments buffersize and number of the call
    buffersize, number, counter,     \* the variables of the loops
    checkbuf,      \* what strstartswith has copied
    at,            \* idle, loop, or returned
    returned,      \* the value, if the function has one
    fault

arguments == <<function, before, text, size, count>>
locals == <<buffersize, number, counter, checkbuf>>
vars == <<arguments, buffer, locals, at, returned, fault>>

Functions == {"strdelete", "strrand", "strfind", "strstartswith", "strendswith"}
Faults == {"none", "out_of_bounds", "division_by_zero"}

TypeOK ==
    /\ function \in Functions \cup {"none"}
    /\ buffer \in [Index -> Byte] /\ before \in [Index -> Byte]
    /\ text \in Seq(Byte)
    /\ size \in Size /\ count \in Size
    /\ buffersize \in Size /\ number \in Size /\ counter \in Size
    /\ checkbuf \in Seq(Byte)
    /\ at \in {"idle", "loop", "returned"}
    /\ returned \in {"none", "true", "false"}
    /\ fault \in Faults

Init ==
    /\ function = "none"
    /\ buffer \in [Index -> Byte] /\ before = buffer
    /\ text = <<>> /\ size = 0 /\ count = 0
    /\ buffersize = 0 /\ number = 0 /\ counter = 0
    /\ checkbuf = <<>>
    /\ at = "idle" /\ returned = "none"
    /\ fault = "none"

\* size_t arithmetic.
Minus(a, b) == (a - b) % (SIZE_MAX + 1)

\* strlen(buffer), which has to find a zero byte in the buffer.
Terminated(b) == \E i \in Index : b[i] = NUL
StrLen(b) == CHOOSE i \in Index : b[i] = NUL /\ \A j \in 0 .. i - 1 : b[j] # NUL

Truth(p) == IF p THEN "true" ELSE "false"

-----------------------------------------------------------------------------
Called(f, t, s, n) ==
    /\ at = "idle"
    /\ function' = f /\ text' = t /\ size' = s /\ count' = n
    /\ UNCHANGED <<buffer, before, counter, checkbuf>>

In(f) == at = "loop" /\ function = f

Stays == UNCHANGED <<at, returned, fault>>
Returns(value) == at' = "returned" /\ returned' = value /\ UNCHANGED fault
Fails(f) == fault' = f /\ UNCHANGED <<buffer, locals, at, returned>>

\* strdelete(buffer, buffersize, number).
\* Mutant: the test of the two numbers is left out.
StrDelete_Untested(s, n) ==
    /\ Called("strdelete", <<>>, s, n)
    /\ number' = n
    /\ buffersize' = Minus(s, n) /\ at' = "loop" /\ UNCHANGED <<returned, fault>>

StrDelete(s, n) ==
    /\ Called("strdelete", <<>>, s, n)
    /\ number' = n
    /\ \/ s < n /\ buffersize' = s /\ Returns("false")
       \/ s >= n /\ buffersize' = Minus(s, n) /\ at' = "loop" /\ UNCHANGED <<returned, fault>>

StrDeleteCopies ==
    /\ In("strdelete") /\ counter < buffersize
    /\ \/ /\ counter \in Index /\ number \in Index
          /\ buffer' = [buffer EXCEPT ![counter] = buffer[number]]
          /\ counter' = counter + 1 /\ number' = number + 1
          /\ UNCHANGED <<buffersize, checkbuf>> /\ Stays
       \/ ~(counter \in Index /\ number \in Index) /\ Fails("out_of_bounds")
    /\ UNCHANGED arguments

\* The zero byte that strdelete and strrand write behind the rest.
\* Mutant: it is written one byte too early.
Terminates_Early(value) ==
    \/ /\ counter \in Index
       /\ buffer' = [buffer EXCEPT ![IF counter > 0 THEN counter - 1 ELSE 0] = NUL]
       /\ UNCHANGED locals /\ Returns(value)
    \/ counter \notin Index /\ Fails("out_of_bounds")

Terminates(value) ==
    \/ /\ counter \in Index
       /\ buffer' = [buffer EXCEPT ![counter] = NUL]
       /\ UNCHANGED locals /\ Returns(value)
    \/ counter \notin Index /\ Fails("out_of_bounds")

StrDeleteEnds ==
    /\ In("strdelete") /\ counter >= buffersize
    /\ Terminates("true")
    /\ UNCHANGED arguments

-----------------------------------------------------------------------------
(***************************************************************************)
(* strrand(buffer, buffersize, table).  rand() may be any number; it is    *)
(* reduced modulo the length of the table less one, which is 0 for one     *)
(* character and SIZE_MAX for none.                                        *)
(***************************************************************************)
\* Mutant: the room for the zero byte is taken off once, in an int.
StrRand_Room(s, table) ==
    /\ Called("strrand", table, s, 0)
    /\ buffersize' = s - 1 /\ number' = 0
    /\ at' = "loop" /\ UNCHANGED <<returned, fault>>

StrRand(s, table) ==
    /\ Called("strrand", table, s, 0)
    /\ buffersize' = s /\ number' = 0
    /\ at' = "loop" /\ UNCHANGED <<returned, fault>>

\* The bytes of a C string, from 0 to its length.
CharAt(t, i) == IF i < Len(t) THEN t[i + 1] ELSE NUL

\* Mutant: the counter is narrower than a size_t, and wraps before the bound.
StrRandPicks_Narrow ==
    /\ In("strrand") /\ counter < Minus(buffersize, 1)
    /\ LET range == Minus(Len(text), 1) IN
       \/ range = 0 /\ Fails("division_by_zero")
       \/ \E randnum \in 0 .. range - 1 :
            \/ /\ randnum <= Len(text) /\ counter \in Index
               /\ buffer' = [buffer EXCEPT ![counter] = CharAt(text, randnum)]
               /\ counter' = (counter + 1) % Capacity
               /\ UNCHANGED <<buffersize, number, checkbuf>> /\ Stays
            \/ ~(randnum <= Len(text) /\ counter \in Index) /\ Fails("out_of_bounds")
    /\ UNCHANGED arguments

StrRandPicks ==
    /\ In("strrand") /\ counter < Minus(buffersize, 1)
    /\ LET range == Minus(Len(text), 1) IN
       \/ range = 0 /\ Fails("division_by_zero")
       \/ \E randnum \in 0 .. range - 1 :
            \/ /\ randnum <= Len(text) /\ counter \in Index
               /\ buffer' = [buffer EXCEPT ![counter] = CharAt(text, randnum)]
               /\ counter' = counter + 1
               /\ UNCHANGED <<buffersize, number, checkbuf>> /\ Stays
            \/ ~(randnum <= Len(text) /\ counter \in Index) /\ Fails("out_of_bounds")
    /\ UNCHANGED arguments

\* Mutant: the loop leaves no room for the zero byte.
StrRandEnds_Late ==
    /\ In("strrand") /\ counter >= Minus(buffersize, 1)
    /\ buffer' = [i \in Index |-> IF i = counter THEN CharAt(text, 0) ELSE IF i = counter + 1 THEN NUL ELSE buffer[i]]
    /\ UNCHANGED locals /\ Returns("none")
    /\ UNCHANGED arguments

StrRandEnds ==
    /\ In("strrand") /\ counter >= Minus(buffersize, 1)
    /\ Terminates("none")
    /\ UNCHANGED arguments

-----------------------------------------------------------------------------
\* strfind(buffer, what): what may be any byte.
StrFind(what) ==
    /\ Called("strfind", <<what>>, 0, 0)
    /\ at' = "loop" /\ UNCHANGED <<buffersize, number, returned, fault>>

\* Mutant: the pointer is not moved.
StrFindLooks_Stuck ==
    /\ In("strfind")
    /\ \/ counter \notin Index /\ Fails("out_of_bounds")
       \/ /\ counter \in Index
          /\ \/ buffer[counter] = NUL /\ Returns("false")
             \/ buffer[counter] # NUL /\ buffer[counter] = text[1] /\ Returns("true")
             \/ buffer[counter] \notin {NUL, text[1]} /\ Stays
          /\ UNCHANGED <<buffer, locals>>
    /\ UNCHANGED arguments

StrFindLooks ==
    /\ In("strfind")
    /\ \/ counter \notin Index /\ Fails("out_of_bounds")
       \/ /\ counter \in Index
          /\ \/ buffer[counter] = NUL /\ UNCHANGED locals /\ Returns("false")
             \/ buffer[counter] # NUL /\ buffer[counter] = text[1]
                /\ UNCHANGED locals /\ Returns("true")
             \/ /\ buffer[counter] \notin {NUL, text[1]}
                /\ counter' = counter + 1 /\ UNCHANGED <<buffersize, number, checkbuf>> /\ Stays
          /\ UNCHANGED buffer
    /\ UNCHANGED arguments

-----------------------------------------------------------------------------
\* strstartswith(buffer, what) copies as many bytes as what has and compares
\* them with strcmp.
StrStartsWith(what) ==
    /\ Called("strstartswith", what, 0, 0)
    /\ UNCHANGED <<buffersize, number>>
    /\ \/ ~Terminated(buffer) /\ fault' = "out_of_bounds" /\ UNCHANGED <<at, returned>>
       \/ Terminated(buffer) /\ Len(what) > StrLen(buffer) /\ Returns("false")
       \/ /\ Terminated(buffer) /\ Len(what) <= StrLen(buffer)
          /\ at' = "loop" /\ UNCHANGED <<returned, fault>>

StrStartsWithCopies ==
    /\ In("strstartswith") /\ counter < Len(text)
    /\ checkbuf' = Append(checkbuf, buffer[counter])
    /\ counter' = counter + 1
    /\ UNCHANGED <<arguments, buffer, buffersize, number>> /\ Stays

\* Mutant: the last character is not compared.
StrStartsWithEnds_Short ==
    /\ In("strstartswith") /\ counter >= Len(text)
    /\ Returns(Truth(\A i \in 1 .. Len(text) - 1 : checkbuf[i] = text[i]))
    /\ UNCHANGED <<arguments, buffer, locals>>

StrStartsWithEnds ==
    /\ In("strstartswith") /\ counter >= Len(text)
    /\ Returns(Truth(checkbuf = text))
    /\ UNCHANGED <<arguments, buffer, locals>>

(***************************************************************************)
(* strendswith(buffer, what).  "endsize > -1" compares a size_t with       *)
(* SIZE_MAX and is never true: nothing is copied, and strcmp compares what *)
(* with memory that was not written, and may find no zero byte in it.      *)
(***************************************************************************)
StrEndsWith(what) ==
    /\ Called("strendswith", what, 0, 0)
    /\ \/ Terminated(buffer) /\ \E value \in BOOLEAN : Returns(Truth(value))
       \/ fault' = "out_of_bounds" /\ UNCHANGED <<at, returned>>
    /\ UNCHANGED <<buffersize, number>>

-----------------------------------------------------------------------------
Call ==
    \/ \E s \in Size, n \in Size : StrDelete(s, n)
    \/ \E s \in Size, table \in Texts : StrRand(s, table)
    \/ \E what \in Byte : StrFind(what)
    \/ \E what \in Texts : StrStartsWith(what) \/ StrEndsWith(what)

Iterate ==
    \/ StrDeleteCopies \/ StrDeleteEnds
    \/ StrRandPicks \/ StrRandEnds
    \/ StrFindLooks
    \/ StrStartsWithCopies \/ StrStartsWithEnds

Next == fault = "none" /\ (Call \/ Iterate)

Spec == Init /\ [][Next]_vars

\* A function that was called runs on.
FairSpec == Spec /\ WF_vars(fault = "none" /\ Iterate)

-----------------------------------------------------------------------------
\* Calls that keep within the buffer: strdelete of a part of the buffer,
\* unless it is all of it and nothing is deleted; strrand with room for the
\* zero byte and a table of two characters; and, for the others, a string that
\* ends in the buffer.  strendswith has no such calls.
Legal ==
    CASE function = "strdelete" -> size <= Capacity /\ (count = 0 => size < Capacity)
      [] function = "strrand" -> size \in 1 .. Capacity /\ Len(text) >= 2
      [] function \in {"strfind", "strstartswith"} -> Terminated(before)
      [] OTHER -> FALSE

\* Utility.cpp:48-119: a legal call reads and writes no byte outside of the
\* buffer and divides by no zero, however many bytes it deletes, more than
\* there are included.
LegalIsSafe == Legal => fault = "none"

\* strdelete moves the bytes behind the deleted ones to the front, although it
\* copies within one buffer and changes the bounds of its own loop, writes one
\* zero byte behind them, and touches nothing else.
DeleteRemoves ==
    function = "strdelete" /\ returned = "true" =>
        \A i \in Index :
            buffer[i] = CASE i < size - count -> before[i + count]
                          [] i = size - count -> NUL
                          [] OTHER            -> before[i]

\* strrand fills all but the last of the bytes it was given with characters of
\* the table, never the last one of it, ends them with the only zero byte, and
\* leaves the bytes behind alone.
RandFills ==
    function = "strrand" /\ at = "returned" /\ Len(text) >= 2 =>
        \A i \in Index :
            \/ i < size - 1 /\ \E k \in 1 .. Len(text) - 1 : buffer[i] = text[k]
            \/ i = size - 1 /\ buffer[i] = NUL
            \/ i >= size /\ buffer[i] = before[i]

\* The searches of Utility.cpp:83-119 (strfind, strstartswith) answer what their
\* names ask.  strfind finds exactly the characters before the end of the string; the zero
\* byte is none of them.
FindTells ==
    function = "strfind" /\ at = "returned" =>
        (returned = "true" <=>
            \E i \in Index :
                before[i] = text[1] /\ \A j \in 0 .. i : before[j] # NUL)

\* And strstartswith is true for the prefixes of the buffer's string and for
\* nothing else, the empty string and the whole string included.
StartsTells ==
    function = "strstartswith" /\ at = "returned" =>
        (returned = "true" <=>
            /\ Len(text) <= StrLen(before)
            /\ \A i \in 1 .. Len(text) : before[i - 1] = text[i])

SearchesTell == FindTells /\ StartsTells

\* The iterations that the loop of a function has left.
IterationsLeft ==
    CASE function = "strdelete" -> buffersize - counter
      [] function = "strrand"   -> Minus(buffersize, 1) - counter
      [] function = "strfind"   -> Capacity - counter
      [] OTHER                  -> Len(text) - counter

\* Why every call comes to its end (the loops of Utility.cpp:48-119): an iteration
\* that does not leave the loop has one less to go, and no counter, bound or
\* size_t difference wraps so that the loop would miss its end, whatever the
\* arguments are.
LoopsAdvance ==
    [][at = "loop" /\ at' = "loop" /\ fault' = "none" =>
         IterationsLeft' \in 0 .. IterationsLeft - 1]_vars

\* Every call comes to its end, in a value or in a fault: also strrand with a
\* buffersize that wraps, and strfind in a buffer without a zero byte.
CallsEnd == at = "loop" ~> (at = "returned" \/ fault # "none")

=============================================================================
