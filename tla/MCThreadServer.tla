--------------------------- MODULE MCThreadServer ---------------------------
(***************************************************************************)
(* Instances of ThreadServer for TLC: the codes a module's Initialize may  *)
(* return, with an unsigned long of three bits.                            *)
(***************************************************************************)
EXTENDS ThreadServer

\* No error, ERROR_DATABASE, and a negative code that wraps to 6.
SomeResults == {0, 3, -2}

=============================================================================
