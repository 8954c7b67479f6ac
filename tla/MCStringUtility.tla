--------------------------- MODULE MCStringUtility --------------------------
(***************************************************************************)
(* Instances of StringUtility for TLC: all strings of up to MaxLength      *)
(* characters.                                                             *)
(***************************************************************************)
EXTENDS StringUtility, SequencesExt

MaxLength == 3

ShortTexts == BoundedSeq(Char, MaxLength)

=============================================================================
