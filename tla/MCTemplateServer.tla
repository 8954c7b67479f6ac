-------------------------- MODULE MCTemplateServer --------------------------
(***************************************************************************)
(* Instances of TemplateServer for TLC: an error, an empty read, a read    *)
(* that leaves room for the zero byte and one that fills the buffer, of    *)
(* two bytes instead of 65536.                                             *)
(***************************************************************************)
EXTENDS TemplateServer

ShortReads == {-1, 0, 1}
AllReads == {-1, 0, 1, 2}

=============================================================================
