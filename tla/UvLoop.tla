------------------------------- MODULE UvLoop -------------------------------
(***************************************************************************)
(* The part of libuv that the Module Development Kit relies on.  libuv is  *)
(* a submodule and its sources are not in the repository, so what is here  *)
(* is what TemplateSocket.cpp, TemplateServer.cpp and ThreadServer.cpp ask *)
(* of it: handles that are registered with a loop by uv_*_init, become     *)
(* active by uv_listen / uv_read_start / uv_udp_recv_start, are asked to   *)
(* close by uv_close (once: libuv asserts it), and are handed to the close *)
(* callback by the loop.  The operators take a handle table, a function    *)
(* from handles to handle states, and are used by every module that has a  *)
(* loop.                                                                   *)
(*                                                                         *)
(*   none      the memory of the handle is not allocated                   *)
(*   idle      initialised: in the loop's handle queue, no activity        *)
(*   active    the loop watches it                                         *)
(*   closing   uv_close was called, the close callback has not run         *)
(*   freed     libuv_callback_on_close freed it                            *)
(*   dangling  freed by somebody else: still in the loop's handle queue    *)
(***************************************************************************)

\* The null pointer; handles and threads are numbered from 1.
NULL == 0

HandleStates == {"none", "idle", "active", "closing", "freed", "dangling"}

IsActive(ht) == \E h \in DOMAIN ht : ht[h] = "active"

IsClosing(ht) == \E h \in DOMAIN ht : ht[h] = "closing"

\* Handles that uv_loop_close finds in the loop's queue.
Registered(ht) == {h \in DOMAIN ht : ht[h] \in {"idle", "active", "closing", "dangling"}}

(***************************************************************************)
(* What goes wrong when a libuv function is given the pointer p, and when  *)
(* that function is uv_close.  Both are undefined behaviour in C; the      *)
(* model names them and stops.                                             *)
(***************************************************************************)
PointerFault(ht, p) ==
    IF p = NULL THEN "null_socket"
    ELSE IF ht[p] \in {"freed", "dangling"} THEN "use_after_free" ELSE "none"

CloseFault(ht, p) ==
    IF p # NULL /\ ht[p] = "closing" THEN "double_close" ELSE PointerFault(ht, p)

\* uv_close: the handle stops at once and waits for its close callback.
MarkClosing(ht, p) == [ht EXCEPT ![p] = "closing"]

(***************************************************************************)
(* libuv_callback_on_close, which the loop calls once per iteration for    *)
(* every handle that waits for it: it clears handle->data and frees the    *)
(* handle.                                                                 *)
(***************************************************************************)
OnClose(ht) == [h \in DOMAIN ht |-> IF ht[h] = "closing" THEN "freed" ELSE ht[h]]

=============================================================================
