----------------------------- MODULE MCLogging -----------------------------
(***************************************************************************)
(* The kernel and a task with two messages, one of them the beginning of   *)
(* the other.                                                              *)
(***************************************************************************)
EXTENDS Logging

TwoMessages == {<<"a">>, <<"a", "b">>}
=============================================================================
