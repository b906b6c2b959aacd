------------------------------- MODULE MCTask -------------------------------
(***************************************************************************)
(* Four tasks: a chain of two nested calls beside two tasks that sleep, or *)
(* four posted tasks.                                                      *)
(***************************************************************************)
EXTENDS Task
=============================================================================
