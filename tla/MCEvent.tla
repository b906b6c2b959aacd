------------------------------- MODULE MCEvent -------------------------------
(***************************************************************************)
(* Three tasks and two events: a waiter, its signaller, and a third that   *)
(* sleeps.                                                                 *)
(***************************************************************************)
EXTENDS Event
=============================================================================
