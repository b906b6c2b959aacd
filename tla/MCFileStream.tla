---------------------------- MODULE MCFileStream ----------------------------
(***************************************************************************)
(* Two tasks, transfers of up to two bytes and up to three requests with   *)
(* aio: enough for a write in pieces, for a request that outlives its call *)
(* and for its wakeup to meet a later call of the same task.               *)
(***************************************************************************)
EXTENDS FileStream
=============================================================================
