----------------------------- MODULE MCTransfer -----------------------------
(***************************************************************************)
(* Up to four chunks of one or two bytes, into each kind of destination:   *)
(* enough for chunks to queue up behind a slow write, for several rounds   *)
(* of the writer, for wakeups that come early, late and not at all, and    *)
(* for a file's request to be submitted again and to outlive its write.    *)
(***************************************************************************)
EXTENDS Transfer
=============================================================================
