------------------------------ MODULE MCAsync ------------------------------
(***************************************************************************)
(* A loop, a thread that posts to it and the loop's own tasks.  Two nodes  *)
(* are enough for a pop to meet a lone tail, a tail whose successor is     *)
(* half pushed, and the stub in every place.                               *)
(***************************************************************************)
EXTENDS Async
=============================================================================
