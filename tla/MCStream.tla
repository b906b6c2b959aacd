------------------------------ MODULE MCStream ------------------------------
(***************************************************************************)
(* Two bytes each way, read in pieces of one or two, written two at a time *)
(* into a send buffer of one: a write needs two rounds of the loop, and    *)
(* data, close and reset of the peer fall between any two steps.           *)
(***************************************************************************)
EXTENDS Stream
=============================================================================
