------------------------------- MODULE MCServer -------------------------------
(***************************************************************************)
(* Two tasks that wait for the loop or stop it, two connections and a      *)
(* stream: enough for a waiter that comes too late beside one that does    *)
(* not, for one whose push is half done before or behind another, and for  *)
(* an accept that turns one connection down and takes the other.           *)
(***************************************************************************)
EXTENDS Server
=============================================================================
