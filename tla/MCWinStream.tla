----------------------------- MODULE MCWinStream -----------------------------
(***************************************************************************)
(* Two tasks, writes of two bytes and two operations or packets: enough    *)
(* for a write in two rounds beside a read, for a packet that arrives      *)
(* after its call has timed out and for a connect that is tried again.     *)
(***************************************************************************)
EXTENDS WinStream
=============================================================================
