---------------------------- MODULE MCSequential ----------------------------
(***************************************************************************)
(* The two components nothing runs beside: http_request_parse, with the    *)
(* conversations of MCHttpParse, and the red-black tree.  A behaviour is   *)
(* of one of them: when it takes a step, the other stays where it began.   *)
(*                                                                         *)
(* The tree is every tree that insertions and removals of twelve keys can  *)
(* build: deep enough for every case of the rebalancing, on both sides, to *)
(* recur at the root and below it.                                         *)
(***************************************************************************)
EXTENDS MCHttpParse

CONSTANT Keys

VARIABLES tree, keys

Tree == INSTANCE RBTreeSet

SeqInit == Init /\ Tree!Init

ParserMoves == Tree!Init /\ Next /\ UNCHANGED <<tree, keys>>

(* beside one conversation, since it does not matter to the tree which *)
TreeMoves == Init /\ messages = <<Plain, Full>> /\ Tree!Next /\ UNCHANGED vars

SeqNext == ParserMoves \/ TreeMoves

SeqSpec == SeqInit /\ [][SeqNext]_<<vars, tree, keys>>

(* The invariants of RBTreeSet: api_rbtree_insert and api_rbtree_remove    *)
(* leave a search tree of the right keys whose pointers agree,             *)
SearchTree == Tree!SearchTree

(* which api_rbtree_search, _first and _next look keys up in as module     *)
(* OrderedTree promises to the timers,                                     *)
QueriesRight == Tree!QueriesRight

(* and which is a red-black tree. *)
Balanced == Tree!Balanced
=============================================================================
