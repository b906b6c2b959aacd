------------------------------- MODULE RBTreeSet -------------------------------
(***************************************************************************)
(* The red-black tree under any sequence of insertions and removals,       *)
(* compared with the set of keys it stands for.                            *)
(***************************************************************************)
EXTENDS RBTree, Sequences

LOCAL INSTANCE Functions

(* What the tree is for: a set of keys in order *)

RECURSIVE Inorder(_, _)
Inorder(t, n) ==
    IF n = Null THEN <<>>
    ELSE Inorder(t, t.child["left"][n]) \o <<n>> \o Inorder(t, t.child["right"][n])

RECURSIVE BlackHeights(_, _)
BlackHeights(t, n) ==
    IF n = Null THEN {0}
    ELSE LET hs == BlackHeights(t, t.child["left"][n])
                     \cup BlackHeights(t, t.child["right"][n])
         IN  {h + (IF t.red[n] THEN 0 ELSE 1) : h \in hs}

Ascending(s) == \A i, j \in 1..Len(s) : i < j => s[i] < s[j]

-----------------------------------------------------------------------------
(* The tree under any sequence of insertions and removals *)

VARIABLES
    tree,
    keys            \* history: the keys that were inserted and not removed

vars == <<tree, keys>>

Init == tree = EmptyTree /\ keys = {}

InsertKey(k) ==
    /\ k \notin keys
    /\ tree' = Insert(tree, k)
    /\ keys' = keys \cup {k}

RemoveKey(k) ==
    /\ k \in keys
    /\ tree' = Remove(tree, k)
    /\ keys' = keys \ {k}

Next == tree.ok /\ \E k \in Keys : InsertKey(k) \/ RemoveKey(k)

Spec == Init /\ [][Next]_vars

(* api_rbtree_insert and api_rbtree_remove follow no null pointer: the     *)
(* sibling, nephew and grandparent they use without a test are there.      *)
NoCrash == tree.ok

(* The tree holds exactly the keys it should, each once and in order. *)
KeepsKeys ==
    LET s == Inorder(tree, tree.root)
    IN  Range(s) = keys /\ Len(s) = Cardinality(keys) /\ Ascending(s)

(* Parent pointers and child pointers agree, and only the root has no      *)
(* parent, after every rotation, swap and removal.                         *)
ParentsMatch ==
    \A k \in keys :
        /\ \A s \in Sides : tree.child[s][k] # Null => tree.parent[tree.child[s][k]] = k
        /\ tree.parent[k] = Null <=> tree.root = k

(* Whatever was inserted and removed, api_rbtree_insert and                *)
(* api_rbtree_remove leave a search tree of the right keys whose pointers  *)
(* agree, and follow no null pointer on the way.                           *)
SearchTree ==
    /\ NoCrash
    /\ KeepsKeys
    /\ ParentsMatch

(* api_rbtree_search finds the keys that are there and no others,          *)
(* api_rbtree_first the least of them, or nothing in an empty tree, and    *)
(* api_rbtree_next of a key that is there nothing or a greater one: what   *)
(* module OrderedTree promises to the timers.                              *)
QueriesRight ==
    /\ \A k \in Keys : Search(tree, k) = (IF k \in keys THEN k ELSE Null)
    /\ IF keys = {} THEN First(tree) = Null
       ELSE First(tree) \in keys /\ \A k \in keys : First(tree) <= k
    /\ \A k \in keys : NextNode(tree, k) \in {Null} \cup {p \in keys : p > k}

(* The red-black rules that keep the tree shallow: no red node has a red   *)
(* child, and every way down meets the same number of black nodes.         *)
Balanced ==
    /\ ~IsRed(tree, tree.root)
    /\ \A k \in keys : tree.red[k] => \A s \in Sides : ~IsRed(tree, tree.child[s][k])
    /\ Cardinality(BlackHeights(tree, tree.root)) = 1
=============================================================================
