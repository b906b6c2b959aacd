------------------------------ MODULE OrderedTree ------------------------------
(***************************************************************************)
(* What the timers ask of api_rbtree: a set of keys, of which the least    *)
(* and some next one can be found.  TreeNext only promises to go up: it    *)
(* may pass over keys, as api_rbtree_next does.                            *)
(***************************************************************************)
EXTENDS Integers

CONSTANTS
    Keys,               \* the keys inserted
    Trees,              \* the trees that insertions and removals can build
    NewTree,            \* api_rbtree_init
    TreeInsert(_, _),   \* api_rbtree_insert of a key that is not there
    TreeRemove(_, _),   \* api_rbtree_remove of a key that is there
    TreeSearch(_, _),   \* api_rbtree_search
    TreeFirst(_),       \* api_rbtree_first
    TreeNext(_, _)      \* api_rbtree_next

Null == 0

(* the keys of a tree *)
Held(t) == {p \in Keys : TreeSearch(t, p) = p}

ASSUME KeysAssumption == Keys \subseteq Nat \ {0}

ASSUME SearchAssumption == \A t \in Trees, p \in Keys : TreeSearch(t, p) \in {p, Null}

ASSUME EmptyAssumption == NewTree \in Trees /\ Held(NewTree) = {}

ASSUME InsertAssumption ==
    \A t \in Trees : \A p \in Keys \ Held(t) :
        TreeInsert(t, p) \in Trees /\ Held(TreeInsert(t, p)) = Held(t) \cup {p}

ASSUME RemoveAssumption ==
    \A t \in Trees : \A p \in Held(t) :
        TreeRemove(t, p) \in Trees /\ Held(TreeRemove(t, p)) = Held(t) \ {p}

ASSUME FirstAssumption ==
    \A t \in Trees :
        IF Held(t) = {} THEN TreeFirst(t) = Null
        ELSE TreeFirst(t) \in Held(t) /\ \A p \in Held(t) : TreeFirst(t) <= p

ASSUME NextAssumption ==
    \A t \in Trees : \A p \in Held(t) :
        TreeNext(t, p) # Null => TreeNext(t, p) \in Held(t) /\ TreeNext(t, p) > p
=============================================================================
