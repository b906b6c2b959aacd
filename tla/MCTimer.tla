------------------------------- MODULE MCTimer -------------------------------
(***************************************************************************)
(* Three tasks with timers of two periods, in the red-black trees of       *)
(* RBTree: two lists make a tree in which either is the root; three tasks  *)
(* put two timers into one list.                                           *)
(***************************************************************************)
EXTENDS Timer, TLC

RB == INSTANCE RBTree

MCEmptyTree == RB!EmptyTree
MCInsert(t, p) == RB!Insert(t, p)
MCRemove(t, p) == RB!Remove(t, p)
MCSearch(t, p) == RB!Search(t, p)
MCFirst(t) == RB!First(t)
MCNextNode(t, p) == RB!NextNode(t, p)

(* the trees that are one step from those of s *)
Grown(s) ==
    s \cup {RB!Insert(x[1], x[2]) : x \in {y \in s \X Keys : RB!Search(y[1], y[2]) = Null}}
      \cup {RB!Remove(x[1], x[2]) : x \in {y \in s \X Keys : RB!Search(y[1], y[2]) # Null}}

RECURSIVE Grow(_)
Grow(s) == IF Grown(s) = s THEN s ELSE Grow(Grown(s))

(* TLC evaluates the right side of MCTrees wherever it meets Trees, but the *)
(* definition of a constant only once.                                      *)
AllTrees == Grow({RB!EmptyTree})
MCTrees == AllTrees

Symmetry == Permutations(Tasks)
=============================================================================
