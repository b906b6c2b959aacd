-------------------------------- MODULE RBTree --------------------------------
(***************************************************************************)
(* The intrusive red-black tree of src/api/src/api_rbtree.c, in which the  *)
(* timers keep one list per period.  A node is named by its key, since the *)
(* timers never insert a key twice; 0 is the null pointer and Phantom the  *)
(* black stand-in leaf on the stack of api_rbtree_remove.                  *)
(*                                                                         *)
(* A tree is a record of its pointers.  Mirror-image code is one operator  *)
(* with a side.  `ok' turns FALSE when the code would follow a null        *)
(* pointer.                                                                *)
(***************************************************************************)
EXTENDS Integers, FiniteSets

CONSTANT Keys           \* the keys inserted: a finite set of positive numbers

Null == 0
Phantom == -1
Cells == Keys \cup {Phantom}
Sides == {"left", "right"}

Other(side) == IF side = "left" THEN "right" ELSE "left"

EmptyTree ==
    [root   |-> Null,
     child  |-> [s \in Sides |-> [c \in Cells |-> Null]],
     parent |-> [c \in Cells |-> Null],
     red    |-> [c \in Cells |-> FALSE],
     ok     |-> TRUE]

-----------------------------------------------------------------------------
(* Small helpers of the code *)

Crash(t) == [t EXCEPT !.ok = FALSE]

(* RB_COLOR *)
IsRed(t, n) == n # Null /\ t.red[n]

Paint(t, n, red) == [t EXCEPT !.red[n] = red]

(* the side of its parent n hangs on *)
SideOf(t, n) == IF t.child["left"][t.parent[n]] = n THEN "left" ELSE "right"

Grandparent(t, n) == IF t.parent[n] = Null THEN Null ELSE t.parent[t.parent[n]]

Uncle(t, n) ==
    LET g == Grandparent(t, n)
    IN  IF g = Null THEN Null ELSE t.child[Other(SideOf(t, t.parent[n]))][g]

Sibling(t, n) == t.child[Other(SideOf(t, n))][t.parent[n]]

(* put c where n hangs *)
Replace(t, n, c) ==
    IF t.parent[n] = Null
    THEN [t EXCEPT !.root = c]
    ELSE [t EXCEPT !.child[SideOf(t, n)][t.parent[n]] = c]

Adopt(t, c, p) == IF c = Null THEN t ELSE [t EXCEPT !.parent[c] = p]

(* Mutation: the inner subtree is lost. *)
RotateDrops(t, n, side) ==
    LET up == t.child[Other(side)][n]
        t2 == Replace([t EXCEPT !.child[Other(side)][n] = Null], n, up)
    IN  [t2 EXCEPT !.parent[up] = t.parent[n],
                   !.child[side][up] = n,
                   !.parent[n] = up]

(* api_rbtree_rotate_left and _right: n goes down to `side' *)
Rotate(t, n, side) ==
    LET up == t.child[Other(side)][n]
        inner == t.child[side][up]
        t1 == Adopt([t EXCEPT !.child[Other(side)][n] = inner], inner, n)
        t2 == Replace(t1, n, up)
    IN  [t2 EXCEPT !.parent[up] = t.parent[n],
                   !.child[side][up] = n,
                   !.parent[n] = up]

-----------------------------------------------------------------------------
(* Insertion *)

RECURSIVE InsertBal(_, _)

(* Mutation: recolouring stops at the grandparent. *)
InsertBalOnce(t, n) ==
    LET p == t.parent[n]
        g == Grandparent(t, n)
        u == Uncle(t, n)
    IN  IF IsRed(t, p) /\ IsRed(t, u)
        THEN Paint(Paint(Paint(t, p, FALSE), u, FALSE), g, g # t.root)
        ELSE IF t.root = n THEN Paint(t, n, FALSE)
        ELSE t

(* n, its parent and its grandparent are in line: rotate the grandparent *)
RotateOut(t, n) ==
    LET p == t.parent[n]
        g == t.parent[p]
    IN  Rotate(Paint(Paint(t, p, FALSE), g, TRUE), g, Other(SideOf(t, n)))

(* api_rbtree_insert_bal; an inner grandchild is first rotated outwards *)
InsertBal(t, n) ==
    LET p == t.parent[n]
        g == Grandparent(t, n)
        u == Uncle(t, n)
    IN  IF t.root = n THEN Paint(t, n, FALSE)
        ELSE IF ~IsRed(t, p) THEN t
        ELSE IF IsRed(t, u)
        THEN InsertBal(Paint(Paint(Paint(t, p, FALSE), u, FALSE), g, TRUE), g)
        ELSE IF g = Null THEN Crash(t)
        ELSE IF SideOf(t, n) # SideOf(t, p)
        THEN RotateOut(Rotate(t, p, SideOf(t, p)), p)
        ELSE RotateOut(t, n)

(* where a new key is hung, and api_rbtree_search's way down *)
RECURSIVE Descend(_, _, _)
Descend(t, n, k) ==
    LET c == t.child[IF k < n THEN "left" ELSE "right"][n]
    IN  IF n = k \/ c = Null THEN n ELSE Descend(t, c, k)

(* api_rbtree_insert *)
Insert(t, k) ==
    LET fresh == [t EXCEPT !.child = [s \in Sides |-> [@[s] EXCEPT ![k] = Null]],
                           !.parent[k] = Null,
                           !.red[k] = TRUE]
        p == Descend(t, t.root, k)
    IN  InsertBal(
          IF t.root = Null
          THEN [fresh EXCEPT !.root = k]
          ELSE [fresh EXCEPT !.parent[k] = p,
                             !.child[IF k < p THEN "left" ELSE "right"][p] = k],
          k)

-----------------------------------------------------------------------------
(* Removal *)

RECURSIVE RemoveBal(_, _)

(* An inner red nephew is rotated outwards.  On the right side the code    *)
(* leaves other colours in between; RotateIn makes up for it.              *)
StraightenNephew(t, s, side) ==
    IF IsRed(t, t.child[Other(side)][s]) \/ ~IsRed(t, t.child[side][s]) THEN t
    ELSE IF side = "left"
    THEN Rotate(Paint(Paint(t, s, TRUE), t.child["left"][s], FALSE), s, "right")
    ELSE Rotate(Paint(t, s, FALSE), s, "left")

(* the parent of n is rotated down to the side of n *)
RotateIn(t, n, side) ==
    LET p == t.parent[n]
        s == Sibling(t, n)
        nephew == t.child[Other(side)][s]
    IN  IF nephew = Null THEN Crash(t)
        ELSE Rotate(Paint(Paint(Paint(t, s, IsRed(t, p)), p, FALSE), nephew, FALSE),
                    p, side)

(* api_rbtree_remove_bal once the sibling is black *)
BlackSibling(t, n, s) ==
    IF s = Null THEN Crash(t)
    ELSE IF IsRed(t, s) \/ \E side \in Sides : IsRed(t, t.child[side][s])
    THEN RotateIn(StraightenNephew(t, s, SideOf(t, n)), n, SideOf(t, n))
    ELSE IF IsRed(t, t.parent[n])
    THEN Paint(Paint(t, s, TRUE), t.parent[n], FALSE)
    ELSE RemoveBal(Paint(t, s, TRUE), t.parent[n])

(* a red sibling is rotated away *)
RotateSibling(t, n, s) ==
    LET p == t.parent[n]
    IN  IF IsRed(t, s)
        THEN Rotate(Paint(Paint(t, p, TRUE), s, FALSE), p, SideOf(t, n))
        ELSE t

(* api_rbtree_remove_bal *)
RemoveBal(t, n) ==
    IF t.parent[n] = Null THEN t
    ELSE LET u == RotateSibling(t, n, Sibling(t, n))
         IN  BlackSibling(u, n, Sibling(u, n))

(* the rightmost node below n, or the leftmost *)
RECURSIVE Outermost(_, _, _)
Outermost(t, n, side) ==
    IF t.child[side][n] = Null THEN n ELSE Outermost(t, t.child[side][n], side)

(* api_rbtree_swap(a, b), b below a, and the fix of *root after it *)
SwapNodes(t, a, b) ==
    LET t1 == [t EXCEPT !.parent[a] = t.parent[b], !.parent[b] = t.parent[a]]
        bside == IF t.child["left"][t.parent[b]] = b THEN "left" ELSE "right"
        t2 == [t1 EXCEPT !.child[bside][t.parent[b]] = a]
        t3 == IF t.parent[a] = Null THEN t2
              ELSE [t2 EXCEPT !.child[IF t2.child["left"][t.parent[a]] = a
                                       THEN "left" ELSE "right"][t.parent[a]] = b]
        SwapChild(x, s) ==
            LET ca == x.child[s][a]
                cb == x.child[s][b]
                y == [x EXCEPT !.child[s][a] = cb]
                z == Adopt(y, cb, a)
                w == [z EXCEPT !.child[s][b] = ca]
            IN  Adopt(w, ca, b)
        t4 == SwapChild(SwapChild(t3, "left"), "right")
    IN  [t4 EXCEPT !.red[a] = t.red[b], !.red[b] = t.red[a],
                   !.root = IF @ = a THEN b ELSE @]

OnlyChild(t, k) ==
    IF t.child["left"][k] # Null THEN t.child["left"][k]
    ELSE IF t.child["right"][k] # Null THEN t.child["right"][k]
    ELSE Phantom

ClearPhantom(t) ==
    [t EXCEPT !.child = [s \in Sides |-> [@[s] EXCEPT ![Phantom] = Null]],
              !.parent[Phantom] = Null,
              !.red[Phantom] = FALSE]

(* c takes the place of k, and the other child of k *)
TakePlace(t, k, c) ==
    [Replace(t, k, c) EXCEPT
        !.child = [s \in Sides |->
                      [@[s] EXCEPT ![c] = IF t.child[s][k] = c THEN @ ELSE t.child[s][k],
                                   ![k] = Null]],
        !.parent[c] = t.parent[k],
        !.parent[k] = Null]

Rebalance(t, k, c) ==
    IF t.red[k] THEN t
    ELSE IF t.red[c] THEN Paint(t, c, FALSE)
    ELSE RemoveBal(t, c)

DropPhantom(t, c) == IF c = Phantom THEN Replace(t, Phantom, Null) ELSE t

(* k has one child at most *)
Splice(t, k, c) ==
    ClearPhantom(DropPhantom(Rebalance(TakePlace(ClearPhantom(t), k, c), k, c), c))

RemoveLower(t, k) == Paint(Splice(t, k, OnlyChild(t, k)), k, FALSE)

(* api_rbtree_remove; a node with two children first trades places with   *)
(* the one before it                                                      *)
Remove(t, k) ==
    RemoveLower(
        IF \A s \in Sides : t.child[s][k] # Null
        THEN SwapNodes(t, k, Outermost(t, t.child["left"][k], "right"))
        ELSE t,
        k)

-----------------------------------------------------------------------------
(* Queries *)

(* api_rbtree_search *)
Search(t, k) ==
    LET n == Descend(t, t.root, k)
    IN  IF t.root # Null /\ n = k THEN n ELSE Null

(* Mutation: the left child of the root, not the leftmost node. *)
FirstShallow(t) ==
    IF t.root = Null THEN Null
    ELSE IF t.child["left"][t.root] = Null THEN t.root
    ELSE t.child["left"][t.root]

(* api_rbtree_first *)
First(t) == IF t.root = Null THEN Null ELSE Outermost(t, t.root, "left")

(* api_rbtree_next *)
NextNode(t, n) ==
    LET p == t.parent[n]
        start == IF t.child["right"][n] # Null THEN t.child["right"][n]
                 ELSE IF p # Null /\ n # t.child["right"][p] THEN t.child["right"][p]
                 ELSE Null
    IN  IF start = Null THEN Null ELSE Outermost(t, start, "left")
=============================================================================
