-------------------------------- MODULE Avl --------------------------------
(***************************************************************************)
(* avl.c: a balanced tree whose nodes are also linked in a list in the     *)
(* order of their keys.  Of several nodes with one key only the first, the *)
(* leader, is part of the tree; the others follow it in the list.          *)
(*                                                                         *)
(* A tree is a record: root, the functions left, right, parent, balance    *)
(* and leader over the nodes, the list as a sequence, count and            *)
(* allow_dups.  The operations are operators from trees to trees, because  *)
(* vlist.c and kvlist.c chain them.  The source writes every rotation and  *)
(* rebalancing step twice, once for each side; here the side is a          *)
(* parameter.  The fields of a node outside the tree are dead (avl_insert  *)
(* writes them all before anything reads them): they hold their initial    *)
(* values.                                                                 *)
(***************************************************************************)
EXTENDS Integers, SequencesExt

CONSTANTS Nodes,    \* the nodes clients put into the tree
          Key,      \* Key[n]: the key of node n, an integer
          Null

ASSUME AvlAssumption == Key \in [Nodes -> Int] /\ Null \notin Nodes

VARIABLE tree

\* struct avl_tree after avl_init
EmptyTree(dups) ==
    [root |-> Null, count |-> 0, allow_dups |-> dups, list |-> <<>>,
     left |-> [n \in Nodes |-> Null], right |-> [n \in Nodes |-> Null],
     parent |-> [n \in Nodes |-> Null], balance |-> [n \in Nodes |-> 0],
     leader |-> [n \in Nodes |-> FALSE]]

Linked(t) == Range(t.list)
Pos(t, n) == CHOOSE i \in DOMAIN t.list : t.list[i] = n

Opposite(side) == IF side = "left" THEN "right" ELSE "left"
\* What a subtree that grows on this side adds to the balance
Sign(side) == IF side = "left" THEN -1 ELSE 1
\* parent->left == node
Side(t, n) == IF t.left[t.parent[n]] = n THEN "left" ELSE "right"

-----------------------------------------------------------------------------
\* The link that leads to old (its parent's, or root) leads to new
Replace(t, old, new) ==
    IF t.parent[old] = Null THEN [t EXCEPT !.root = new]
                            ELSE [t EXCEPT ![Side(t, old)][t.parent[old]] = new]

\* if (child != NULL) child->parent = p
Adopt(t, child, p) == IF child = Null THEN t ELSE [t EXCEPT !.parent[child] = p]

\* Mutant: the balances are changed as for a child that is in balance
Rotate_Even(t, n, side) ==
    LET other == Opposite(side)
        child == t[other][n]
        up == Replace([t EXCEPT !.parent[child] = t.parent[n]], n, child)
        down == [up EXCEPT !.parent[n] = child, ![other][n] = up[side][child],
                           ![side][child] = n]
    IN [Adopt(down, down[other][n], n)
        EXCEPT !.balance[n] = @ + Sign(side), !.balance[child] = @ + Sign(side)]

\* avl_rotate_left and avl_rotate_right: n moves to that side, the child on
\* the other side takes its place
Rotate(t, n, side) ==
    LET other == Opposite(side)
        child == t[other][n]
        up == Replace([t EXCEPT !.parent[child] = t.parent[n]], n, child)
        down == [up EXCEPT !.parent[n] = child, ![other][n] = up[side][child],
                           ![side][child] = n]
        s == Sign(side)
        nb == t.balance[n] + s * (1 - Min({s * t.balance[child], 0}))
    IN [Adopt(down, down[other][n], n)
        EXCEPT !.balance[n] = nb,
               !.balance[child] = @ + s * (1 + Max({s * nb, 0}))]

\* The subtree of n has grown by one level
RECURSIVE post_insert(_, _)
post_insert(t, n) ==
    LET p == t.parent[n]
        side == Side(t, n)
        s == Sign(side)
        b == t.balance[p] + s
        grown == [t EXCEPT !.balance[p] = b]
        bent == Rotate(grown, n, side)
    IN IF p = Null THEN t
       ELSE IF b = 0 THEN grown
       ELSE IF b = s THEN post_insert(grown, p)
       ELSE IF t.balance[n] = s THEN Rotate(grown, p, Opposite(side))
       ELSE Rotate(bent, bent.parent[bent.parent[n]], Opposite(side))

\* The subtree of p on that side has lost one level (Shrunk); the subtree of
\* n has lost one level (avl_post_delete)
RECURSIVE Shrunk(_, _, _), avl_post_delete(_, _)
Shrunk(t, p, side) ==
    LET s == Sign(side)
        b == t.balance[p] - s
        less == [t EXCEPT !.balance[p] = b]
        sibling == t[Opposite(side)][p]
        straight == less.balance[sibling] # s
        turned == Rotate(IF straight THEN less ELSE Rotate(less, sibling, Opposite(side)), p, side)
    IN IF b = 0 THEN avl_post_delete(less, p)
       ELSE IF b = -s THEN less
       ELSE IF less.balance[sibling] = 0 THEN turned
       ELSE avl_post_delete(turned, turned.parent[p])

avl_post_delete(t, n) ==
    IF t.parent[n] = Null THEN t ELSE Shrunk(t, t.parent[n], Side(t, n))

-----------------------------------------------------------------------------
\* The node with key k, or the one below which it would be inserted
RECURSIVE avl_find_rec(_, _, _)
avl_find_rec(t, n, k) ==
    LET side == IF k < Key[n] THEN "left" ELSE "right"
    IN IF k = Key[n] \/ t[side][n] = Null THEN n ELSE avl_find_rec(t, t[side][n], k)

avl_find(t, k) ==
    LET n == avl_find_rec(t, t.root, k)
    IN IF t.root = Null \/ Key[n] # k THEN Null ELSE n

\* Mutant: only the walk back
avl_find_lessequal_Back(t, k) ==
    LET i == Pos(t, avl_find_rec(t, t.root, k))
        back == {j \in 1..i : k >= Key[t.list[j]]}
    IN IF t.root = Null \/ back = {} THEN Null ELSE t.list[Max(back)]

\* Two walks over the list from the node found: back while the key is
\* smaller, then on while the next key is not larger
avl_find_lessequal(t, k) ==
    LET i == Pos(t, avl_find_rec(t, t.root, k))
        back == {j \in 1..i : k >= Key[t.list[j]]}
        RECURSIVE On(_)
        On(j) == IF j < Len(t.list) /\ k >= Key[t.list[j + 1]] THEN On(j + 1) ELSE t.list[j]
    IN IF t.root = Null \/ back = {} THEN Null ELSE On(Max(back))

\* Forward while the key is larger, then back while the previous one is not smaller
avl_find_greaterequal(t, k) ==
    LET i == Pos(t, avl_find_rec(t, t.root, k))
        on == {j \in i..Len(t.list) : k <= Key[t.list[j]]}
        RECURSIVE Back(_)
        Back(j) == IF j > 1 /\ k <= Key[t.list[j - 1]] THEN Back(j - 1) ELSE t.list[j]
    IN IF t.root = Null \/ on = {} THEN Null ELSE Back(Min(on))

-----------------------------------------------------------------------------
\* Position of the last node of a leader's group
RECURSIVE LastOf(_, _)
LastOf(t, i) == IF i = Len(t.list) \/ t.leader[t.list[i + 1]] THEN i ELSE LastOf(t, i + 1)

\* list_add and list_add_tail at a node, with the count
InsertList(t, i, n) == [t EXCEPT !.list = InsertAt(@, i, n), !.count = @ + 1]

\* n becomes the child of p on that side; the tree below p has grown unless
\* p had a child already
InsertBelow(t, p, side, n) ==
    LET b == IF t.balance[p] # 0 THEN 0 ELSE Sign(side)
        placed == [t EXCEPT !.leader[n] = TRUE, !.parent[n] = p, ![side][p] = n, !.balance[p] = b]
    IN IF b = 0 THEN placed ELSE post_insert(placed, p)

\* Mutant: a key that is there already is not refused
Collides_Never(t, n) == FALSE

\* avl_insert returns -1, and leaves the tree alone, iff Collides
Collides(t, n) == t.root # Null /\ ~t.allow_dups /\ Key[avl_find_rec(t, t.root, Key[n])] = Key[n]

avl_insert(t, n) ==
    LET p == avl_find_rec(t, t.root, Key[n])
        first == Pos(t, p)
        last == LastOf(t, first)
        before == CASE t.balance[p] = 1 -> TRUE
                    [] t.balance[p] = -1 -> FALSE
                    [] OTHER -> Key[n] < Key[p]
    IN IF t.root = Null
       THEN [InsertList(t, 1, n) EXCEPT !.root = n, !.count = 1, !.leader[n] = TRUE]
       ELSE IF Collides(t, n) THEN t
       ELSE IF Key[n] = Key[p] THEN InsertList(t, last + 1, n)
       ELSE IF before THEN InsertBelow(InsertList(t, first, n), p, "left", n)
       ELSE InsertBelow(InsertList(t, last + 1, n), p, "right", n)

-----------------------------------------------------------------------------
RECURSIVE avl_local_min(_, _)
avl_local_min(t, n) == IF t.left[n] = Null THEN n ELSE avl_local_min(t, t.left[n])

\* new takes the place of n in the tree, with its balance and its children
TakePlace(t, n, new) ==
    LET placed == Replace([t EXCEPT !.balance[new] = t.balance[n], !.parent[new] = t.parent[n],
                                    !.left[new] = t.left[n], !.right[new] = t.right[n]], n, new)
    IN Adopt(Adopt(placed, t.left[n], new), t.right[n], new)

\* n leaves the tree, but not the list
RECURSIVE avl_delete_worker(_, _)
avl_delete_worker(t, n) ==
    LET p == t.parent[n]
        only == IF t.left[n] = Null THEN t.right[n] ELSE t.left[n]
        min == avl_local_min(t, t.right[n])
        cut == Replace(t, n, Null)
        joined == Adopt(Replace(t, n, only), only, p)
    IN IF t.left[n] # Null /\ t.right[n] # Null
       THEN TakePlace(avl_delete_worker(t, min), n, min)
       ELSE IF p = Null THEN joined
       ELSE IF only = Null THEN Shrunk(cut, p, Side(t, n))
       ELSE avl_post_delete(joined, only)

\* list_del, with the count; the fields of n are dead from here on
avl_remove(t, n) ==
    [t EXCEPT !.list = Remove(@, n), !.count = @ - 1, !.left[n] = Null, !.right[n] = Null,
              !.parent[n] = Null, !.balance[n] = 0, !.leader[n] = FALSE]

\* The node behind n in the list takes over its key
HasFollower(t, n) ==
    t.allow_dups /\ Pos(t, n) < Len(t.list) /\ ~t.leader[t.list[Pos(t, n) + 1]]

avl_delete(t, n) ==
    LET next == t.list[Pos(t, n) + 1]
    IN avl_remove(CASE ~t.leader[n] -> t
                    [] t.leader[n] /\ HasFollower(t, n) ->
                           [TakePlace(t, n, next) EXCEPT !.leader[next] = TRUE]
                    [] OTHER -> avl_delete_worker(t, n), n)

\* avl_remove_all_elements: the nodes go without rebalancing, one count each
avl_remove_all(t) == EmptyTree(t.allow_dups)

=============================================================================
