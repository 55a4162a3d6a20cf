----------------------------- MODULE Containers -----------------------------
(***************************************************************************)
(* The users of avl.c: clients of the tree itself, with and without        *)
(* duplicate keys, vlist.c and kvlist.c.  A tree has one user for life;    *)
(* which one is chosen by Init.                                            *)
(***************************************************************************)
EXTENDS Vlist, Kvlist

CONSTANTS NodesOf    \* the nodes each kind of user has

VARIABLES user

vars == <<tree, vlistVars, user>>

Users == {"avl", "dups", "vlist", "kvlist"}

ASSUME NodesOfAssumption == NodesOf \in [Users -> SUBSET Nodes]

Init ==
    /\ user \in Users
    /\ tree = EmptyTree(user = "dups")
    /\ VlistInit
    /\ user # "vlist" => mode = [keep_old |-> FALSE, no_delete |-> FALSE]

\* A client inserts a node that is not in the tree, or deletes one that is
AvlNext ==
    \E n \in NodesOf[user] :
       \/ n \notin Linked(tree) /\ tree' = avl_insert(tree, n)
       \/ n \in Linked(tree) /\ tree' = avl_delete(tree, n)

Next ==
    /\ UNCHANGED user
    /\ \/ user \in {"avl", "dups"} /\ AvlNext /\ UNCHANGED vlistVars
       \/ user = "kvlist" /\ KvlistNext(NodesOf[user]) /\ UNCHANGED vlistVars
       \/ user = "vlist" /\ VlistNext(NodesOf[user])

Spec == Init /\ [][Next]_vars

-----------------------------------------------------------------------------
RECURSIVE Height(_, _)
Height(t, n) == IF n = Null THEN 0 ELSE 1 + Max({Height(t, t.left[n]), Height(t, t.right[n])})

RECURSIVE InOrder(_, _)
InOrder(t, n) == IF n = Null THEN <<>> ELSE InOrder(t, t.left[n]) \o <<n>> \o InOrder(t, t.right[n])

Leaders(t) == {n \in Linked(t) : t.leader[n]}

(* After any sequence of insertions and deletions (rotations, takeovers by  *)
(* a duplicate, the minimum moving up): the leaders are the first nodes of  *)
(* each key, the tree visits exactly them in the order of the list, every   *)
(* balance is the true difference of the heights and at most 1, parent      *)
(* pointers match, and count is the length of the list.                     *)
TreeOK ==
    LET t == tree
    IN /\ t.count = Len(t.list)
       /\ \A i \in DOMAIN t.list :
             t.leader[t.list[i]] <=> (i = 1 \/ Key[t.list[i - 1]] < Key[t.list[i]])
       /\ InOrder(t, t.root) = SelectSeq(t.list, LAMBDA n : t.leader[n])
       /\ t.root # Null => t.parent[t.root] = Null
       /\ \A n \in Leaders(t) :
             /\ t.balance[n] = Height(t, t.right[n]) - Height(t, t.left[n])
             /\ t.balance[n] \in -1..1
             /\ \A c \in {t.left[n], t.right[n]} \ {Null} : t.parent[c] = n

Keys == {Key[n] : n \in Nodes}
At(S, i) == IF S = {} THEN Null ELSE tree.list[i]
WithKey(P(_)) == {i \in DOMAIN tree.list : P(Key[tree.list[i]])}

(* The searches do what avl.c says of them, duplicates included: avl_find   *)
(* returns the first node with the key, avl_find_lessequal the last node    *)
(* that is not larger, avl_find_greaterequal the first that is not smaller. *)
FindOK ==
    \A k \in Keys \cup {Min(Keys) - 1, Max(Keys) + 1} :
       LET same == WithKey(LAMBDA x : x = k)
           le == WithKey(LAMBDA x : x <= k)
           ge == WithKey(LAMBDA x : x >= k)
       IN /\ avl_find(tree, k) = At(same, Min(same))
          /\ avl_find_lessequal(tree, k) = At(le, Max(le))
          /\ avl_find_greaterequal(tree, k) = At(ge, Min(ge))

Abstract == INSTANCE SortedList WITH list <- tree.list, unique <- ~tree.allow_dups

(* Every operation of the tree, of vlist.c and of kvlist.c changes the list *)
(* of nodes as an operation on a sorted list would, equal keys in the order *)
(* of their insertion.                                                      *)
Refinement == Abstract!Spec

=============================================================================
