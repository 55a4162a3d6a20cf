------------------------------- MODULE Kvlist -------------------------------
(***************************************************************************)
(* kvlist.c: a map from names to values kept in a tree.  The name and the  *)
(* value are part of the node, so a node stands for both; kvlist_set takes *)
(* a node that is not in use for the one it allocates.                     *)
(***************************************************************************)
EXTENDS Avl

\* kvlist_get is avl_find
kvlist_get(k) == avl_find(tree, k)

\* What kvlist_delete leaves
Deleted(k) == IF kvlist_get(k) = Null THEN tree ELSE avl_delete(tree, kvlist_get(k))

kvlist_delete(k) == tree' = Deleted(k)

\* n is the node calloc_a returned; where there is no memory nothing happens
kvlist_set(n) ==
    /\ n \notin Linked(tree)
    /\ tree' = avl_insert(Deleted(Key[n]), n)

\* avl_remove_all_elements, freeing the nodes
kvlist_free == tree' = avl_remove_all(tree)

KvlistNext(nodes) ==
    \/ \E n \in nodes : kvlist_set(n) \/ kvlist_delete(Key[n])
    \/ kvlist_free

=============================================================================
