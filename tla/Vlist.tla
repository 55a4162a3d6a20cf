------------------------------- MODULE Vlist -------------------------------
(***************************************************************************)
(* vlist.c: a tree whose nodes carry the version of the list in which they *)
(* were last added.  vlist_update starts a new version, vlist_flush        *)
(* deletes every node that was not added again since.  Each change is      *)
(* reported to the update callback, which may add and delete nodes in its  *)
(* turn, also while vlist_flush walks over the list.                       *)
(***************************************************************************)
EXTENDS Avl

CONSTANTS MaxVersion    \* bound on the versions of the list

VARIABLES mode,         \* keep_old and no_delete
          version,      \* tree->version
          ver,          \* ver[n]: node->version of a node in the tree
          walk,         \* the walk of vlist_flush; at = Null at the head of the list
          reported,     \* history: nodes the callback got as node_old during the walk
          doomed,       \* history: nodes the walk has to delete
          spared        \* history: nodes it has to leave alone

vlistVars == <<mode, version, ver, walk, reported, doomed, spared>>

NoWalk == [on |-> FALSE, cb |-> FALSE, at |-> Null, saved |-> Null]

\* struct vlist_tree after vlist_init or VLIST_TREE_INIT
VlistInit ==
    /\ mode \in [keep_old : BOOLEAN, no_delete : BOOLEAN]
    /\ version = 1
    /\ ver = [n \in Nodes |-> 0]
    /\ walk = NoWalk
    /\ reported = {} /\ doomed = {} /\ spared = {}

\* The list is in the hands of the client: outside a flush, or in its callback
ClientRuns == walk.on => walk.cb

\* node->list.next
NextNode(t, n) == IF n = Null \/ Pos(t, n) = Len(t.list) THEN Null ELSE t.list[Pos(t, n) + 1]
First(t) == IF t.list = <<>> THEN Null ELSE Head(t.list)

\* tree->update(tree, new, old)
Update(old) == reported' = IF walk.on THEN reported \cup old ELSE reported

\* The callback must not remove the node the walk goes to next (avl.h: "Other
\* elements should not be removed during the loop")
MayRemove(n) == n # walk.saved

vlist_delete(n) ==
    /\ ClientRuns /\ n \in Linked(tree) /\ MayRemove(n)
    /\ tree' = IF mode.no_delete THEN tree ELSE avl_delete(tree, n)
    /\ Update({n})
    /\ ver' = IF mode.no_delete THEN ver ELSE [ver EXCEPT ![n] = 0]
    /\ spared' = IF mode.no_delete THEN spared ELSE spared \ {n}
    /\ UNCHANGED <<mode, version, walk, doomed>>

\* No node with this key: insert
AddNew(n) ==
    /\ avl_find(tree, Key[n]) = Null
    /\ tree' = avl_insert(tree, n)
    /\ ver' = [ver EXCEPT ![n] = version]
    /\ Update({})
    /\ UNCHANGED <<doomed, spared>>

\* A node with this key stays, with the new version (label update_only)
Refresh(old) ==
    /\ old # Null
    /\ mode.keep_old \/ mode.no_delete
    /\ ver' = [ver EXCEPT ![old] = version]
    /\ Update({old})
    /\ IF walk.on /\ version # -1
       THEN doomed' = doomed \ {old} /\ spared' = spared \cup {old}
       ELSE UNCHANGED <<doomed, spared>>
    /\ UNCHANGED tree

\* A node with this key makes room
ReplaceOld(n, old) ==
    /\ old # Null
    /\ ~mode.keep_old /\ ~mode.no_delete
    /\ MayRemove(old)
    /\ tree' = avl_insert(avl_delete(tree, old), n)
    /\ ver' = [ver EXCEPT ![old] = 0, ![n] = version]
    /\ Update({old})
    /\ spared' = spared \ {old}
    /\ UNCHANGED doomed

vlist_add(n) ==
    /\ ClientRuns /\ n \notin Linked(tree) /\ n \notin reported
    /\ \/ AddNew(n)
       \/ Refresh(avl_find(tree, Key[n]))
       \/ ReplaceOld(n, avl_find(tree, Key[n]))
    /\ UNCHANGED <<mode, version, walk>>

vlist_update ==
    /\ ~walk.on /\ version < MaxVersion
    /\ version' = version + 1
    /\ UNCHANGED <<tree, mode, ver, walk, reported, doomed, spared>>

-----------------------------------------------------------------------------
\* Mutant: a list that is flushed whole is not told apart
Stale_NoAll(n) == ~(ver[n] = version \/ ver[n] = -1)

\* The negated condition of vlist_flush
Stale(n) == ~((ver[n] = version \/ ver[n] = -1) /\ version # -1)

\* What a flush is to delete: everything, or what has an older version
Doomed(v) == {n \in Linked(tree) : v = -1 \/ ver[n] \notin {v, -1}}

StartWalk(v) ==
    /\ ~walk.on
    /\ version' = v
    /\ walk' = [on |-> TRUE, cb |-> FALSE, at |-> First(tree), saved |-> NextNode(tree, First(tree))]
    /\ doomed' = Doomed(v)
    /\ spared' = Linked(tree) \ Doomed(v)
    /\ reported' = {}
    /\ UNCHANGED <<tree, mode, ver>>

vlist_flush == StartWalk(version)
vlist_flush_all == StartWalk(-1)

\* element = ptr, ptr = next of ptr: avl_for_each_element_safe
Advance == walk' = [walk EXCEPT !.cb = FALSE, !.at = walk.saved, !.saved = NextNode(tree, walk.saved)]

FlushKeeps ==
    /\ walk.on /\ ~walk.cb /\ walk.at # Null
    /\ ~Stale(walk.at)
    /\ Advance
    /\ UNCHANGED <<tree, mode, version, ver, reported, doomed, spared>>

\* vlist_delete of the stale node, up to the callback
FlushDeletes ==
    LET n == walk.at
    IN /\ walk.on /\ ~walk.cb /\ n # Null
       /\ Stale(n)
       /\ tree' = IF mode.no_delete THEN tree ELSE avl_delete(tree, n)
       /\ ver' = IF mode.no_delete THEN ver ELSE [ver EXCEPT ![n] = 0]
       /\ Update({n})
       /\ walk' = [walk EXCEPT !.cb = TRUE]
       /\ UNCHANGED <<mode, version, doomed, spared>>

UpdateReturns ==
    /\ walk.on /\ walk.cb
    /\ Advance
    /\ UNCHANGED <<tree, mode, version, ver, reported, doomed, spared>>

FlushEnds ==
    /\ walk.on /\ ~walk.cb /\ walk.at = Null
    /\ walk' = NoWalk
    /\ reported' = {} /\ doomed' = {} /\ spared' = {}
    /\ UNCHANGED <<tree, mode, version, ver>>

VlistNext(nodes) ==
    \/ \E n \in nodes : vlist_delete(n) \/ vlist_add(n)
    \/ vlist_update \/ vlist_flush \/ vlist_flush_all
    \/ FlushKeeps \/ FlushDeletes \/ UpdateReturns \/ FlushEnds

-----------------------------------------------------------------------------
(* vlist_flush, whatever its callbacks add and delete: when the walk ends,  *)
(* every node of an older version has been reported and (unless no_delete)  *)
(* is gone, and every other node is still there.  vlist_flush_all spares    *)
(* nothing.                                                                 *)
FlushExact ==
    [][walk.on /\ ~walk'.on =>
          /\ doomed \subseteq reported
          /\ ~mode.no_delete => doomed \cap Linked(tree') = {}
          /\ spared \subseteq Linked(tree')]_<<tree, vlistVars>>

=============================================================================
