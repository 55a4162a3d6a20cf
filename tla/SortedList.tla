----------------------------- MODULE SortedList -----------------------------
(***************************************************************************)
(* What avl.h promises of a tree: a list of nodes in the order of their    *)
(* keys, in which nodes with equal keys, where they are allowed, stay in   *)
(* the order of their insertion.                                           *)
(***************************************************************************)
EXTENDS Integers, SequencesExt

CONSTANTS Nodes, Key

VARIABLES list,
          unique    \* keys are unique

\* n behind every node whose key is not larger
Placed(l, n) == SelectSeq(l, LAMBDA m : Key[m] <= Key[n]) \o <<n>>
                \o SelectSeq(l, LAMBDA m : Key[m] > Key[n])

Without(l, k) == SelectSeq(l, LAMBDA m : Key[m] # k)

Init == list = <<>> /\ unique \in BOOLEAN

Insert(n) ==
    /\ n \notin Range(list)
    /\ unique => \A m \in Range(list) : Key[m] # Key[n]
    /\ list' = Placed(list, n)

Delete(n) == n \in Range(list) /\ list' = Remove(list, n)

\* The nodes with the key of n make room for n
Exchange(n) == n \notin Range(list) /\ list' = Placed(Without(list, Key[n]), n)

Clear == list' = <<>>

Next ==
    /\ \/ \E n \in Nodes : Insert(n) \/ Delete(n) \/ Exchange(n)
       \/ Clear
    /\ UNCHANGED unique

Spec == Init /\ [][Next]_<<list, unique>>

=============================================================================
