---------------------------- MODULE MCContainers ----------------------------
EXTENDS Containers

\* Keys 2 and 5 have two nodes.  Twelve keys make the smallest tree in which
\* one deletion rotates on two levels.
MCNodes == 1..14
MCKey == <<1, 2, 3, 4, 5, 6, 7, 8, 9, 10, 11, 12, 2, 5>>
MCNodesOf == [avl |-> 1..13, dups |-> 1..7 \cup {13, 14}, kvlist |-> 1..6 \cup {13, 14},
              vlist |-> {1, 2, 3, 13}]

=============================================================================
