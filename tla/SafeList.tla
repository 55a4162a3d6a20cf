------------------------------ MODULE SafeList ------------------------------
(***************************************************************************)
(* safe_list.c: a doubly linked list that callbacks of safe_list_for_each  *)
(* may change.  Every walk keeps an iterator on its C stack that points at *)
(* the element it visits next; the iterators that point at an element form *)
(* a chain that starts in the element, and safe_list_del hands the chain   *)
(* on to the element after it.                                             *)
(***************************************************************************)
EXTENDS Naturals, Sequences, SequencesExt

CONSTANTS
  Elements,   \* the struct safe_list members of client objects
  ListHead,       \* the list head
  Null,       \* the null pointer
  MaxDepth    \* bound: nested walks

ASSUME SafeListAssumption ==
  /\ MaxDepth \in Nat
  /\ ListHead \notin Elements
  /\ Null \notin Elements \cup {ListHead}
  /\ (Elements \cup {ListHead, Null}) \cap Nat = {}

Nodes == Elements \cup {ListHead}

\* The iterator of walk n lies on the stack of the nth nested call.
Iterators == 1..MaxDepth
Chains == SeqOf(Iterators, MaxDepth)

VARIABLES
  next, prev,  \* struct list_head of a node; null when it is off the list
  first,       \* first[n] is n->i, and first[i] is i->next_i for an iterator
  head,        \* head[i] is the pointer that points at i: n stands for &n->i
               \* and j for &j->next_i
  nextNode,    \* nextNode[i] is i->next
  cur,         \* the element each walk in progress visits
  ret,         \* what safe_list_for_each returned last, 1 for not 0
  walks,       \* history: what each walk must and may still visit
  parity       \* history: flips at every callback

lvars == <<next, prev>>
ivars == <<first, head, nextNode>>
listVars == <<next, prev, first, head, nextNode, cur, ret, walks, parity>>

Depth == Len(cur)
Linked == {e \in Elements : next[e] # Null}

-----------------------------------------------------------------------------
(* Iterators.  An operator takes the pointers and returns the new ones. *)

Pointers == [first |-> first, head |-> head, nextNode |-> nextNode]

Store(s) == first' = s.first /\ head' = s.head /\ nextNode' = s.nextNode

\* __safe_list_set_iterator(n, i).
SetIterator(s, n, i) ==
  LET to == next[n]
      next_i == s.first[to]
  IN [first |-> [s.first EXCEPT ![to] = i, ![i] = next_i],
      nextNode |-> [s.nextNode EXCEPT ![i] = to],
      head |-> [j \in Iterators |-> CASE j = i -> to
                                      [] j = next_i -> i
                                      [] OTHER -> s.head[j]]]

\* __safe_list_del_iterator(i).
DelIterator(s, i) ==
  [first |-> [s.first EXCEPT ![s.head[i]] = s.first[i]],
   nextNode |-> s.nextNode,
   head |-> [j \in Iterators |-> IF j = s.first[i] THEN s.head[i] ELSE s.head[j]]]

\* __safe_list_move_iterator(n, i).
MoveIterator(s, n, i) == SetIterator(DelIterator(s, i), n, i)

\* The stack of a walk that returns is gone, its iterator with it.
Gone(s, i) ==
  [first |-> [s.first EXCEPT ![i] = Null],
   nextNode |-> [s.nextNode EXCEPT ![i] = ListHead],
   head |-> [s.head EXCEPT ![i] = Null]]

\* The iterators the for loop of safe_list_del goes through at node n, in its
\* order: from the pointer of the node on, up to the null pointer.
IsChain(s, n, chain) ==
  \A k \in 0..Len(chain) :
    s.first[IF k = 0 THEN n ELSE chain[k]] = IF k < Len(chain) THEN chain[k + 1] ELSE Null

\* Mutant: the old chain of to keeps its back pointer.
HandOver_OldHead(s, n, to, chain) ==
  LET tail == Last(chain)
  IN [first |-> [s.first EXCEPT ![to] = s.first[n], ![tail] = s.first[to], ![n] = Null],
      nextNode |-> [i \in Iterators |-> IF Contains(chain, i) THEN to ELSE s.nextNode[i]],
      head |-> [i \in Iterators |-> IF i = s.first[n] THEN to ELSE s.head[i]]]

\* The end of safe_list_del: the chain of n goes in front of the chain of to.
HandOver(s, n, to, chain) ==
  LET tail == Last(chain)
      next_i == s.first[to]
  IN [first |-> [s.first EXCEPT ![to] = s.first[n], ![tail] = next_i, ![n] = Null],
      nextNode |-> [i \in Iterators |-> IF Contains(chain, i) THEN to ELSE s.nextNode[i]],
      head |-> [i \in Iterators |-> CASE i = s.first[n] -> to
                                      [] i = next_i -> tail
                                      [] OTHER -> s.head[i]]]

-----------------------------------------------------------------------------
(* Operations. *)

\* _list_add(e, p, n).
Link(e, p, n) ==
  /\ next' = [next EXCEPT ![e] = n, ![p] = e]
  /\ prev' = [prev EXCEPT ![n] = e, ![e] = p]

Added(e) ==
  /\ first' = [first EXCEPT ![e] = Null]
  /\ walks' = [w \in 1..Depth |-> [walks[w] EXCEPT !.may = @ \cup {e}]]
  /\ UNCHANGED <<head, nextNode, cur, ret, parity>>

\* Only for an element that is off the list.
safe_list_add(e) ==
  /\ e \notin Linked
  /\ Link(e, prev[ListHead], ListHead)
  /\ Added(e)

safe_list_add_first(e) ==
  /\ e \notin Linked
  /\ Link(e, ListHead, next[ListHead])
  /\ Added(e)

\* list_del(e).
Unlink(e) ==
  /\ next' = [next EXCEPT ![prev[e]] = next[e], ![e] = Null]
  /\ prev' = [prev EXCEPT ![next[e]] = prev[e], ![e] = Null]

\* Only for an element that is on the list.
safe_list_del(e) ==
  /\ e \in Linked
  /\ Unlink(e)
  /\ IF first[e] = Null THEN UNCHANGED ivars
     ELSE \E chain \in Chains :
            IsChain(Pointers, e, chain) /\ Store(HandOver(Pointers, e, next[e], chain))
  /\ walks' = [w \in 1..Depth |-> [todo |-> walks[w].todo \ {e}, may |-> walks[w].may \ {e}]]
  /\ UNCHANGED <<cur, ret, parity>>

\* Mutant: the iterator starts at the list head.
Begin_AtHead(i) == SetIterator(Pointers, ListHead, i)

Begin(i) == SetIterator(Pointers, next[ListHead], i)

\* safe_list_for_each up to its first callback, or all of it for an empty list.
safe_list_for_each ==
  LET i == Depth + 1
      to == next[ListHead]
      s == Begin(i)
  IN /\ Depth < MaxDepth
     /\ IF to = ListHead
        THEN /\ Store(Gone(DelIterator(s, i), i))
             /\ ret' = 0
             /\ UNCHANGED <<cur, walks, parity>>
        ELSE /\ Store(s)
             /\ cur' = Append(cur, to)
             /\ walks' = Append(walks, [todo |-> Linked \ {to}, may |-> {}])
             /\ parity' = 1 - parity
             /\ UNCHANGED ret
     /\ UNCHANGED lvars

\* A walk returns value.
Return(s, value) ==
  /\ Store(Gone(DelIterator(s, Depth), Depth))
  /\ cur' = Front(cur)
  /\ walks' = Front(walks)
  /\ ret' = value
  /\ UNCHANGED <<next, prev, parity>>

\* The callback returned 0: on to the next element, or the end.
VisitReturn ==
  /\ cur # <<>>
  /\ LET to == nextNode[Depth]
         s == MoveIterator(Pointers, to, Depth)
     IN IF to = ListHead THEN Return(s, 0)
        ELSE /\ Store(s)
             /\ cur' = [cur EXCEPT ![Depth] = to]
             /\ walks' = [walks EXCEPT ![Depth] = [todo |-> @.todo \ {to}, may |-> @.may \ {to}]]
             /\ parity' = 1 - parity
             /\ UNCHANGED <<next, prev, ret>>

\* The callback returned a value other than 0.
VisitBreak ==
  /\ cur # <<>>
  /\ Return(Pointers, 1)

ListInit ==
  /\ next = [n \in Nodes |-> IF n = ListHead THEN ListHead ELSE Null]
  /\ prev = [n \in Nodes |-> IF n = ListHead THEN ListHead ELSE Null]
  /\ first = [n \in Nodes \cup Iterators |-> Null]
  /\ head = [i \in Iterators |-> Null]
  /\ nextNode = [i \in Iterators |-> ListHead]
  /\ cur = <<>>
  /\ ret = 0
  /\ walks = <<>>
  /\ parity = 0

ListNext ==
  \/ \E e \in Elements : safe_list_add(e) \/ safe_list_add_first(e) \/ safe_list_del(e)
  \/ safe_list_for_each \/ VisitReturn \/ VisitBreak

ListSpec == ListInit /\ [][ListNext]_listVars

-----------------------------------------------------------------------------
(* Properties. *)

\* next and prev are inverse to each other on the linked nodes, and following
\* next from the head comes back to it through every one of them.
ListOK ==
  /\ \A n \in Linked \cup {ListHead} : next[n] # Null /\ prev[next[n]] = n /\ next[prev[n]] = n
  /\ \A s \in SUBSET (Linked \cup {ListHead}) :
       ListHead \in s /\ (\A n \in s : next[n] \in s) => s = Linked \cup {ListHead}

\* The chain of a node ends, and holds the iterators of exactly those walks that
\* visit the node next; such a node is on the list, and the head of an iterator is
\* the pointer that points at it: safe_list_del of any element finds every walk
\* it must redirect, and no pointer into a stack that is gone is followed.  The
\* list itself is sound.
IteratorsOK ==
  /\ ListOK
  /\ \A n \in Nodes : \E chain \in Chains :
       /\ IsChain(Pointers, n, chain)
       /\ {chain[k] : k \in 1..Len(chain)} = {i \in 1..Depth : nextNode[i] = n}
  /\ \A i \in 1..Depth : nextNode[i] \in Linked \cup {ListHead} /\ first[head[i]] = i

\* The pointers implement the promise of SafeListSpec.
Promise == INSTANCE SafeListSpec WITH linked <- Linked
Refinement == Promise!Spec
=============================================================================
