---------------------------- MODULE SafeListSpec ----------------------------
(***************************************************************************)
(* What safe_list_for_each promises to callbacks that change the list: a   *)
(* walk calls back once for every element that stays on the list while it  *)
(* lasts, never for one that is off the list, and perhaps for one that was *)
(* added on the way.  Walks nest: callbacks start walks of their own.      *)
(***************************************************************************)
EXTENDS Naturals, Sequences, SequencesExt

CONSTANTS
  Elements,   \* the struct safe_list members of client objects
  MaxDepth    \* bound: nested walks

VARIABLES
  linked,     \* the elements on the list
  walks,      \* the walks in progress, outermost first
  cur,        \* the element each of them visits
  parity,     \* flips at every callback: a callback is never a stutter
  ret         \* what safe_list_for_each returned last: 1 stands for not 0

vars == <<linked, walks, cur, parity, ret>>

\* todo: elements a walk must still visit; may: those added since it began.
\* Both are without an element that has been visited or is off the list.
Visited(w, e) == [todo |-> w.todo \ {e}, may |-> w.may \ {e}]

Init == linked = {} /\ walks = <<>> /\ cur = <<>> /\ parity = 0 /\ ret = 0

Add(e) ==
  /\ e \notin linked
  /\ linked' = linked \cup {e}
  /\ walks' = [w \in 1..Len(walks) |-> [walks[w] EXCEPT !.may = @ \cup {e}]]
  /\ UNCHANGED <<cur, parity, ret>>

Del(e) ==
  /\ e \in linked
  /\ linked' = linked \ {e}
  /\ walks' = [w \in 1..Len(walks) |-> Visited(walks[w], e)]
  /\ UNCHANGED <<cur, parity, ret>>

Begin(e) ==
  /\ e \in linked
  /\ Len(walks) < MaxDepth
  /\ walks' = Append(walks, Visited([todo |-> linked, may |-> {}], e))
  /\ cur' = Append(cur, e)
  /\ parity' = 1 - parity
  /\ UNCHANGED <<linked, ret>>

BeginEmpty ==
  /\ linked = {}
  /\ ret' = 0
  /\ UNCHANGED <<linked, walks, cur, parity>>

Visit(e) ==
  /\ walks # <<>>
  /\ e \in Last(walks).todo \cup Last(walks).may
  /\ walks' = Append(Front(walks), Visited(Last(walks), e))
  /\ cur' = Append(Front(cur), e)
  /\ parity' = 1 - parity
  /\ UNCHANGED <<linked, ret>>

End ==
  /\ walks # <<>>
  /\ Last(walks).todo = {}
  /\ walks' = Front(walks)
  /\ cur' = Front(cur)
  /\ ret' = 0
  /\ UNCHANGED <<linked, parity>>

\* The callback returned a value other than 0.
Break ==
  /\ walks # <<>>
  /\ walks' = Front(walks)
  /\ cur' = Front(cur)
  /\ ret' = 1
  /\ UNCHANGED <<linked, parity>>

Next ==
  \/ \E e \in Elements : Add(e) \/ Del(e) \/ Begin(e) \/ Visit(e)
  \/ BeginEmpty \/ End \/ Break

Spec == Init /\ [][Next]_vars
=============================================================================
