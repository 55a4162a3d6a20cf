----------------------------- MODULE MCSafeList -----------------------------
(* An instance of SafeList for TLC. *)
EXTENDS SafeList, TLC

Symmetry == Permutations(Elements)
=============================================================================
