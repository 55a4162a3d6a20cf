----------------------------- MODULE MCRunqueue -----------------------------
(* Instances of Runqueue for TLC. *)
EXTENDS Runqueue, TLC

CONSTANTS a, b, c

\* Tasks a and b are interchangeable when the sets of the cfg do not tell
\* them apart.
Symmetry == Permutations({a, b})
=============================================================================
