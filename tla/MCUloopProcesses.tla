-------------------------- MODULE MCUloopProcesses --------------------------
(* Instances of UloopProcesses for TLC. *)
EXTENDS UloopProcesses, TLC

Symmetry == Permutations(Watchers)
=============================================================================
