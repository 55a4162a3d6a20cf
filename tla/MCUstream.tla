----------------------------- MODULE MCUstream ------------------------------
(* Small instances of Ustream. *)
EXTENDS Ustream
=============================================================================
