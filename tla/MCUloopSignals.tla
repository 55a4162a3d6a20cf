--------------------------- MODULE MCUloopSignals ---------------------------
(* Instances of UloopSignals for TLC. *)
EXTENDS UloopSignals

MCHandled == {<<2, "client">>}
=============================================================================
