---------------------------- MODULE MCUloopEvents ----------------------------
(* Model-checking instance of UloopEvents: an edge-triggered descriptor with *)
(* and without an error callback, a level-triggered one and an interval.     *)
EXTENDS UloopEvents, TLC

CONSTANTS edge, level, interval

MCFds == {edge, level, interval}
MCIntervals == {interval}
MCFlagSets ==
  edge  :> {{"READ", "WRITE", "EDGE_TRIGGER"}, {"READ", "EDGE_TRIGGER", "ERROR_CB"}} @@
  level :> {{"READ"}} @@
  interval :> {{"READ"}}
MCKernelEvents == edge :> {"in", "out", "err"} @@ level :> {"in"} @@ interval :> {"in"}
=============================================================================
