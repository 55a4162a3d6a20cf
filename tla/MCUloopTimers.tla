---------------------------- MODULE MCUloopTimers ----------------------------
(* Instance of UloopTimers for TLC: the clock starts shortly before the wrap *)
(* of tv_usec, so deadlines fall on both sides of a full second.             *)
EXTENDS UloopTimers

MCMsecs == {-1, 0, 2}
MCRunTimeouts == {-1, 1}
=============================================================================
