---------------------------- MODULE MCUdebugRing ----------------------------
EXTENDS UdebugRing
=============================================================================
