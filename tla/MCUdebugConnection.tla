------------------------- MODULE MCUdebugConnection -------------------------
EXTENDS UdebugConnection
=============================================================================
