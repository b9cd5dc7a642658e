------------------------- MODULE MCEventLoopThread -------------------------
EXTENDS EventLoopThread
=============================================================================
