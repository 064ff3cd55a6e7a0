--------------------------- MODULE MCClientProxy ---------------------------
EXTENDS ClientProxy
=============================================================================
