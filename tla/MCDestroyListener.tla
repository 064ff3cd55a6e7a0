------------------------- MODULE MCDestroyListener -------------------------
EXTENDS DestroyListener
=============================================================================
