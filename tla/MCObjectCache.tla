--------------------------- MODULE MCObjectCache ---------------------------
EXTENDS ObjectCache
=============================================================================
