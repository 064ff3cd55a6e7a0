-------------------------- MODULE MCServerResource --------------------------
EXTENDS ServerResource, TLC
=============================================================================
