-------------------------- MODULE MCServerDisplay --------------------------
EXTENDS ServerDisplay
=============================================================================
