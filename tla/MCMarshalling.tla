---------------------------- MODULE MCMarshalling ----------------------------
EXTENDS Marshalling, TLC
=============================================================================
