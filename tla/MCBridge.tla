------------------------------ MODULE MCBridge ------------------------------
EXTENDS Bridge
CONSTANTS o1, o2
=============================================================================
