----------------------------- MODULE MCLibrary -----------------------------
EXTENDS Library

MCPort == 0 .. 3
MCDefaultPorts == 0 .. 1
=============================================================================
