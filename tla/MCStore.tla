------------------------------ MODULE MCStore ------------------------------
EXTENDS Store

CONSTANTS s1, s2, e1, e2

MCSelf == <<s1, e1>>
=============================================================================
