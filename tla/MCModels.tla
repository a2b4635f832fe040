------------------------------ MODULE MCModels ------------------------------
EXTENDS Models

CONSTANTS c1, c2, c3, e1
=============================================================================
