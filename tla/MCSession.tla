------------------------------ MODULE MCSession ------------------------------
\* The session on a small instance.
EXTENDS Session
CONSTANTS m1, v1
=============================================================================
