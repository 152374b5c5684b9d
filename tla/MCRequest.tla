------------------------------ MODULE MCRequest ------------------------------
EXTENDS Request
=============================================================================
