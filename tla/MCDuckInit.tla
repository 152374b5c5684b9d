----------------------------- MODULE MCDuckInit -----------------------------
EXTENDS DuckInit
=============================================================================
