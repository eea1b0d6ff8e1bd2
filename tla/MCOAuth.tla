------------------------------ MODULE MCOAuth ------------------------------
EXTENDS OAuth
=============================================================================
