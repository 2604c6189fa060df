------------------------------ MODULE MCMapSync ------------------------------
EXTENDS MapSync
=============================================================================
