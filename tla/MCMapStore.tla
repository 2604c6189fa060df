------------------------------ MODULE MCMapStore ------------------------------
EXTENDS MapStore
=============================================================================
