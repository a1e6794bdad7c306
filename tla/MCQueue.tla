------------------------------ MODULE MCQueue ------------------------------
EXTENDS Queue
============================================================================
