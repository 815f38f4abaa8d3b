-------------------------- MODULE MCBackendSelect --------------------------
EXTENDS BackendSelect

CONSTANTS p1, p2, p3
=============================================================================
