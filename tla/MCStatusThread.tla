--------------------------- MODULE MCStatusThread ---------------------------
EXTENDS StatusThread
=============================================================================
