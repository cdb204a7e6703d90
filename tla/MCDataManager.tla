--------------------------- MODULE MCDataManager ---------------------------
EXTENDS DataManager
=============================================================================
