--------------------------- MODULE MCQueueManager ---------------------------
EXTENDS QueueManager
=============================================================================
