---------------------------- MODULE MCDataQueue ----------------------------
\* Instances of DataQueue for TLC; the cfg files give the sets of threads.
EXTENDS DataQueue
=============================================================================
