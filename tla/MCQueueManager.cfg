\* Two publishers and enough connects for the vector to grow three times and
\* to have room once.  The system stops when all is published.
CONSTANTS
  Publishers   = {p1, p2}
  Queues       = {q1, q2, q3, q4}
  MaxMessages  = 1
  MaxOverlaps  = 1
  Junk         = Junk
SPECIFICATION Spec
INVARIANT WildOnlyByOverlap
PROPERTY ImplementsBroadcast EveryQueueIsServed
CHECK_DEADLOCK FALSE
