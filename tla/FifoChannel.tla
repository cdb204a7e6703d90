---------------------------- MODULE FifoChannel ----------------------------
(***************************************************************************)
(* What a Data_Queue promises its users, free of mutex and condition       *)
(* variable: a FIFO channel in which a sent element sits until the         *)
(* receiver takes it, and in which a receiver never misses an element      *)
(* for ever.  "Provides an implementation of a templated blocking queue"   *)
(* (utilities/data_queue.h:23).                                            *)
(***************************************************************************)
EXTENDS Sequences

CONSTANT Elements   \* the values of DataType

VARIABLE chan       \* the elements in transit, oldest first

TypeOK == chan \in Seq(Elements)

Init == chan = <<>>

Send(e) == chan' = Append(chan, e)

Receive == /\ chan # <<>>
           /\ chan' = Tail(chan)

Next == \/ \E e \in Elements : Send(e)
        \/ Receive

\* The order of the elements is all that is promised without fairness.
SafeSpec == Init /\ [][Next]_chan

\* With fairness: while the channel holds an element, receiving goes on.
Spec == SafeSpec /\ WF_chan(Receive)
=============================================================================
