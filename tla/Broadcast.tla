----------------------------- MODULE Broadcast -----------------------------
(***************************************************************************)
(* What a Queue_Manager promises to the threads that use it: a message     *)
(* that is published is put once into every queue that was connected when  *)
(* publish was called, and the messages of one publisher keep their order. *)
(* A queue connected before publish returns may get the message too.       *)
(***************************************************************************)
EXTENDS Naturals, Sequences

CONSTANTS
  Publishers,  \* threads that call publish
  Queues,      \* the Data_Queues that may be connected
  MaxMessages  \* bound on the messages of one publisher

VARIABLES
  connected,   \* the queues connected so far
  inbox,       \* what has been put into each queue
  published,   \* the number of messages each publisher has published
  busy,        \* the publishers inside publish
  owed         \* the queues its present message has still to be put into

vars == <<connected, inbox, published, busy, owed>>

Init ==
  /\ connected = {}
  /\ inbox = [q \in Queues |-> <<>>]
  /\ published = [p \in Publishers |-> 0]
  /\ busy = {}
  /\ owed = [p \in Publishers |-> {}]

Connect(q) ==
  /\ connected' = connected \cup {q}
  /\ \E late \in SUBSET busy :
       owed' = [p \in Publishers |-> IF p \in late THEN owed[p] \cup {q} ELSE owed[p]]
  /\ UNCHANGED <<inbox, published, busy>>

Publish(p) ==
  /\ p \notin busy
  /\ published[p] < MaxMessages
  /\ published' = [published EXCEPT ![p] = @ + 1]
  /\ busy' = busy \cup {p}
  /\ owed' = [owed EXCEPT ![p] = connected]
  /\ UNCHANGED <<connected, inbox>>

Deliver(p, q) ==
  /\ q \in owed[p]
  /\ inbox' = [inbox EXCEPT ![q] = Append(@, <<p, published[p]>>)]
  /\ owed' = [owed EXCEPT ![p] = @ \ {q}]
  /\ UNCHANGED <<connected, published, busy>>

\* publish returns once the message is in every queue it is owed to.
Finish(p) ==
  /\ p \in busy /\ owed[p] = {}
  /\ busy' = busy \ {p}
  /\ UNCHANGED <<connected, inbox, published, owed>>

Next ==
  \/ \E q \in Queues : Connect(q)
  \/ \E p \in Publishers : Publish(p) \/ Finish(p) \/ \E q \in Queues : Deliver(p, q)

Spec == Init /\ [][Next]_vars
=============================================================================
