---------------------------- MODULE QueueManager ----------------------------
(***************************************************************************)
(* Queue_Manager<DataType> of utilities/queue_manager.h: publish walks a   *)
(* std::vector of queue pointers while connect appends to it, and nothing  *)
(* orders the two.  The vector is modelled as the three pointers and the   *)
(* storage blocks it is made of, so that a thread can meet it half         *)
(* changed.  An access to a block that was freed, to a cell that was never *)
(* written or past the end ends the behaviour with wild = TRUE.            *)
(*                                                                         *)
(* Every order of the calls is modelled, the ones the program never has    *)
(* included; overlaps counts the calls of connect and publish that got in  *)
(* each other's way, and the properties say what is lost by that alone.    *)
(*                                                                         *)
(* pushTail is atomic: module DataQueue shows that it implements a channel.*)
(***************************************************************************)
EXTENDS Integers, Sequences, Functions

CONSTANTS
  Publishers,   \* threads that call publish
  Queues,       \* Data_Queues, each connected by the thread that owns it
  MaxMessages,  \* bound on the messages of one publisher
  MaxOverlaps,  \* bound on the calls that begin while another is in the way
  Junk          \* the content of a cell that was never written

ASSUME ConstantsAssumption ==
  /\ MaxMessages \in Nat
  /\ MaxOverlaps \in Nat
  /\ Junk \notin Queues

VARIABLES
  storage,    \* the blocks allocated so far, each a sequence of cells
  freed,      \* the blocks that were freed
  start, finish, limit,   \* the three pointers of the vector
  connectPc,              \* of the thread that connects each queue
  myFinish, oldBlock,     \* the end and the old storage it works with
  publishPc, index, base, \* of each publisher: i and the start it has read
  published,  \* the number of messages each publisher has published
  inbox,      \* what was pushed into each queue
  wild,       \* memory outside the vector was accessed
  overlaps    \* history: calls that began while another was in the way, see Overlap

vectorVars  == <<storage, freed, start, finish, limit>>
myVars      == <<myFinish, oldBlock>>
connectVars == <<connectPc, myVars>>
publishVars == <<publishPc, index, base, published, inbox>>
vars == <<vectorVars, connectVars, publishVars, wild, overlaps>>

Null == [block |-> 0, at |-> 0]
Pointers == [block : Nat, at : Nat]
Cells == Queues \cup {Junk}

Init ==
  /\ storage = <<>> /\ freed = {}
  /\ start = Null /\ finish = Null /\ limit = Null
  /\ connectPc = [q \in Queues |-> "idle"]
  /\ myFinish = [q \in Queues |-> Null]
  /\ oldBlock = [q \in Queues |-> 0]
  /\ publishPc = [p \in Publishers |-> "idle"]
  /\ index = [p \in Publishers |-> 0]
  /\ base = [p \in Publishers |-> Null]
  /\ published = [p \in Publishers |-> 0]
  /\ inbox = [q \in Queues |-> <<>>]
  /\ wild = FALSE /\ overlaps = 0

Wild ==
  /\ wild' = TRUE
  /\ UNCHANGED <<vectorVars, connectVars, publishVars>>

Goto(q, step) == connectPc' = [connectPc EXCEPT ![q] = step]

-----------------------------------------------------------------------------
(* connect: queueList.push_back(newQueue) *)

Growing == {q \in Queues : connectPc[q] \in {"start", "finish", "limit"}}
Connecting == Growing \cup {q \in Queues : connectPc[q] = "write"}
Publishing == {p \in Publishers : publishPc[p] # "idle"}

\* A call begins while no thread is inside the others, or overlaps them.
Overlap(others) ==
  \/ others = {} /\ UNCHANGED overlaps
  \/ others # {} /\ overlaps < MaxOverlaps /\ overlaps' = overlaps + 1

\* There is room: the end of the elements is read, then written through.
PushBack(q) ==
  /\ connectPc[q] = "idle"
  /\ finish # limit
  /\ Overlap(Connecting)
  /\ myFinish' = [myFinish EXCEPT ![q] = finish]
  /\ UNCHANGED oldBlock
  /\ Goto(q, "write")
  /\ UNCHANGED <<vectorVars, publishVars, wild>>

WriteCell(q) ==
  /\ connectPc[q] = "write"
  /\ UNCHANGED overlaps
  /\ LET f == myFinish[q]
     IN IF f.block \in freed \/ f.at >= Len(storage[f.block])
          THEN Wild
          ELSE /\ storage' = [storage EXCEPT ![f.block][f.at + 1] = q]
               /\ finish' = [f EXCEPT !.at = @ + 1]
               /\ Goto(q, "done")
               /\ UNCHANGED <<freed, start, limit, myVars, publishVars, wild>>

\* What the vector holds, while its pointers agree.
Elements ==
  IF start = Null \/ start.block # finish.block THEN <<>>
  ELSE SubSeq(storage[start.block], 1, finish.at)

\* There is none: the elements are copied to a new block of twice the size, ...
Grow(q) ==
  /\ connectPc[q] = "idle"
  /\ finish = limit
  /\ Overlap(Connecting \cup Publishing)
  /\ IF start.block # finish.block \/ start.block \in freed
       THEN Wild
       ELSE LET room == [i \in 1..(Len(Elements) - 1) |-> Junk]
                new == Len(storage) + 1
            IN /\ storage' = Append(storage, Append(Elements, q) \o room)
               /\ myFinish' = [myFinish EXCEPT ![q] = [block |-> new, at |-> Len(Elements) + 1]]
               /\ oldBlock' = [oldBlock EXCEPT ![q] = start.block]
               /\ Goto(q, "start")
               /\ UNCHANGED <<freed, start, finish, limit, publishVars, wild>>

\* ... the old one is freed, and the three pointers are set one after another.
SetStart(q) ==
  /\ connectPc[q] = "start"
  /\ UNCHANGED overlaps
  /\ IF oldBlock[q] \in freed
       THEN Wild
       ELSE /\ freed' = freed \cup ({oldBlock[q]} \ {0})
            /\ start' = [block |-> myFinish[q].block, at |-> 0]
            /\ Goto(q, "finish")
            /\ UNCHANGED <<storage, finish, limit, myVars, publishVars, wild>>

SetFinish(q) ==
  /\ connectPc[q] = "finish"
  /\ finish' = myFinish[q]
  /\ Goto(q, "limit")
  /\ UNCHANGED <<storage, freed, start, limit, myVars, publishVars, wild, overlaps>>

SetLimit(q) ==
  /\ connectPc[q] = "limit"
  /\ limit' = [myFinish[q] EXCEPT !.at = Len(storage[myFinish[q].block])]
  /\ Goto(q, "done")
  /\ UNCHANGED <<storage, freed, start, finish, myVars, publishVars, wild, overlaps>>

Connect(q) ==
  \/ PushBack(q) \/ WriteCell(q)
  \/ Grow(q) \/ SetStart(q) \/ SetFinish(q) \/ SetLimit(q)

Connected == {q \in Queues : connectPc[q] = "done"}

-----------------------------------------------------------------------------
(* publish *)

\* Mutant of CallPublish: the loop begins with i = 1.
CallPublishFromOne(p) ==
  /\ publishPc[p] = "idle"
  /\ published[p] < MaxMessages
  /\ Overlap(Growing)
  /\ published' = [published EXCEPT ![p] = @ + 1]
  /\ index' = [index EXCEPT ![p] = 1]
  /\ publishPc' = [publishPc EXCEPT ![p] = "test"]
  /\ UNCHANGED <<vectorVars, connectVars, base, inbox, wild>>

CallPublish(p) ==
  /\ publishPc[p] = "idle"
  /\ published[p] < MaxMessages
  /\ Overlap(Growing)
  /\ published' = [published EXCEPT ![p] = @ + 1]
  /\ index' = [index EXCEPT ![p] = 0]
  /\ publishPc' = [publishPc EXCEPT ![p] = "test"]
  /\ UNCHANGED <<vectorVars, connectVars, base, inbox, wild>>

\* Mutant of BelowSize: i <= queueList.size().
UpToSize(i) ==
  IF start.block = finish.block THEN {i <= finish.at - start.at} ELSE BOOLEAN

\* Mutant of BelowSize: i + 1 < queueList.size().
BelowLast(i) ==
  IF start.block = finish.block THEN {i + 1 < finish.at - start.at} ELSE BOOLEAN

\* i < queueList.size(): the distance of two pointers, which is any number when
\* they point into different blocks.
BelowSize(i) ==
  IF start.block = finish.block THEN {i < finish.at - start.at} ELSE BOOLEAN

TestSize(p) ==
  /\ publishPc[p] = "test"
  /\ \E more \in BelowSize(index[p]) :
       publishPc' = [publishPc EXCEPT ![p] = IF more THEN "load" ELSE "idle"]
  /\ base' = [base EXCEPT ![p] = start]
  /\ UNCHANGED <<vectorVars, connectVars, index, published, inbox, wild, overlaps>>

\* The cells a pointer and an index lead to: none, or one.
CellAt(b, i) ==
  IF b.block \in 1..Len(storage) \ freed /\ i < Len(storage[b.block])
    THEN {storage[b.block][i + 1]} \ {Junk} ELSE {}

\* queueList[i]->pushTail(data)
PushElement(p) ==
  /\ publishPc[p] = "load"
  /\ UNCHANGED overlaps
  /\ \/ /\ CellAt(base[p], index[p]) = {}
        /\ Wild
     \/ \E q \in CellAt(base[p], index[p]) :
          /\ inbox' = [inbox EXCEPT ![q] = Append(@, <<p, published[p]>>)]
          /\ index' = [index EXCEPT ![p] = @ + 1]
          /\ publishPc' = [publishPc EXCEPT ![p] = "test"]
          /\ UNCHANGED <<vectorVars, connectVars, base, published, wild>>

Publish(p) == CallPublish(p) \/ TestSize(p) \/ PushElement(p)

-----------------------------------------------------------------------------
Next ==
  /\ ~wild
  /\ \/ \E q \in Queues : Connect(q)
     \/ \E p \in Publishers : Publish(p)

SafeSpec == Init /\ [][Next]_vars

\* A thread inside connect or publish runs to its end.
Fairness ==
  /\ \A q \in Queues : WF_vars(~wild /\ Connect(q))
  /\ \A p \in Publishers : WF_vars(~wild /\ (TestSize(p) \/ PushElement(p)))

Spec == SafeSpec /\ Fairness

-----------------------------------------------------------------------------
Overlapped == overlaps > 0

\* A thread follows a pointer that is not, or no longer, an element only after
\* two connects have overlapped, or a publish and a connect that found no room:
\* a connect that finds room does not disturb the threads that publish.
WildOnlyByOverlap == wild => Overlapped

\* The queues that publish has not come to yet.
Owed(p) ==
  IF publishPc[p] = "idle" THEN {}
  ELSE {Elements[i] : i \in index[p] + 1 .. Len(Elements)}

Promise == INSTANCE Broadcast WITH
  connected <- Connected,
  busy <- Publishing,
  owed <- [p \in Publishers |-> Owed(p)]

(***************************************************************************)
(* Up to such an overlap the unsynchronised vector is good enough: every   *)
(* step of connect and publish is one that Broadcast allows.  A message    *)
(* gets into every queue that was connected when publish was called, once, *)
(* in the order of its publisher.                                          *)
(***************************************************************************)
ImplementsBroadcast ==
  Promise!Init /\ [][Overlapped' \/ [Promise!Next]_(Promise!vars)]_vars

\* A queue that is connected before publish has returned gets the message in
\* the end, also when connect found room while the loop was under way.
EveryQueueIsServed ==
  \A p \in Publishers, q \in Queues, n \in 1..MaxMessages :
    published[p] = n /\ p \in Publishing /\ q \in Connected
      ~> Overlapped \/ <<p, n>> \in Range(inbox[q])
=============================================================================
