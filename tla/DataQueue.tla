----------------------------- MODULE DataQueue -----------------------------
(***************************************************************************)
(* Data_Queue<DataType> of utilities/data_queue.h: a std::queue guarded by *)
(* queueMutex, and the condition variable block that poppers of an empty   *)
(* queue wait on.  Threads call pushTail and popHead for ever; peekHead,   *)
(* which no thread of the program calls, is left out.                      *)
(* The critical sections are split where another thread can get between:   *)
(* taking the mutex, the body that ends by releasing it, and the           *)
(* notify_one that pushTail calls after its lock_guard is gone.            *)
(***************************************************************************)
EXTENDS Naturals, Sequences, FiniteSets

CONSTANTS
  Pushers,    \* threads that call pushTail
  Poppers,    \* threads that call popHead
  Elements,   \* the values of DataType
  MaxLength,  \* bound on the queue length at which pushTail is still called
  None        \* the owner of a free mutex

Threads == Pushers \cup Poppers

ASSUME ThreadsAssumption ==
  /\ IsFiniteSet(Threads)
  /\ Pushers \cap Poppers = {}
  /\ None \notin Threads

VARIABLES
  queueList,  \* the std::queue, head first
  queueMutex, \* the thread that owns the mutex, or None
  pc          \* where each thread stands in the operation it called

vars == <<queueList, queueMutex, pc>>

PushSteps == {"idle", "lock", "push", "notify"}
PopSteps == {"idle", "lock", "test", "wait"}

TypeOK ==
  /\ queueList \in Seq(Elements)
  /\ queueMutex \in Threads \cup {None}
  /\ pc \in [Threads -> PushSteps \cup PopSteps]
  /\ \A t \in Pushers : pc[t] \in PushSteps
  /\ \A t \in Poppers : pc[t] \in PopSteps

Init ==
  /\ queueList = <<>>
  /\ queueMutex = None
  /\ pc = [t \in Threads |-> "idle"]

Goto(t, step) == pc' = [pc EXCEPT ![t] = step]

\* The threads blocked in block.wait(lock).
Waiting == {t \in Threads : pc[t] = "wait"}

-----------------------------------------------------------------------------
\* std::lock_guard / std::unique_lock; also the re-acquisition in block.wait.
Lock(t) ==
  /\ pc[t] = "lock"
  /\ queueMutex = None
  /\ queueMutex' = t
  /\ Goto(t, IF t \in Pushers THEN "push" ELSE "test")
  /\ UNCHANGED queueList

Unlock(t) ==
  /\ queueMutex = t
  /\ queueMutex' = None

(* pushTail *)

CallPush(t) ==
  /\ pc[t] = "idle"
  /\ Len(queueList) < MaxLength
  /\ Goto(t, "lock")
  /\ UNCHANGED <<queueList, queueMutex>>

\* Mutant of Push: notify_one is called only when the queue was empty.
PushNotifiesIfEmpty(t, e) ==
  /\ pc[t] = "push"
  /\ queueList' = Append(queueList, e)
  /\ Unlock(t)
  /\ Goto(t, IF queueList = <<>> THEN "notify" ELSE "idle")

Push(t, e) ==
  /\ pc[t] = "push"
  /\ queueList' = Append(queueList, e)
  /\ Unlock(t)
  /\ Goto(t, "notify")

\* Mutant of NotifyOne: pushTail returns without notify_one.
NotifyNobody(t) ==
  /\ pc[t] = "notify"
  /\ Goto(t, "idle")
  /\ UNCHANGED <<queueList, queueMutex>>

\* block.notify_one(): wakes one waiting thread, or nobody.
NotifyOne(t) ==
  /\ pc[t] = "notify"
  /\ \/ /\ Waiting = {}
        /\ Goto(t, "idle")
     \/ \E w \in Waiting : pc' = [pc EXCEPT ![t] = "idle", ![w] = "lock"]
  /\ UNCHANGED <<queueList, queueMutex>>

(* popHead *)

CallPop(t) ==
  /\ pc[t] = "idle"
  /\ Goto(t, "lock")
  /\ UNCHANGED <<queueList, queueMutex>>

\* while(queueList.empty()) {block.wait(lock);}
WaitEmpty(t) ==
  /\ pc[t] = "test"
  /\ queueList = <<>>
  /\ Unlock(t)
  /\ Goto(t, "wait")
  /\ UNCHANGED queueList

\* A condition variable may return from wait with no notification.
SpuriousWake(t) ==
  /\ pc[t] = "wait"
  /\ Goto(t, "lock")
  /\ UNCHANGED <<queueList, queueMutex>>

\* Mutant of PopFront: popHead notifies as pushTail does.
PopFrontNotifies(t) ==
  /\ pc[t] = "test"
  /\ queueList # <<>>
  /\ queueList' = Tail(queueList)
  /\ Unlock(t)
  /\ Goto(t, "notify")

PopFront(t) ==
  /\ pc[t] = "test"
  /\ queueList # <<>>
  /\ queueList' = Tail(queueList)
  /\ Unlock(t)
  /\ Goto(t, "idle")

-----------------------------------------------------------------------------
PushTail(t) ==
  \/ CallPush(t)
  \/ Lock(t)
  \/ \E e \in Elements : Push(t, e)
  \/ NotifyOne(t)

PopHead(t) ==
  \/ CallPop(t)
  \/ Lock(t)
  \/ WaitEmpty(t)
  \/ SpuriousWake(t)
  \/ PopFront(t)

Next ==
  \/ \E t \in Pushers : PushTail(t)
  \/ \E t \in Poppers : PopHead(t)

SafeSpec == Init /\ [][Next]_vars

(***************************************************************************)
(* A thread inside an operation keeps running, and poppers call popHead    *)
(* again and again (the loops of the consumer threads).  The mutex is      *)
(* never held across a blocking call, so a thread that keeps asking for it *)
(* gets it in the end: strong fairness.  Nobody is obliged to push, and a  *)
(* spurious wake-up is never owed.                                         *)
(***************************************************************************)
Fairness ==
  /\ \A t \in Threads : SF_vars(Lock(t))
  /\ \A t \in Pushers : /\ WF_vars(\E e \in Elements : Push(t, e))
                        /\ WF_vars(NotifyOne(t))
  /\ \A t \in Poppers : WF_vars(CallPop(t) \/ WaitEmpty(t) \/ PopFront(t))

Spec == SafeSpec /\ Fairness

-----------------------------------------------------------------------------
\* The poppers that will still look at queueList before they wait again.
Awake == {t \in Poppers : pc[t] \in {"lock", "test"}}

\* The pushers that have added an element and not yet called notify_one.
Notifying == {t \in Pushers : pc[t] = "notify"}

(***************************************************************************)
(* No wake-up is lost: when a thread sleeps in block.wait, every element   *)
(* of the queue is spoken for, by a popper that is awake or by a           *)
(* notify_one that is still to come.  Otherwise popHead could sleep on a   *)
(* queue that is not empty although pushTail returned long ago.            *)
(***************************************************************************)
NoStrandedElement ==
  Waiting # {} => Len(queueList) <= Cardinality(Awake) + Cardinality(Notifying)

\* What pushTail and popHead implement.
Channel == INSTANCE FifoChannel WITH chan <- queueList

(***************************************************************************)
(* The queue behind its mutex is a channel that loses no element to a      *)
(* sleeping popper: elements leave in the order pushTail added them, and   *)
(* popHead never sleeps for ever while there is an element to take.        *)
(***************************************************************************)
ImplementsChannel == Channel!Spec
=============================================================================
