-------------------------- MODULE DataQueueProofs --------------------------
(***************************************************************************)
(* Theorems about DataQueue for any sets of threads and elements: the      *)
(* mutex does its work, the queue refines the order of a FIFO channel, and *)
(* no wake-up is lost.                                                     *)
(***************************************************************************)
EXTENDS DataQueue, FiniteSetTheorems, TLAPS

\* The mutex is owned by exactly the thread that is inside a critical section.
MutexOwner ==
  \A t \in Threads : (queueMutex = t) <=> (pc[t] \in {"push", "test"})

-----------------------------------------------------------------------------
\* Removing an element of a finite set lowers its cardinality by one, adding
\* a new one raises it by one (the library states the two separately).
LEMMA CardinalityStep ==
  ASSUME NEW S, IsFiniteSet(S), NEW x
  PROVE  /\ Cardinality(S) \in Nat
         /\ IsFiniteSet(S \cup {x}) /\ IsFiniteSet(S \ {x})
         /\ x \notin S => Cardinality(S \cup {x}) = Cardinality(S) + 1
         /\ x \in S => Cardinality(S \ {x}) = Cardinality(S) - 1
  BY FS_AddElement, FS_RemoveElement, FS_CardinalityType

\* Subsets of the threads are finite, whatever defines them.
LEMMA ThreadSetsFinite ==
  /\ IsFiniteSet(Awake) /\ IsFiniteSet(Notifying)
  /\ Cardinality(Awake) \in Nat /\ Cardinality(Notifying) \in Nat
<1>1. Awake \subseteq Threads /\ Notifying \subseteq Threads
  BY DEF Awake, Notifying, Threads
<1>2. QED
  BY <1>1, ThreadsAssumption, FS_Subset, FS_CardinalityType

-----------------------------------------------------------------------------
\* Type correctness: the queue holds elements, threads stay in the steps of
\* the operation they called.
THEOREM TypeCorrect == SafeSpec => []TypeOK
<1>1. Init => TypeOK
  BY DEF Init, TypeOK, PushSteps, PopSteps, Threads
<1>2. TypeOK /\ [Next]_vars => TypeOK'
  <2> SUFFICES ASSUME TypeOK, [Next]_vars PROVE TypeOK'
    OBVIOUS
  <2> USE ThreadsAssumption DEF TypeOK, PushSteps, PopSteps, Threads, Goto
  <2>1. ASSUME NEW t \in Threads, Lock(t) PROVE TypeOK'
    BY <2>1 DEF Lock
  <2>2. ASSUME NEW t \in Pushers, CallPush(t) PROVE TypeOK'
    BY <2>2 DEF CallPush
  <2>3. ASSUME NEW t \in Pushers, NEW e \in Elements, Push(t, e) PROVE TypeOK'
    BY <2>3 DEF Push, Unlock
  <2>4. ASSUME NEW t \in Pushers, NotifyOne(t) PROVE TypeOK'
    BY <2>4 DEF NotifyOne, Waiting
  <2>5. ASSUME NEW t \in Poppers, CallPop(t) PROVE TypeOK'
    BY <2>5 DEF CallPop
  <2>6. ASSUME NEW t \in Poppers, WaitEmpty(t) PROVE TypeOK'
    BY <2>6 DEF WaitEmpty, Unlock
  <2>7. ASSUME NEW t \in Poppers, SpuriousWake(t) PROVE TypeOK'
    BY <2>7 DEF SpuriousWake
  <2>8. ASSUME NEW t \in Poppers, PopFront(t) PROVE TypeOK'
    BY <2>8 DEF PopFront, Unlock
  <2>9. CASE UNCHANGED vars
    BY <2>9 DEF vars
  <2>10. QED
    BY <2>1, <2>2, <2>3, <2>4, <2>5, <2>6, <2>7, <2>8, <2>9
    DEF Next, PushTail, PopHead
<1>3. QED
  BY <1>1, <1>2, PTL DEF SafeSpec

\* Mutual exclusion: a thread in a critical section owns queueMutex, so no two
\* threads are in their critical sections together.
THEOREM MutualExclusion == SafeSpec => []MutexOwner
<1>1. Init => MutexOwner
  BY ThreadsAssumption DEF Init, MutexOwner
<1>2. TypeOK /\ MutexOwner /\ [Next]_vars => MutexOwner'
  <2> SUFFICES ASSUME TypeOK, MutexOwner, [Next]_vars PROVE MutexOwner'
    OBVIOUS
  <2> USE ThreadsAssumption DEF TypeOK, MutexOwner, Threads, Goto
  <2>1. ASSUME NEW t \in Threads, Lock(t) PROVE MutexOwner'
    BY <2>1 DEF Lock
  <2>2. ASSUME NEW t \in Pushers, CallPush(t) PROVE MutexOwner'
    BY <2>2 DEF CallPush
  <2>3. ASSUME NEW t \in Pushers, NEW e \in Elements, Push(t, e) PROVE MutexOwner'
    BY <2>3 DEF Push, Unlock
  <2>4. ASSUME NEW t \in Pushers, NotifyOne(t) PROVE MutexOwner'
    BY <2>4 DEF NotifyOne, Waiting
  <2>5. ASSUME NEW t \in Poppers, CallPop(t) PROVE MutexOwner'
    BY <2>5 DEF CallPop
  <2>6. ASSUME NEW t \in Poppers, WaitEmpty(t) PROVE MutexOwner'
    BY <2>6 DEF WaitEmpty, Unlock
  <2>7. ASSUME NEW t \in Poppers, SpuriousWake(t) PROVE MutexOwner'
    BY <2>7 DEF SpuriousWake
  <2>8. ASSUME NEW t \in Poppers, PopFront(t) PROVE MutexOwner'
    BY <2>8 DEF PopFront, Unlock
  <2>9. CASE UNCHANGED vars
    BY <2>9 DEF vars
  <2>10. QED
    BY <2>1, <2>2, <2>3, <2>4, <2>5, <2>6, <2>7, <2>8, <2>9
    DEF Next, PushTail, PopHead
<1>3. QED
  BY <1>1, <1>2, TypeCorrect, PTL DEF SafeSpec

-----------------------------------------------------------------------------
\* What one step of the queue is to the channel: an element is added at the
\* tail, or one is taken from the head, or nothing happens.
LEMMA StepOfChannel ==
  ASSUME [Next]_vars
  PROVE  [Channel!Next]_queueList
<1>1. ASSUME NEW t \in Pushers, NEW e \in Elements, Push(t, e)
      PROVE  Channel!Next
  BY <1>1 DEF Push, Channel!Next, Channel!Send
<1>2. ASSUME NEW t \in Poppers, PopFront(t)
      PROVE  Channel!Next
  BY <1>2 DEF PopFront, Channel!Next, Channel!Receive
<1>3. ASSUME NEW t, \/ Lock(t) \/ CallPush(t) \/ NotifyOne(t) \/ CallPop(t)
                    \/ WaitEmpty(t) \/ SpuriousWake(t)
      PROVE  UNCHANGED queueList
  BY <1>3 DEF Lock, CallPush, NotifyOne, CallPop, WaitEmpty, SpuriousWake
<1>4. QED
  BY <1>1, <1>2, <1>3 DEF Next, vars, PushTail, PopHead

\* The queue implements the order of a FIFO channel, with any number of threads
\* pushing and popping: the safety half of ImplementsChannel.
THEOREM QueueKeepsOrder == SafeSpec => Channel!SafeSpec
<1>1. Init => Channel!Init
  BY DEF Init, Channel!Init
<1>2. [Next]_vars => [Channel!Next]_queueList
  BY StepOfChannel
<1>3. QED
  BY <1>1, <1>2, PTL DEF SafeSpec, Channel!SafeSpec

-----------------------------------------------------------------------------
\* One step of the queue keeps every element spoken for: an
\* element arrives with a notify_one to come, a notify_one turns into a popper
\* that is awake, and a popper that is awake leaves with its element.
LEMMA StrandsNothing ==
  ASSUME TypeOK, NoStrandedElement, [Next]_vars
  PROVE  NoStrandedElement'
<1> USE ThreadsAssumption
<1>0. /\ Cardinality(Awake) \in Nat /\ IsFiniteSet(Awake)
      /\ Cardinality(Notifying) \in Nat /\ IsFiniteSet(Notifying)
      /\ Len(queueList) \in Nat
  BY ThreadSetsFinite DEF TypeOK
<1>1. ASSUME NEW t \in Threads, Lock(t) PROVE NoStrandedElement'
  <2>1. Waiting' = Waiting /\ Awake' = Awake /\ Notifying' = Notifying
    BY <1>1 DEF Lock, Goto, Waiting, Awake, Notifying, TypeOK, Threads
  <2>2. QED
    BY <1>1, <2>1 DEF NoStrandedElement, Lock
<1>2. ASSUME NEW t \in Pushers, CallPush(t) PROVE NoStrandedElement'
  <2>1. Waiting' = Waiting /\ Awake' = Awake /\ Notifying' = Notifying
    BY <1>2 DEF CallPush, Goto, Waiting, Awake, Notifying, TypeOK, Threads
  <2>2. QED
    BY <1>2, <2>1 DEF NoStrandedElement, CallPush
<1>3. ASSUME NEW t \in Pushers, NEW e \in Elements, Push(t, e)
      PROVE NoStrandedElement'
  <2>1. Waiting' = Waiting /\ Awake' = Awake
    BY <1>3 DEF Push, Goto, Waiting, Awake, TypeOK, Threads
  <2>2. Notifying' = Notifying \cup {t} /\ t \notin Notifying
    BY <1>3 DEF Push, Goto, Notifying, TypeOK, Threads
  <2>3. Cardinality(Notifying') = Cardinality(Notifying) + 1
    BY <1>0, <2>2, CardinalityStep
  <2>4. Len(queueList') = Len(queueList) + 1
    BY <1>3 DEF Push, TypeOK
  <2>5. QED
    BY <1>0, <2>1, <2>3, <2>4 DEF NoStrandedElement
<1>4. ASSUME NEW t \in Pushers, NotifyOne(t) PROVE NoStrandedElement'
  <2>1. UNCHANGED queueList /\ t \in Notifying
    BY <1>4 DEF NotifyOne, Notifying
  <2>2. CASE Waiting = {} /\ Goto(t, "idle")
    <3>1. Waiting' = {}
      BY <2>2 DEF Goto, Waiting, TypeOK, Threads
    <3>2. QED
      BY <3>1 DEF NoStrandedElement
  <2>3. ASSUME NEW w \in Waiting, pc' = [pc EXCEPT ![t] = "idle", ![w] = "lock"]
        PROVE  NoStrandedElement'
    <3>1. w \in Poppers /\ w # t /\ w \notin Awake
      BY <1>4, <2>3 DEF Waiting, Awake, NotifyOne, TypeOK, Threads, PushSteps
    <3>2. Awake' = Awake \cup {w} /\ Notifying' = Notifying \ {t}
      BY <2>3, <3>1 DEF Awake, Notifying, TypeOK, Threads
    <3>3. /\ Cardinality(Awake') = Cardinality(Awake) + 1
          /\ Cardinality(Notifying') = Cardinality(Notifying) - 1
      BY <1>0, <2>1, <3>1, <3>2, CardinalityStep
    <3>4. QED
      BY <1>0, <2>1, <2>3, <3>3 DEF NoStrandedElement
  <2>4. QED
    BY <1>4, <2>2, <2>3 DEF NotifyOne
<1>5. ASSUME NEW t \in Poppers, CallPop(t) \/ SpuriousWake(t)
      PROVE NoStrandedElement'
  <2>1. /\ Waiting' \subseteq Waiting /\ UNCHANGED queueList
        /\ Awake' = Awake \cup {t} /\ t \notin Awake /\ Notifying' = Notifying
    BY <1>5 DEF CallPop, SpuriousWake, Goto, Waiting, Awake, Notifying, TypeOK,
                Threads
  <2>2. Cardinality(Awake') = Cardinality(Awake) + 1
    BY <1>0, <2>1, CardinalityStep
  <2>3. QED
    BY <1>0, <2>1, <2>2 DEF NoStrandedElement
<1>6. ASSUME NEW t \in Poppers, WaitEmpty(t) PROVE NoStrandedElement'
  <2>1. Len(queueList') = 0
    BY <1>6 DEF WaitEmpty
  <2>2. Awake' \subseteq Threads /\ Notifying' \subseteq Threads
    BY DEF Awake, Notifying, Threads
  <2>3. Cardinality(Awake') \in Nat /\ Cardinality(Notifying') \in Nat
    BY <2>2, FS_Subset, FS_CardinalityType
  <2>4. QED
    BY <2>1, <2>3 DEF NoStrandedElement
<1>7. ASSUME NEW t \in Poppers, PopFront(t) PROVE NoStrandedElement'
  <2>1. /\ Waiting' = Waiting /\ Notifying' = Notifying
        /\ Awake' = Awake \ {t} /\ t \in Awake
    BY <1>7 DEF PopFront, Goto, Waiting, Awake, Notifying, TypeOK, Threads
  <2>2. Cardinality(Awake') = Cardinality(Awake) - 1
    BY <1>0, <2>1, CardinalityStep
  <2>3. Len(queueList') = Len(queueList) - 1
    BY <1>7 DEF PopFront, TypeOK
  <2>4. QED
    BY <1>0, <2>1, <2>2, <2>3 DEF NoStrandedElement
<1>8. CASE UNCHANGED vars
  BY <1>8 DEF vars, NoStrandedElement, Waiting, Awake, Notifying
<1>9. QED
  BY <1>1, <1>2, <1>3, <1>4, <1>5, <1>6, <1>7, <1>8
  DEF Next, PushTail, PopHead, Threads

\* No wake-up of the queue is ever lost, with any number of threads pushing and
\* popping.
THEOREM NoWakeupLost == SafeSpec => []NoStrandedElement
<1>1. Init => NoStrandedElement
  BY DEF Init, NoStrandedElement, Waiting
<1>2. TypeOK /\ NoStrandedElement /\ [Next]_vars => NoStrandedElement'
  BY StrandsNothing
<1>3. QED
  BY <1>1, <1>2, TypeCorrect, PTL DEF SafeSpec
=============================================================================
