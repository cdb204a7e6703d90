------------------------- MODULE DataManagerProofs -------------------------
(***************************************************************************)
(* Theorems about DataManager for any set of threads that are built in,    *)
(* any backlog and any failures: threads are created once, frames and the  *)
(* queues that receiveThread feeds outlive their users.                    *)
(***************************************************************************)
EXTENDS DataManager, SequenceTheorems, TLAPS

\* The threads of a parent are built-in threads, and none is its own parent.
LEMMA ThreadFacts ==
  /\ "receive" \in Threads /\ "receive" \notin Consumers /\ "receive" \notin Uploads
  /\ Children("receive") = {}
  /\ \A t \in Threads : Children(t) \subseteq Threads \ {t}
  /\ \A t \in Threads, i \in 1..Len(Created) : Created[i] \notin Children(t)
  /\ Len(Created) = 5 /\ Created[1] = "receive"
  /\ \A i \in 1..Len(Created) : Created[i] \in Built => Created[i] \in Threads
  /\ \A i, j \in 1..Len(Created) : Created[i] = Created[j] => i = j
BY BuiltAssumption DEF Threads, Uploads, Consumers, Children, Created, TopLevel

\* main() joins every thread that no thread created.
LEMMA JoinFacts ==
  /\ Len(Joined) = 6 /\ Joined[1] = "receive"
  /\ \A i \in 1..Len(Joined) : Joined[i] \in Built => Joined[i] \in Threads
  /\ \A t \in Threads, i \in 1..Len(Joined) : Joined[i] \notin Children(t)
  /\ \A t \in Threads :
       \/ \E i \in 1..Len(Joined) : Joined[i] = t /\ t \in Built
       \/ \E u \in {"weather", "status", "csv", "house"} \cap Built : t \in Children(u)
<1>1. /\ Len(Joined) = 6 /\ Joined[1] = "receive"
      /\ \A i \in 1..Len(Joined) : Joined[i] \in Built => Joined[i] \in Threads
      /\ \A t \in Threads, i \in 1..Len(Joined) : Joined[i] \notin Children(t)
  BY BuiltAssumption DEF Threads, Uploads, Consumers, Children, Joined, TopLevel
<1>2. ASSUME NEW t \in Threads
      PROVE  \/ \E i \in 1..Len(Joined) : Joined[i] = t /\ t \in Built
             \/ \E u \in {"weather", "status", "csv", "house"} \cap Built : t \in Children(u)
  <2>1. t \in Built
    BY BuiltAssumption DEF Threads, Uploads, Consumers
  <2>2. CASE t \in TopLevel
    <3>1. /\ Joined[1] = "receive" /\ Joined[2] = "weather" /\ Joined[3] = "status"
          /\ Joined[4] = "csv" /\ Joined[6] = "house"
      BY DEF Joined
    <3>2. QED
      BY <1>1, <2>1, <2>2, <3>1 DEF TopLevel
  <2>3. CASE t \notin TopLevel
    <3>1. PICK u \in Built : t \in Children(u)
      BY <2>1, <2>3, BuiltAssumption
    <3>2. u \in {"weather", "status", "csv", "house"}
      BY <3>1 DEF Children
    <3>3. QED
      BY <3>1, <3>2
  <2>4. QED
    BY <2>2, <2>3
<1>3. QED
  BY <1>1, <1>2

\* The children of different threads are different, and are no one's parents.
LEMMA FamilyFacts ==
  /\ \A t, u \in Threads : t # u => Children(t) \cap Children(u) = {}
  /\ \A t \in Threads : \A c \in Children(t) :
       Children(c) = {} /\ c \notin {"receive", "weather", "status", "csv", "house"}
BY DEF Threads, Uploads, Consumers, Children

\* The topics that each thread publishes to.
SensorTopics == {"weatherQueue", "statusQueue"}
Feeds(t) ==
  IF t = "receive" THEN SensorTopics
  ELSE IF t \in Children("csv") THEN {"csvQueue"}
  ELSE Topics \ (SensorTopics \cup {"csvQueue"})

\* Threads publish to topics only.
LEMMA FeedsType == \A t : Feeds(t) \subseteq Topics
BY DEF Feeds, SensorTopics, Topics

\* The threads other than receiveThread publish to topics they feed.
LEMMA OutputType ==
  \A t \in Threads \ {"receive"} : Output(t) \in Seq(Feeds(t))
<1> TAKE t \in Threads \ {"receive"}
<1>1. /\ \A p \in Feeds(t) : <<p>> \in Seq(Feeds(t))
      /\ <<>> \in Seq(Feeds(t))
  OBVIOUS
<1>2. CASE t = "weatherUpload"
  BY <1>1, <1>2 DEF Output, Topics, Feeds, SensorTopics, Children
<1>3. CASE t = "statusUpload"
  BY <1>1, <1>3 DEF Output, Topics, Feeds, SensorTopics, Children
<1>4. CASE t \in {"csvWeather", "csvStatus"}
  <2>1. Output(t) = <<"csvQueue">>
    BY <1>4 DEF Output
  <2>2. t \in Children("csv")
    BY <1>4 DEF Children, Threads, Uploads, Consumers
  <2>3. QED
    BY <1>1, <2>1, <2>2 DEF Feeds
<1>5. CASE t = "houseWeather"
  BY <1>1, <1>5 DEF Output, Topics, Feeds, SensorTopics, Children
<1>6. CASE t \notin {"weatherUpload", "statusUpload", "csvWeather", "csvStatus", "houseWeather"}
  BY <1>1, <1>6 DEF Output
<1>7. QED
  BY <1>2, <1>3, <1>4, <1>5, <1>6

\* receiveThread publishes to topics it feeds, whatever the datagram.
LEMMA DatagramType ==
  ASSUME ReadFrom
  PROVE  \E topics \in Seq(Feeds("receive")) : BeginPublish("receive", topics)
<1>1. /\ <<"weatherQueue", "statusQueue", "statusQueue">> \in Seq(Feeds("receive"))
      /\ <<>> \in Seq(Feeds("receive"))
  BY DEF Feeds, SensorTopics
<1>2. [i \in 1..SensorReadings |-> "statusQueue"] \in Seq(Feeds("receive"))
  BY BoundsAssumption DEF Feeds, SensorTopics
<1>3. QED
  BY <1>1, <1>2
  DEF ReadFrom, WeatherDatagram, SensorStatusDatagram, IgnoredDatagram, ResetDatagram

\* Where a loop goes on after it has found serverRunning set.
LEMMA LoopBodyType == \A t \in Threads : LoopBody(t) \in {"read", "sleep", "pop"}
<1> TAKE t \in Threads
<1>1. CASE t = "receive"
  BY <1>1 DEF LoopBody
<1>2. CASE t \in Uploads
  BY <1>2 DEF LoopBody, Uploads
<1>3. CASE t \in Consumers
  BY <1>3 DEF LoopBody, Uploads, Consumers
<1>4. QED
  BY <1>1, <1>2, <1>3 DEF Threads

-----------------------------------------------------------------------------
\* A thread inside publish has a topic to publish to: what the types of todo
\* and dangling rest on.
Publishing == \A t \in Threads : pc[t] = "publish" => todo[t] # <<>>

\* Beginning to publish keeps the types of what it changes.
LEMMA BeginPublishType ==
  ASSUME TypeOK, Publishing,
         NEW t \in Threads, NEW topics \in Seq(Topics), BeginPublish(t, topics)
  PROVE  /\ pc' \in [Threads -> Steps]
         /\ todo' \in [Threads -> Seq(Topics)]
         /\ position' \in [Threads -> Nat \ {0}]
         /\ Publishing'
BY DEF BeginPublish, Goto, TypeOK, Steps, Publishing

\* What PushNext pushes to is a consumer's queue.
LEMMA PushesToConsumer ==
  ASSUME TypeOK, Publishing, NEW t \in Threads, PushNext(t)
  PROVE  /\ Head(todo[t]) \in Topics
         /\ position[t] \in 1..Len(subscribers[Head(todo[t])])
         /\ Subscribers(t)[position[t]] \in Consumers
<1>1. Head(todo[t]) \in Topics
  BY DEF TypeOK, Publishing, PushNext
<1>2. QED
  BY <1>1 DEF TypeOK, PushNext, Subscribers

-----------------------------------------------------------------------------
\* Type correctness.
THEOREM TypeCorrect == SafeSpec => [](TypeOK /\ Publishing)
<1>1. Init => TypeOK /\ Publishing
  <2> SUFFICES ASSUME Init PROVE TypeOK /\ Publishing
    OBVIOUS
  <2>1. subscribers \in [Topics -> Seq(Consumers)]
    <3>1. "house" \in Built => <<"house">> \in Seq(Consumers)
      BY DEF Consumers
    <3>2. <<>> \in Seq(Consumers)
      OBVIOUS
    <3>3. QED
      BY <3>1, <3>2 DEF Init
  <2>2. todo \in [Threads -> Seq(Topics)]
    BY DEF Init
  <2>3. QED
    BY <2>1, <2>2, BoundsAssumption DEF Init, TypeOK, Publishing, Joined, Steps, Consumers
<1>2. TypeOK /\ Publishing /\ [Next]_vars => TypeOK' /\ Publishing'
  <2> SUFFICES ASSUME TypeOK, Publishing, [Next]_vars PROVE TypeOK' /\ Publishing'
    OBVIOUS
  <2>1. CASE Main
    <3>1. Len(Created) = 5 /\ Len(Joined) = 6
      BY DEF Created, Joined
    <3> USE DEF TypeOK, Publishing, Steps, Goto, queueVars, pubVars
    <3>2. CASE MainCreate
      <4>1. pc' \in [Threads -> Steps] /\ Publishing'
        BY <3>2 DEF MainCreate
      <4>2. mainNext' \in 1..Len(Joined) /\ mainStep' \in {"create", "join"}
        BY <3>1, <3>2 DEF MainCreate
      <4>3. QED
        BY <3>2, <4>1, <4>2 DEF MainCreate
    <3>3. CASE MainJoin
      BY <3>1, <3>3 DEF MainJoin, NextJoin
    <3>4. CASE MainJoinMonitor
      BY <3>1, <3>4 DEF MainJoinMonitor, NextJoin
    <3>5. CASE MainLoop
      BY <3>5 DEF MainLoop
    <3>6. QED
      BY <2>1, <3>2, <3>3, <3>4, <3>5 DEF Main
  <2>2. CASE ReadFrom
    <3>3. \E topics \in Seq(Topics) : BeginPublish("receive", topics)
      BY <2>2, DatagramType, FeedsType, SeqMonotonic
    <3>4. serverRunning' \in {0, 1} /\ UNCHANGED <<failed, mainVars, queueVars>>
      BY <2>2 DEF ReadFrom, ResetDatagram, TypeOK
    <3>5. QED
      BY <3>3, <3>4, BeginPublishType, ThreadFacts DEF TypeOK, mainVars, queueVars
  <2>3. ASSUME NEW t \in Threads, Step(t) PROVE TypeOK' /\ Publishing'
    <3> USE DEF Goto, mainVars, queueVars, pubVars
    <3>1. CASE CheckRunning(t)
      BY <3>1, LoopBodyType DEF CheckRunning, Return, TypeOK, Steps, Publishing
    <3>2. CASE JoinChildren(t)
      BY <3>2 DEF JoinChildren, Return, TypeOK, Steps, Publishing
    <3>3. CASE PushNext(t)
      <4> DEFINE q == Subscribers(t)[position[t]]
      <4>1. q \in Consumers
        BY <3>3, PushesToConsumer
      <4>2. backlog' \in [Consumers -> 0..MaxBacklog] /\ dangling' \subseteq Consumers
        <5>1. backlog[q] \in 0..MaxBacklog /\ MaxBacklog \in Nat
          BY <4>1, BoundsAssumption DEF TypeOK
        <5>2. CASE q \in alive
          <6> DEFINE n == IF backlog[q] < MaxBacklog THEN backlog[q] + 1 ELSE backlog[q]
          <6>1. backlog' = [backlog EXCEPT ![q] = n] /\ n \in 0..MaxBacklog
            <7>1. n \in 0..MaxBacklog
              BY <5>1
            <7>2. backlog' = [backlog EXCEPT ![q] = n]
              BY <3>3, <5>2 DEF PushNext
            <7>3. QED
              BY <7>1, <7>2
          <6>2. QED
            BY <3>3, <5>2, <6>1 DEF PushNext, TypeOK
        <5>3. CASE q \notin alive
          BY <3>3, <4>1, <5>3 DEF PushNext, TypeOK
        <5>4. QED
          BY <5>2, <5>3
      <4>3. QED
        <5>1. position' \in [Threads -> Nat \ {0}]
          BY <3>3 DEF PushNext, TypeOK
        <5>2. UNCHANGED <<serverRunning, failed, mainStep, mainNext, pc, subscribers, alive, todo>>
          BY <3>3 DEF PushNext
        <5>3. QED
          BY <4>2, <5>1, <5>2 DEF TypeOK, Publishing
    <3>4. CASE EndPublish(t)
      <4>1. todo[t] # <<>> /\ todo[t] \in Seq(Topics)
        BY <3>4 DEF EndPublish, TypeOK, Publishing
      <4>2. Tail(todo[t]) \in Seq(Topics) /\ (Len(todo[t]) # 1 => Tail(todo[t]) # <<>>)
        <5>1. /\ Tail(todo[t]) \in Seq(Topics) /\ Len(todo[t]) \in Nat
              /\ Len(Tail(todo[t])) = Len(todo[t]) - 1
          BY <4>1, HeadTailProperties
        <5>2. Len(todo[t]) # 1 => Len(Tail(todo[t])) # 0
          BY <5>1
        <5>3. Len(<<>>) = 0
          BY EmptySeq
        <5>4. QED
          BY <5>1, <5>2, <5>3
      <4>3. /\ todo' = [todo EXCEPT ![t] = Tail(todo[t])]
            /\ position' = [position EXCEPT ![t] = 1]
            /\ pc' = [pc EXCEPT ![t] = IF Len(todo[t]) = 1 THEN "check" ELSE "publish"]
            /\ UNCHANGED <<serverRunning, failed, mainVars, queueVars>>
        BY <3>4 DEF EndPublish
      <4> HIDE DEF Goto
      <4>4. QED
        BY <4>2, <4>3 DEF TypeOK, Steps, Publishing
    <3>5. CASE t = "receive" /\ ReceiveStart
      BY <3>5 DEF ReceiveStart, Return, Fail, TypeOK, Steps, Publishing
    <3>6. CASE t \in Uploads /\ Wake(t)
      <4>1. BeginPublish(t, Output(t)) /\ UNCHANGED <<serverRunning, failed, mainVars, queueVars>>
        BY <3>6 DEF Wake
      <4>2. Output(t) \in Seq(Topics)
        BY <3>6, OutputType, FeedsType, SeqMonotonic, ThreadFacts
      <4>3. QED
        BY <4>1, <4>2, BeginPublishType DEF TypeOK
    <3>7. CASE t \in Consumers /\ Connect(t)
      <4>1. TopicOf(t) \in Topics
        BY <3>7 DEF TopicOf, Topics, Consumers
      <4>2. QED
        BY <3>7, <4>1 DEF Connect, TypeOK, Steps, Publishing
    <3>8. CASE t \in Consumers /\ Pop(t)
      <4>1. BeginPublish(t, Output(t)) /\ UNCHANGED <<serverRunning, failed, mainVars,
                                                      subscribers, alive, dangling>>
        BY <3>8 DEF Pop
      <4>2. backlog' \in [Consumers -> 0..MaxBacklog]
        <5>1. backlog[t] \in 0..MaxBacklog /\ backlog[t] - 1 \in 0..MaxBacklog
          BY <3>8, BoundsAssumption DEF Pop, TypeOK
        <5>2. QED
          BY <3>8, <5>1 DEF Pop, TypeOK
      <4>3. Output(t) \in Seq(Topics)
        BY <3>8, OutputType, FeedsType, SeqMonotonic, ThreadFacts
      <4>4. QED
        BY <4>1, <4>2, <4>3, BeginPublishType DEF TypeOK
    <3>9. CASE UploadSpawn(t)
      BY <3>9 DEF UploadSpawn, TypeOK, Steps, Publishing
    <3>10. CASE CsvStart
      BY <3>10 DEF CsvStart, TypeOK, Steps, Publishing
    <3>11. CASE CsvSpawn
      BY <3>11 DEF CsvSpawn, TypeOK, Steps, Publishing
    <3>12. CASE CsvOpen
      BY <3>12 DEF CsvOpen, Return, Fail, TypeOK, Steps, Publishing
    <3>13. CASE t \in Consumers /\ t = "csv" /\ ReopenFails
      BY <3>13, BoundsAssumption DEF ReopenFails, Fail, TypeOK, Steps, Publishing
    <3>14. CASE HouseSpawn
      BY <3>14 DEF HouseSpawn, TypeOK, Steps, Publishing
    <3>15. CASE HouseSetup
      BY <3>15 DEF HouseSetup, Fail, TypeOK, Steps, Publishing
    <3>16. QED
      BY <2>3, <3>1, <3>2, <3>3, <3>4, <3>5, <3>6, <3>7, <3>8, <3>9, <3>10, <3>11,
         <3>12, <3>13, <3>14, <3>15 DEF Step, Threads, Uploads, Consumers
  <2>4. CASE UNCHANGED vars
    BY <2>4 DEF vars, mainVars, queueVars, pubVars, TypeOK, Publishing
  <2>5. QED
    BY <2>1, <2>2, <2>3, <2>4 DEF Next
<1>3. QED
  BY <1>1, <1>2, PTL DEF SafeSpec

-----------------------------------------------------------------------------
(* What a step does to the program counters *)

(***************************************************************************)
(* A thread moves on by itself.  It says stop or ends only when the server *)
(* has stopped; csvThread is the one that may also give up.                *)
(***************************************************************************)
OwnStep(t) ==
  \E x \in Steps :
    /\ pc' = [pc EXCEPT ![t] = x]
    /\ pc[t] \notin {"unborn", "done"} /\ x \notin {"unborn", "start"}
    /\ t = "csv" /\ x \in {"connect", "spawn"} => pc[t] \in {"start", "connect"}
    /\ t # "csv" /\ x \in {"join", "done"} => serverRunning' = 0
    /\ (t # "csv" \/ "open" \notin failed') /\ x = "done" =>
         \A c \in Children(t) : pc[c] = "done"
    /\ failed \subseteq failed'
    /\ pc[t] = "start" => Children(t) = {} \/ t = "csv"
    /\ t = "receive" /\ x \in {"read", "publish"} => serverRunning' = 1
    /\ serverRunning' # serverRunning =>
         serverRunning' = 0 /\ t = "receive" /\ x \notin {"read", "publish"}
    /\ UNCHANGED mainVars

\* A thread creates its children.
SpawnStep(t) ==
  \E x \in {"connect", "open", "setup"}, first \in {"check", "connect"} :
    /\ t \in {"weather", "status", "csv", "house"}
    /\ pc[t] = IF t = "csv" THEN "spawn" ELSE "start"
    /\ t = "csv" => x = "open"
    /\ pc' = [c \in Threads |-> IF c \in Children(t) THEN first ELSE IF c = t THEN x ELSE pc[c]]
    /\ UNCHANGED <<serverRunning, failed, mainVars>>

\* An uncaught exception ends the process.
CrashStep ==
  mainStep' = "crashed" /\ failed \subseteq failed' /\ UNCHANGED <<serverRunning, pc>>

\* receiveThread publishes only while the server runs, and a thread that has been
\* told to stop has seen serverRunning at 0.
Stops ==
  /\ pc["receive"] \in {"read", "publish"} => serverRunning = 1
  /\ \A t \in Threads \ {"csv"} : pc[t] \in {"join", "done"} => serverRunning = 0

\* Every step of a thread is of one of the three kinds.
LEMMA KindOfStep ==
  ASSUME TypeOK, Publishing, Stops, NEW t \in Threads, Step(t)
  PROVE  OwnStep(t) \/ SpawnStep(t) \/ CrashStep
<1> USE ThreadFacts DEF Goto, mainVars
<1>1. CASE CheckRunning(t)
  BY <1>1, LoopBodyType DEF CheckRunning, Return, TypeOK, Steps, OwnStep
<1>2. CASE JoinChildren(t)
  BY <1>2 DEF JoinChildren, Return, TypeOK, Steps, OwnStep, Stops
<1>3. CASE PushNext(t)
  BY <1>3 DEF PushNext, TypeOK, Steps, OwnStep, Stops
<1>4. CASE EndPublish(t)
  BY <1>4 DEF EndPublish, TypeOK, Steps, OwnStep, Stops
<1>5. CASE t = "receive" /\ ReceiveStart
  BY <1>5 DEF ReceiveStart, Return, Fail, TypeOK, Steps, OwnStep
<1>6. CASE t \in Uploads /\ Wake(t)
  BY <1>6 DEF Wake, BeginPublish, TypeOK, Steps, OwnStep
<1>7. CASE t \in Consumers /\ Connect(t)
  BY <1>7 DEF Connect, TypeOK, Steps, OwnStep
<1>8. CASE t \in Consumers /\ Pop(t)
  BY <1>8 DEF Pop, BeginPublish, TypeOK, Steps, OwnStep
<1>9. CASE UploadSpawn(t)
  BY <1>9 DEF UploadSpawn, SpawnStep
<1>10. CASE t = "csv" /\ CsvStart
  BY <1>10 DEF CsvStart, TypeOK, Steps, OwnStep
<1>11. CASE t = "csv" /\ CsvSpawn
  BY <1>11 DEF CsvSpawn, SpawnStep
<1>12. CASE t = "csv" /\ CsvOpen
  BY <1>12 DEF CsvOpen, Return, Fail, TypeOK, Steps, OwnStep
<1>13. CASE t = "csv" /\ ReopenFails
  BY <1>13 DEF ReopenFails, Fail, TypeOK, Steps, OwnStep
<1>14. CASE t = "house" /\ HouseSpawn
  BY <1>14 DEF HouseSpawn, SpawnStep
<1>15. CASE t = "house" /\ HouseSetup
  BY <1>15 DEF HouseSetup, Fail, TypeOK, Steps, OwnStep, CrashStep, queueVars
<1>16. QED
  BY <1>1, <1>2, <1>3, <1>4, <1>5, <1>6, <1>7, <1>8, <1>9, <1>10, <1>11,
     <1>12, <1>13, <1>14, <1>15 DEF Step

\* receiveThread reads one datagram: it goes on to publish, or back to its test.
LEMMA ReadStep ==
  ASSUME TypeOK, Stops, ReadFrom
  PROVE  OwnStep("receive")
BY ThreadFacts
DEF ReadFrom, WeatherDatagram, SensorStatusDatagram, IgnoredDatagram, ResetDatagram,
    BeginPublish, Goto, TypeOK, Steps, Stops, OwnStep

-----------------------------------------------------------------------------
(* Creation, joins and families *)

\* main() creates threads that are not there yet, and joins them one by one.
Order ==
  /\ mainStep = "create" =>
       /\ mainNext <= Len(Created)
       /\ \A i \in mainNext..Len(Created) : Created[i] \in Built => pc[Created[i]] = "unborn"
  /\ mainStep = "join" =>
       \A i \in 1..(mainNext - 1) : Joined[i] \in Built => pc[Joined[i]] = "done"
  /\ mainStep \in {"loop", "exit"} =>
       \A i \in 1..Len(Joined) : Joined[i] \in Built => pc[Joined[i]] = "done"

\* A child is not there until its parent creates it, and only csvThread, when it
\* could not open its file, ends before its children do.
Families ==
  \A t \in Threads :
    /\ pc[t] \in {"unborn", "start"} \/ (t = "csv" /\ pc[t] \in {"connect", "spawn"})
         => \A c \in Children(t) : pc[c] = "unborn"
    /\ (t # "csv" \/ "open" \notin failed) /\ pc[t] = "done" =>
         \A c \in Children(t) : pc[c] = "done"

LifeInv == TypeOK /\ Publishing /\ Order /\ Stops /\ Families

\* main() creates the next thread: one that was not there.
LEMMA CreatesUnborn ==
  ASSUME LifeInv, MainCreate, Created[mainNext] \in Built
  PROVE  /\ Created[mainNext] \in Threads
         /\ pc[Created[mainNext]] = "unborn"
         /\ pc' = [pc EXCEPT ![Created[mainNext]] = "start"]
BY ThreadFacts DEF LifeInv, Order, TypeOK, MainCreate, Goto

\* Order survives a step in which main() stands still, threads that main() will
\* create stay unborn and those that have returned stay so.
LEMMA OrderKept ==
  ASSUME LifeInv, UNCHANGED mainVars,
         \A i \in 1..Len(Created) :
           Created[i] \in Built /\ pc[Created[i]] = "unborn" => pc'[Created[i]] = "unborn",
         \A i \in 1..Len(Joined) :
           Joined[i] \in Built /\ pc[Joined[i]] = "done" => pc'[Joined[i]] = "done"
  PROVE  Order'
<1> USE DEF LifeInv, TypeOK, mainVars
<1>1. mainStep' = "create" =>
        /\ mainNext' <= Len(Created)
        /\ \A i \in mainNext'..Len(Created) : Created[i] \in Built => pc'[Created[i]] = "unborn"
  BY ThreadFacts DEF Order
<1>2. mainStep' = "join" =>
        \A i \in 1..(mainNext' - 1) : Joined[i] \in Built => pc'[Joined[i]] = "done"
  BY JoinFacts DEF Order
<1>3. mainStep' \in {"loop", "exit"} =>
        \A i \in 1..Len(Joined) : Joined[i] \in Built => pc'[Joined[i]] = "done"
  BY DEF Order
<1>4. QED
  BY <1>1, <1>2, <1>3 DEF Order

\* The three parts of LifeInv survive a thread's own step, ...
LEMMA OwnStepKeeps ==
  ASSUME LifeInv, NEW t \in Threads, OwnStep(t)
  PROVE  Order' /\ Stops' /\ Families'
<1>1. PICK x \in Steps : OwnStep(t)!(x)
  BY DEF OwnStep
<1> USE <1>1 DEF LifeInv, TypeOK
<1>2. Order'
  <2>1. \A u \in Threads : pc[u] \in {"unborn", "done"} => pc'[u] = pc[u]
    OBVIOUS
  <2>2. QED
    BY <2>1, ThreadFacts, JoinFacts, OrderKept
<1>3. Stops'
  BY ThreadFacts DEF Stops
<1>4. Families'
  <2>1. ASSUME NEW u \in Threads,
               pc'[u] \in {"unborn", "start"} \/ (u = "csv" /\ pc'[u] \in {"connect", "spawn"})
        PROVE  \A c \in Children(u) : pc'[c] = "unborn"
    BY <2>1, ThreadFacts DEF Families
  <2>2. ASSUME NEW u \in Threads, u # "csv" \/ "open" \notin failed', pc'[u] = "done"
        PROVE  \A c \in Children(u) : pc'[c] = "done"
    BY <2>2, ThreadFacts DEF Families
  <2>3. QED
    BY <2>1, <2>2 DEF Families
<1>5. QED
  BY <1>2, <1>3, <1>4

\* ... the creation of children, ...
LEMMA SpawnStepKeeps ==
  ASSUME LifeInv, NEW t \in Threads, SpawnStep(t)
  PROVE  Order' /\ Stops' /\ Families'
<1>1. PICK x \in {"connect", "open", "setup"}, first \in {"check", "connect"} :
             SpawnStep(t)!(x, first)
  BY DEF SpawnStep
<1> USE <1>1 DEF LifeInv, TypeOK
<1>2. Order'
  <2>1. \A u \in Threads \ Children(t) : pc[u] \in {"unborn", "done"} => pc'[u] = pc[u]
    OBVIOUS
  <2>2. QED
    BY <2>1, ThreadFacts, JoinFacts, OrderKept
<1>3. Stops'
  BY ThreadFacts, FamilyFacts DEF Stops
<1>4. Families'
  BY ThreadFacts, FamilyFacts DEF Families
<1>5. QED
  BY <1>2, <1>3, <1>4

\* ... a join that has succeeded or had nothing to wait for, ...
LEMMA JoinedKeeps ==
  ASSUME LifeInv, NextJoin, mainStep = "join", UNCHANGED <<serverRunning, failed, pc>>,
         Joined[mainNext] \in Built => pc[Joined[mainNext]] = "done"
  PROVE  Order' /\ Stops' /\ Families'
<1>1. Stops' /\ Families'
  BY DEF LifeInv, Stops, Families
<1>2. /\ mainNext \in 1..Len(Joined)
      /\ \A i \in 1..mainNext : Joined[i] \in Built => pc'[Joined[i]] = "done"
  BY JoinFacts DEF LifeInv, TypeOK, Order
<1>3. CASE mainNext < Len(Joined)
  BY <1>1, <1>2, <1>3, JoinFacts DEF NextJoin, Order
<1>4. CASE ~(mainNext < Len(Joined))
  <2>1. mainNext = Len(Joined) /\ mainStep' = "loop"
    BY <1>2, <1>4, JoinFacts DEF NextJoin
  <2>2. QED
    BY <1>1, <1>2, <2>1 DEF Order
<1>5. QED
  BY <1>3, <1>4

\* ... and the steps of main().
LEMMA MainKeeps ==
  ASSUME LifeInv, Main
  PROVE  Order' /\ Stops' /\ Families'
<1> USE DEF LifeInv, TypeOK
<1>1. CASE MainCreate
  <2>1. UNCHANGED <<serverRunning, failed>> /\ mainStep = "create" /\ mainNext \in 1..Len(Created)
    BY <1>1, ThreadFacts DEF MainCreate, Order
  <2>2. CASE Created[mainNext] \in Built
    <3> DEFINE new == Created[mainNext]
    <3>1. new \in Threads /\ pc[new] = "unborn" /\ pc' = [pc EXCEPT ![new] = "start"]
      BY <1>1, <2>2, CreatesUnborn
    <3>2. /\ \A i \in 1..Len(Created) : i # mainNext => Created[i] # new
          /\ \A t \in Threads : new \notin Children(t)
      BY <2>1, ThreadFacts
    <3>3. \/ mainStep' = "create" /\ mainNext' = mainNext + 1 /\ mainNext < Len(Created)
          \/ mainStep' = "join" /\ mainNext' = 1
      BY <1>1 DEF MainCreate
    <3> HIDE DEF new
    <3>4. Order'
      <4>1. \A i \in 1..Len(Created) :
              i # mainNext /\ Created[i] \in Built => pc'[Created[i]] = pc[Created[i]]
        BY <3>1, <3>2, ThreadFacts
      <4>2. CASE mainStep' = "create"
        BY <2>1, <3>3, <4>1, <4>2, ThreadFacts DEF Order
      <4>3. CASE mainStep' = "join"
        BY <3>3, <4>3 DEF Order
      <4>4. QED
        BY <3>3, <4>2, <4>3
    <3>5. Stops'
      BY <2>1, <3>1 DEF Stops
    <3>6. Families'
      BY <2>1, <3>1, <3>2 DEF Families
    <3>7. QED
      BY <3>4, <3>5, <3>6
  <2>3. CASE Created[mainNext] \notin Built
    BY <1>1, <2>1, <2>3, ThreadFacts DEF MainCreate, Order, Stops, Families
  <2>4. QED
    BY <2>2, <2>3
<1>2. CASE MainJoin
  <2>1. Joined[mainNext] \in Built => pc[Joined[mainNext]] = "done"
    BY <1>2 DEF MainJoin
  <2>2. QED
    BY <1>2, <2>1, JoinedKeeps DEF MainJoin
<1>3. CASE MainJoinMonitor
  <2>1. Joined[mainNext] \notin Built
    BY <1>3, JoinFacts DEF MainJoinMonitor, Threads, Uploads, Consumers
  <2>2. CASE NextJoin
    BY <1>3, <2>1, <2>2, JoinedKeeps DEF MainJoinMonitor
  <2>3. CASE mainStep' \in {"crashed", "stuck"}
    BY <1>3, <2>3 DEF MainJoinMonitor, Order, Stops, Families
  <2>4. QED
    BY <1>3, <2>2, <2>3 DEF MainJoinMonitor
<1>4. CASE MainLoop
  <2>1. serverRunning = 0
    BY <1>4, ThreadFacts, JoinFacts, BuiltAssumption DEF MainLoop, Order, Stops
  <2>2. QED
    BY <1>4, <2>1 DEF MainLoop, Order, Stops, Families
<1>5. QED
  BY <1>1, <1>2, <1>3, <1>4 DEF Main

\* LifeInv is inductive.
THEOREM Lifetimes == SafeSpec => []LifeInv
<1>1. Init => Order /\ Stops /\ Families
  BY ThreadFacts DEF Init, Order, Stops, Families
<1>2. LifeInv /\ [Next]_vars => Order' /\ Stops' /\ Families'
  <2> SUFFICES ASSUME LifeInv, [Next]_vars PROVE Order' /\ Stops' /\ Families'
    OBVIOUS
  <2>1. CASE Main
    BY <2>1, MainKeeps
  <2>2. CASE ReadFrom
    BY <2>2, ReadStep, OwnStepKeeps, ThreadFacts DEF LifeInv
  <2>3. ASSUME NEW t \in Threads, Step(t) PROVE Order' /\ Stops' /\ Families'
    <3>1. CASE CrashStep
      BY <3>1 DEF CrashStep, LifeInv, Order, Stops, Families
    <3>2. QED
      BY <2>3, <3>1, KindOfStep, OwnStepKeeps, SpawnStepKeeps DEF LifeInv
  <2>4. CASE UNCHANGED vars
    BY <2>4 DEF vars, mainVars, LifeInv, Order, Stops, Families
  <2>5. QED
    BY <2>1, <2>2, <2>3, <2>4 DEF Next
<1>3. QED
  BY <1>1, <1>2, TypeCorrect, PTL DEF SafeSpec, LifeInv

\* main() never creates its threads a second time.
THEOREM MainCreatesOnce == SafeSpec => CreatesOnce
<1>1. LifeInv /\ [Next]_vars => [mainStep = "loop" => mainStep' # "create"]_vars
  <2> SUFFICES ASSUME LifeInv, Next, mainStep = "loop" PROVE mainStep' # "create"
    OBVIOUS
  <2>1. serverRunning = 0
    BY ThreadFacts, JoinFacts, BuiltAssumption DEF LifeInv, Order, Stops
  <2>2. CASE Main
    BY <2>1, <2>2 DEF Main, MainCreate, MainJoin, MainJoinMonitor, MainLoop
  <2>3. CASE ReadFrom
    BY <2>3, ReadStep DEF LifeInv, OwnStep, mainVars
  <2>4. ASSUME NEW t \in Threads, Step(t) PROVE mainStep' # "create"
    BY <2>4, KindOfStep DEF LifeInv, OwnStep, SpawnStep, CrashStep, mainVars
  <2>5. QED
    BY <2>2, <2>3, <2>4 DEF Next
<1>2. QED
  BY <1>1, Lifetimes, PTL DEF SafeSpec, CreatesOnce

\* The stack frame of weatherThread or statusThread outlives its upload thread,
\* which holds pointers to the statistics and the mutex in it.
THEOREM FramesOutliveUploads == SafeSpec => []FrameOutlivesUpload
<1>1. LifeInv => FrameOutlivesUpload
  BY DEF LifeInv, Families, FrameOutlivesUpload, Threads, Consumers
<1>2. QED
  BY <1>1, Lifetimes, PTL

-----------------------------------------------------------------------------
(* The queues that receiveThread feeds *)

\* What a thread has still to publish to are topics it feeds.
Writers == \A t \in Threads : todo[t] \in Seq(Feeds(t))

\* A subscribed queue exists, or its owner has returned.
Attached ==
  /\ "house" \in Built => "house" \in alive
  /\ \A p \in Topics : \A i \in 1..Len(subscribers[p]) :
       /\ TopicOf(subscribers[p][i]) = p
       /\ subscribers[p][i] \in alive \/ pc[subscribers[p][i]] = "done"

QueuesKept == SensorQueuesNeverDangle /\ CsvQueueOutlivesWriters

DangleInv == LifeInv /\ Writers /\ Attached /\ QueuesKept

\* A thread that has returned stays so: nothing creates it again.
LEMMA DoneStays ==
  ASSUME LifeInv, [Next]_vars, NEW u \in Threads, pc[u] = "done"
  PROVE  pc'[u] = "done"
<1>1. pc \in [Threads -> Steps]
  BY DEF LifeInv, TypeOK
<1>2. ASSUME NEW t \in Threads, OwnStep(t) PROVE pc'[u] = "done"
  BY <1>1, <1>2 DEF OwnStep
<1>3. ASSUME NEW t \in Threads, SpawnStep(t) PROVE pc'[u] = "done"
  <2>1. u \notin Children(t) /\ u # t
    BY <1>3 DEF SpawnStep, LifeInv, Families
  <2>2. QED
    BY <1>3, <2>1 DEF SpawnStep
<1>4. CASE MainCreate
  <2>1. CASE Created[mainNext] \in Built
    BY <1>1, <1>4, <2>1, CreatesUnborn
  <2>2. CASE Created[mainNext] \notin Built
    BY <1>4, <2>2 DEF MainCreate
  <2>3. QED
    BY <2>1, <2>2
<1>5. CASE Main
  BY <1>4, <1>5 DEF Main, MainJoin, MainJoinMonitor, MainLoop
<1>6. CASE ReadFrom
  BY <1>2, <1>6, ReadStep, ThreadFacts DEF LifeInv
<1>7. ASSUME NEW t \in Threads, Step(t) PROVE pc'[u] = "done"
  BY <1>2, <1>3, <1>7, KindOfStep DEF LifeInv, CrashStep
<1>8. QED
  BY <1>5, <1>6, <1>7 DEF Next, vars

\* Subscribed queues stay attached when no queue changes, ...
LEMMA AttachedKept ==
  ASSUME LifeInv, Attached, [Next]_vars, UNCHANGED <<subscribers, alive>>
  PROVE  Attached'
<1>1. ASSUME NEW p \in Topics, NEW i \in 1..Len(subscribers[p])
      PROVE  subscribers[p][i] \in Threads
  BY <1>1 DEF LifeInv, TypeOK, Threads
<1>2. QED
  BY <1>1, DoneStays DEF Attached

\* ... when a thread returns ...
LEMMA ReturnKeepsAttached ==
  ASSUME LifeInv, Attached, [Next]_vars, NEW t \in Threads,
         alive' = alive \ ({t} \ {"house"}), UNCHANGED subscribers, pc'[t] = "done"
  PROVE  Attached'
<1>1. ASSUME NEW p \in Topics, NEW i \in 1..Len(subscribers[p])
      PROVE  subscribers[p][i] \in Threads
  BY <1>1 DEF LifeInv, TypeOK, Threads
<1>2. QED
  BY <1>1, DoneStays DEF Attached

\* ... and when a consumer connects the queue it has just built.
LEMMA ConnectKeepsAttached ==
  ASSUME LifeInv, Attached, [Next]_vars, NEW t \in Consumers, Connect(t)
  PROVE  Attached'
<1>1. alive' = alive \cup {t}
  BY DEF Connect
<1>2. ASSUME NEW p \in Topics, NEW i \in 1..Len(subscribers'[p])
      PROVE  /\ TopicOf(subscribers'[p][i]) = p
             /\ subscribers'[p][i] \in alive' \/ pc'[subscribers'[p][i]] = "done"
  <2>1. subscribers[p] \in Seq(Consumers) /\ Consumers \subseteq Threads
    BY DEF LifeInv, TypeOK, Threads
  <2>2. CASE i \in 1..Len(subscribers[p]) /\ subscribers'[p][i] = subscribers[p][i]
    BY <1>1, <2>1, <2>2, DoneStays DEF Attached
  <2>3. CASE p = TopicOf(t) /\ subscribers'[p][i] = t
    BY <1>1, <2>3
  <2>4. QED
    <3>1. CASE p # TopicOf(t)
      BY <1>2, <2>2, <3>1 DEF Connect, LifeInv, TypeOK
    <3>2. CASE p = TopicOf(t)
      <4>1. subscribers'[p] = Append(subscribers[p], t)
        BY <3>2 DEF Connect, LifeInv, TypeOK
      <4>2. QED
        BY <1>2, <2>1, <2>2, <2>3, <3>2, <4>1
    <3>3. QED
      BY <3>1, <3>2
<1>3. QED
  BY <1>1, <1>2 DEF Attached

\* What has failed is not forgotten.
LEMMA FailedGrows ==
  ASSUME LifeInv, [Next]_vars
  PROVE  failed \subseteq failed'
<1>1. CASE Main
  BY <1>1 DEF Main, MainCreate, MainJoin, MainJoinMonitor, MainLoop
<1>2. CASE ReadFrom
  BY <1>2 DEF ReadFrom
<1>3. ASSUME NEW t \in Threads, Step(t) PROVE failed \subseteq failed'
  BY <1>3, KindOfStep DEF LifeInv, OwnStep, SpawnStep, CrashStep
<1>4. QED
  BY <1>1, <1>2, <1>3 DEF Next, vars

\* A push to the queue of weatherThread, statusThread or houseThread finds it, and
\* one to that of csvThread does unless the file could not be opened.
LEMMA PushFindsQueue ==
  ASSUME DangleInv, NEW t \in Threads, PushNext(t),
         Subscribers(t)[position[t]] \in {"weather", "status", "house", "csv"}
  PROVE  \/ Subscribers(t)[position[t]] \in alive
         \/ Subscribers(t)[position[t]] = "csv" /\ "open" \in failed
<1> DEFINE q == Subscribers(t)[position[t]]
           p == Head(todo[t])
<1>1. /\ p \in Topics /\ q \in Consumers
      /\ TopicOf(q) = p /\ (q \in alive \/ pc[q] = "done")
  BY PushesToConsumer DEF DangleInv, LifeInv, Attached, Subscribers
<1>2. p \in Feeds(t)
  BY HeadTailProperties DEF DangleInv, LifeInv, Writers, Publishing, PushNext
<1>3. CASE q = "house"
  BY <1>1, <1>3 DEF DangleInv, Attached, Consumers
<1>4. CASE q \in {"weather", "status"}
  <2>1. p \in SensorTopics
    BY <1>1, <1>4 DEF TopicOf, SensorTopics
  <2>2. t = "receive"
    BY <1>2, <2>1 DEF Feeds, SensorTopics
  <2>3. serverRunning = 1
    BY <2>2 DEF DangleInv, LifeInv, Stops, PushNext
  <2>4. pc[q] # "done"
    BY <1>1, <1>4, <2>3 DEF DangleInv, LifeInv, Stops, Threads
  <2>5. QED
    BY <1>1, <2>4
<1>5. CASE q = "csv"
  <2>1. p = "csvQueue"
    BY <1>1, <1>5 DEF TopicOf
  <2>2. t \in Children("csv")
    BY <1>2, <2>1 DEF Feeds, SensorTopics
  <2>3. pc[t] # "done" /\ "csv" \in Threads
    BY <1>1, <1>5 DEF PushNext, Threads
  <2>4. pc["csv"] = "done" => "open" \in failed
    BY <2>2, <2>3 DEF DangleInv, LifeInv, Families
  <2>5. QED
    BY <1>1, <1>5, <2>4
<1>6. QED
  BY <1>3, <1>4, <1>5

\* Only a push to a queue that was destroyed can disturb QueuesKept.
LEMMA KeptUnlessPushed ==
  ASSUME LifeInv, QueuesKept, [Next]_vars,
         \A q \in dangling' \ dangling :
           \/ q \notin {"weather", "status", "house", "csv"}
           \/ q = "csv" /\ "open" \in failed
  PROVE  QueuesKept'
BY FailedGrows DEF QueuesKept, SensorQueuesNeverDangle, CsvQueueOutlivesWriters

\* What each step does to the queues and to what is still to be published.
LEMMA DangleInvStep ==
  ASSUME DangleInv, [Next]_vars
  PROVE  Writers' /\ Attached' /\ QueuesKept'
<1> USE DEF DangleInv
<1>0. TypeOK /\ Publishing
  BY DEF LifeInv
<1>1. ASSUME NEW t \in Threads, NEW topics \in Seq(Feeds(t)), BeginPublish(t, topics)
      PROVE  Writers'
  BY <1>0, <1>1 DEF BeginPublish, Writers, TypeOK
<1>2. UNCHANGED dangling => QueuesKept'
  BY KeptUnlessPushed
<1>3. UNCHANGED queueVars => Attached' /\ QueuesKept'
  BY <1>2, AttachedKept DEF queueVars
<1>4. CASE Main
  BY <1>3, <1>4 DEF Main, MainCreate, MainJoin, MainJoinMonitor, MainLoop, pubVars, Writers
<1>5. CASE ReadFrom
  <2>1. UNCHANGED queueVars /\ \E topics \in Seq(Feeds("receive")) : BeginPublish("receive", topics)
    BY <1>5, DatagramType DEF ReadFrom
  <2>2. QED
    BY <1>1, <1>3, <2>1, ThreadFacts
<1>6. ASSUME NEW t \in Threads, Step(t)
      PROVE  Writers' /\ Attached' /\ QueuesKept'
  <2>1. ASSUME UNCHANGED <<queueVars, todo>>
        PROVE  Writers' /\ Attached' /\ QueuesKept'
    BY <1>3, <2>1 DEF Writers
  <2>2. ASSUME NEW u \in Threads, Return(u), UNCHANGED todo
        PROVE  Writers' /\ Attached' /\ QueuesKept'
    <3>1. pc'[u] = "done" /\ alive' = alive \ ({u} \ {"house"}) /\ UNCHANGED <<subscribers, dangling>>
      BY <1>0, <2>2 DEF Return, Goto, TypeOK
    <3>2. QED
      BY <1>2, <2>2, <3>1, ReturnKeepsAttached DEF Writers
  <2>3. CASE CheckRunning(t)
    BY <2>1, <2>2, <2>3 DEF CheckRunning, pubVars
  <2>4. CASE JoinChildren(t)
    BY <2>2, <2>4 DEF JoinChildren, pubVars
  <2>5. CASE PushNext(t)
    <3> DEFINE q == Subscribers(t)[position[t]]
    <3>1. UNCHANGED <<subscribers, alive, todo>> /\ (q \in alive => UNCHANGED dangling)
          /\ dangling' \subseteq dangling \cup {q}
      BY <2>5 DEF PushNext
    <3>2. \/ q \notin {"weather", "status", "house", "csv"} \/ q \in alive
          \/ q = "csv" /\ "open" \in failed
      BY <2>5, PushFindsQueue
    <3> HIDE DEF q
    <3>3. QueuesKept'
      BY <3>1, <3>2, KeptUnlessPushed
    <3>4. QED
      BY <3>1, <3>3, AttachedKept DEF Writers
  <2>6. CASE EndPublish(t)
    <3>1. UNCHANGED queueVars /\ todo' = [todo EXCEPT ![t] = Tail(@)] /\ todo[t] # <<>>
      BY <1>0, <2>6 DEF EndPublish, Publishing
    <3>2. Writers'
      BY <1>0, <3>1, HeadTailProperties DEF Writers, TypeOK
    <3>3. QED
      BY <1>3, <3>1, <3>2
  <2>7. CASE t = "receive" /\ ReceiveStart
    BY <2>1, <2>2, <2>7 DEF ReceiveStart, pubVars
  <2>8. CASE t \in Uploads /\ Wake(t)
    <3>1. Writers'
      BY <1>1, <2>8, OutputType, ThreadFacts DEF Wake
    <3>2. QED
      BY <1>3, <2>8, <3>1 DEF Wake
  <2>9. CASE t \in Consumers /\ Connect(t)
    BY <1>2, <2>9, ConnectKeepsAttached DEF Connect, pubVars, Writers
  <2>10. CASE t \in Consumers /\ Pop(t)
    <3>1. Writers'
      BY <1>1, <2>10, OutputType, ThreadFacts DEF Pop
    <3>2. QED
      BY <1>2, <2>10, <3>1, AttachedKept DEF Pop
  <2>11. CASE UploadSpawn(t)
    BY <2>1, <2>11 DEF UploadSpawn, pubVars
  <2>12. CASE t = "csv" /\ (CsvStart \/ CsvSpawn)
    BY <2>1, <2>12 DEF CsvStart, CsvSpawn, pubVars
  <2>13. CASE t = "csv" /\ CsvOpen
    BY <2>1, <2>2, <2>13 DEF CsvOpen, pubVars
  <2>14. CASE t = "csv" /\ ReopenFails
    <3>1. /\ pc'[t] = "done" /\ alive' = alive \ ({t} \ {"house"})
          /\ UNCHANGED <<subscribers, dangling, todo>>
      BY <1>0, <2>14 DEF ReopenFails, Goto, pubVars, TypeOK
    <3>2. QED
      BY <1>2, <3>1, ReturnKeepsAttached DEF Writers
  <2>15. CASE t = "house" /\ (HouseSpawn \/ HouseSetup)
    BY <2>1, <2>15 DEF HouseSpawn, HouseSetup, pubVars
  <2>16. QED
    BY <1>6, <2>3, <2>4, <2>5, <2>6, <2>7, <2>8, <2>9, <2>10, <2>11, <2>12, <2>13,
       <2>14, <2>15 DEF Step
<1>7. CASE UNCHANGED vars
  BY <1>3, <1>7 DEF vars, pubVars, Writers
<1>8. QED
  BY <1>4, <1>5, <1>6, <1>7 DEF Next

\* DangleInv is inductive.
THEOREM QueueLifetimes == SafeSpec => []DangleInv
<1>1. Init => Writers /\ Attached /\ QueuesKept
  <2> SUFFICES ASSUME Init PROVE Writers /\ Attached /\ QueuesKept
    OBVIOUS
  <2>1. Writers
    BY DEF Init, Writers
  <2>2. Attached
    <3>1. "house" \in Built => "house" \in alive
      BY DEF Init
    <3>2. \A p \in Topics : p # "houseQueue" \/ "house" \notin Built => Len(subscribers[p]) = 0
      BY EmptySeq DEF Init
    <3>3. "house" \in Built => subscribers["houseQueue"] = <<"house">>
      BY DEF Init, Topics
    <3>4. TopicOf("house") = "houseQueue"
      BY DEF TopicOf
    <3>5. QED
      BY <3>1, <3>2, <3>3, <3>4 DEF Attached
  <2>3. QueuesKept
    BY DEF Init, QueuesKept, SensorQueuesNeverDangle, CsvQueueOutlivesWriters
  <2>4. QED
    BY <2>1, <2>2, <2>3
<1>2. DangleInv /\ [Next]_vars => Writers' /\ Attached' /\ QueuesKept'
  BY DangleInvStep
<1>3. QED
  BY <1>1, <1>2, Lifetimes, PTL DEF SafeSpec, DangleInv

\* Nothing is ever pushed to the queue of weatherThread, statusThread or
\* houseThread after it was destroyed, whatever fails.
THEOREM SensorQueuesOutliveReceive == SafeSpec => []SensorQueuesNeverDangle
<1>1. DangleInv => SensorQueuesNeverDangle
  BY DEF DangleInv, QueuesKept
<1>2. QED
  BY <1>1, QueueLifetimes, PTL

\* Nothing is ever pushed to the queue of csvThread after it was destroyed, unless
\* the CSV file could not be opened.
THEOREM CsvQueueOutlives == SafeSpec => []CsvQueueOutlivesWriters
<1>1. DangleInv => CsvQueueOutlivesWriters
  BY DEF DangleInv, QueuesKept
<1>2. QED
  BY <1>1, QueueLifetimes, PTL

\* main() returns, and the global queues end, after every thread, but for the two
\* that csvThread leaves behind when it gives up its file.
THEOREM MainOutlivesAll == SafeSpec => []MainOutlivesThreads
<1>1. LifeInv => MainOutlivesThreads
  <2> SUFFICES ASSUME LifeInv, mainStep = "exit", NEW t \in Threads
               PROVE  pc[t] = "done" \/ ("open" \in failed /\ t \in Children("csv"))
    BY DEF MainOutlivesThreads
  <2>1. \A i \in 1..Len(Joined) : Joined[i] \in Built => pc[Joined[i]] = "done"
    BY DEF LifeInv, Order
  <2>2. CASE \E i \in 1..Len(Joined) : Joined[i] = t /\ t \in Built
    BY <2>1, <2>2
  <2>3. ASSUME NEW u \in {"weather", "status", "csv", "house"} \cap Built, t \in Children(u)
        PROVE  pc[t] = "done" \/ ("open" \in failed /\ t \in Children("csv"))
    <3>1. u \in Threads /\ pc[u] = "done"
      <4>1. \E i \in 1..Len(Joined) : Joined[i] = u
        BY JoinFacts DEF Joined
      <4>2. QED
        BY <2>1, <4>1, JoinFacts
    <3>2. QED
      BY <2>3, <3>1 DEF LifeInv, Families
  <2>4. QED
    BY <2>2, <2>3, JoinFacts
<1>2. QED
  BY <1>1, Lifetimes, PTL
=============================================================================
