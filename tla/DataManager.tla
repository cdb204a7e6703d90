---------------------------- MODULE DataManager ----------------------------
(***************************************************************************)
(* The threads of the data manager, from main() to the last join: which    *)
(* thread creates, feeds and joins which, when each looks at serverRunning *)
(* and when it blocks, and how long the queue object that lives on each    *)
(* consumer's stack stays valid for the threads that push to it.           *)
(*                                                                         *)
(* Messages carry no content here.  A Data_Queue is named after the thread *)
(* that pops it and is represented by the number of its elements, counted  *)
(* up to MaxBacklog, which stands for "that many or more".  Its operations *)
(* are atomic: module DataQueue shows that they implement a FIFO channel.  *)
(***************************************************************************)
EXTENDS Naturals, Sequences

CONSTANTS
  Built,           \* the threads of the Thread Spawn Tree that are built in
  MaxBacklog,      \* queue lengths are told apart up to this bound
  SensorReadings,  \* status messages made of one sensor status datagram
  Failures         \* what may fail: subset of {"udp", "open", "multicast"}

Uploads   == {"weatherUpload", "statusUpload"} \cap Built
Consumers == {"weather", "status", "csv", "house",
              "csvWeather", "csvStatus", "houseWeather"} \cap Built
Threads   == {"receive"} \cup Uploads \cup Consumers

\* The threads a thread creates, and joins before it returns.
Children(t) ==
  Built \cap CASE t = "weather" -> {"weatherUpload"}
               [] t = "status"  -> {"statusUpload"}
               [] t = "csv"     -> {"csvWeather", "csvStatus"}
               [] t = "house"   -> {"houseWeather"}
               [] OTHER         -> {}

\* The program builds all of Threads; a smaller instance leaves branches out, and
\* main() passes over the threads that are not built.
TopLevel == {"receive", "weather", "status", "csv", "house"}

ASSUME BuiltAssumption ==
  /\ "receive" \in Built
  /\ Built \subseteq TopLevel \cup UNION {Children(t) : t \in Built}

ASSUME BoundsAssumption ==
  /\ MaxBacklog \in Nat \ {0}
  /\ SensorReadings \in Nat \ {0}
  /\ Failures \subseteq {"udp", "open", "multicast"}

\* The threads main() creates, in the order of its pthread_create calls, and
\* the order of ThreadDescriptorType in which it joins them.
Created == <<"receive", "weather", "status", "csv", "house">>
Joined  == <<"receive", "weather", "status", "csv", "monitor", "house">>

\* The Queue_Managers of GlobalQueueList that are used, and houseQueue, which
\* is one Data_Queue with static storage and so has one subscriber for ever.
Topics == {"weatherQueue", "reportWeatherQueue", "statusQueue",
           "reportStatusQueue", "csvQueue", "houseQueue"}

\* The topic a consumer's queue is connected to.
TopicOf(t) ==
  CASE t = "weather"                      -> "weatherQueue"
    [] t = "status"                       -> "statusQueue"
    [] t \in {"csvWeather", "houseWeather"} -> "reportWeatherQueue"
    [] t = "csvStatus"                    -> "reportStatusQueue"
    [] t = "csv"                          -> "csvQueue"
    [] t = "house"                        -> "houseQueue"

\* The topics a thread publishes to for each element it pops or report it makes.
Output(t) ==
  CASE t = "weatherUpload"              -> <<"reportWeatherQueue">>
    [] t = "statusUpload"               -> <<"reportStatusQueue">>
    [] t \in {"csvWeather", "csvStatus"} -> <<"csvQueue">>
    [] t = "houseWeather"               -> <<"houseQueue">>
    [] OTHER                            -> <<>>

VARIABLES
  serverRunning,  \* the volatile int every loop tests
  failed,         \* the Failures that have happened
  mainStep,       \* "create", "join", "loop", "exit", "crashed" or "stuck"
  mainNext,       \* index into Created or Joined
  pc,             \* where each thread stands
  backlog,        \* elements in each consumer's Data_Queue
  subscribers,    \* queueList of each Queue_Manager
  alive,          \* the consumers whose Data_Queue object exists
  todo,           \* topics a thread has still to publish to, current one first
  position,       \* index i of the loop in publish
  dangling        \* the consumers whose queue was pushed to after its end

mainVars  == <<mainStep, mainNext>>
queueVars == <<backlog, subscribers, alive, dangling>>
pubVars   == <<todo, position>>
vars == <<serverRunning, failed, mainVars, pc, queueVars, pubVars>>

Steps == {"unborn", "start", "connect", "spawn", "open", "setup", "check",
          "read", "sleep", "pop", "publish", "join", "done"}

TypeOK ==
  /\ serverRunning \in {0, 1}
  /\ failed \subseteq Failures
  /\ mainStep \in {"create", "join", "loop", "exit", "crashed", "stuck"}
  /\ mainNext \in 1..Len(Joined)
  /\ pc \in [Threads -> Steps]
  /\ backlog \in [Consumers -> 0..MaxBacklog]
  /\ subscribers \in [Topics -> Seq(Consumers)]
  /\ alive \subseteq Consumers
  /\ todo \in [Threads -> Seq(Topics)]
  /\ position \in [Threads -> Nat \ {0}]
  /\ dangling \subseteq Consumers

\* main() has set serverRunning; houseQueue exists since before main().
Init ==
  /\ serverRunning = 1
  /\ failed = {}
  /\ mainStep = "create"
  /\ mainNext = 1
  /\ pc = [t \in Threads |-> "unborn"]
  /\ backlog = [t \in Consumers |-> 0]
  /\ subscribers = [p \in Topics |-> IF p = "houseQueue" /\ "house" \in Built
                                    THEN <<"house">> ELSE <<>>]
  /\ alive = {"house"} \cap Built
  /\ todo = [t \in Threads |-> <<>>]
  /\ position = [t \in Threads |-> 1]
  /\ dangling = {}

\* A failure the instance allows happens.
Fail(f) ==
  /\ f \in Failures
  /\ failed' = failed \cup {f}

Goto(t, step) == pc' = [pc EXCEPT ![t] = step]

\* The queue on the stack of t is destroyed when t returns.
Return(t) ==
  /\ Goto(t, "done")
  /\ alive' = alive \ ({t} \ {"house"})
  /\ UNCHANGED <<backlog, subscribers, dangling>>

-----------------------------------------------------------------------------
(* main() *)

\* pthread_create of the next thread; the last one starts the joins.
MainCreate ==
  /\ mainStep = "create"
  /\ IF Created[mainNext] \in Built THEN Goto(Created[mainNext], "start") ELSE UNCHANGED pc
  /\ IF mainNext < Len(Created)
       THEN mainNext' = mainNext + 1 /\ UNCHANGED mainStep
       ELSE mainNext' = 1 /\ mainStep' = "join"
  /\ UNCHANGED <<serverRunning, failed, queueVars, pubVars>>

NextJoin ==
  IF mainNext < Len(Joined)
    THEN mainNext' = mainNext + 1 /\ UNCHANGED mainStep
    ELSE mainNext' = 1 /\ mainStep' = "loop"

\* Mutant of MainJoin: the threads are detached.
MainDetach ==
  /\ mainStep = "join"
  /\ Joined[mainNext] # "monitor"
  /\ NextJoin
  /\ UNCHANGED <<serverRunning, failed, pc, queueVars, pubVars>>

MainJoin ==
  /\ mainStep = "join"
  /\ Joined[mainNext] # "monitor"
  /\ Joined[mainNext] \in Built => pc[Joined[mainNext]] = "done"
  /\ NextJoin
  /\ UNCHANGED <<serverRunning, failed, pc, queueVars, pubVars>>

\* threads[MonitorThread] was never created, so its handle is uninitialised:
\* pthread_join fails at once, never returns, or kills the process.
MainJoinMonitor ==
  /\ mainStep = "join"
  /\ Joined[mainNext] = "monitor"
  /\ \/ NextJoin
     \/ mainStep' \in {"crashed", "stuck"} /\ UNCHANGED mainNext
  /\ UNCHANGED <<serverRunning, failed, pc, queueVars, pubVars>>

\* while (serverRunning)
MainLoop ==
  /\ mainStep = "loop"
  /\ mainStep' = IF serverRunning # 0 THEN "create" ELSE "exit"
  /\ UNCHANGED <<serverRunning, failed, mainNext, pc, queueVars, pubVars>>

Main == MainCreate \/ MainJoin \/ MainJoinMonitor \/ MainLoop

-----------------------------------------------------------------------------
(* Start of the threads *)

\* The UDP_Interface is built, or its constructor throws.
ReceiveStart ==
  /\ pc["receive"] = "start"
  /\ \/ /\ Goto("receive", "check")
        /\ UNCHANGED <<serverRunning, failed, queueVars>>
     \/ /\ Fail("udp")
        /\ serverRunning' = 0
        /\ Return("receive")
  /\ UNCHANGED <<mainVars, pubVars>>

\* weatherThread and statusThread create their upload thread first.
UploadSpawn(t) ==
  /\ t \in {"weather", "status"}
  /\ pc[t] = "start"
  /\ pc' = [c \in Threads |-> IF c \in Children(t) THEN "check"
                              ELSE IF c = t THEN "connect" ELSE pc[c]]
  /\ UNCHANGED <<serverRunning, failed, mainVars, queueVars, pubVars>>

\* csvThread connects its queue before its children exist; houseThread has
\* nothing to connect.
CsvStart ==
  /\ pc["csv"] = "start"
  /\ Goto("csv", "connect")
  /\ UNCHANGED <<serverRunning, failed, mainVars, queueVars, pubVars>>

CsvSpawn ==
  /\ pc["csv"] = "spawn"
  /\ pc' = [c \in Threads |-> IF c \in Children("csv") THEN "connect"
                              ELSE IF c = "csv" THEN "open" ELSE pc[c]]
  /\ UNCHANGED <<serverRunning, failed, mainVars, queueVars, pubVars>>

HouseSpawn ==
  /\ pc["house"] = "start"
  /\ pc' = [c \in Threads |-> IF c \in Children("house") THEN "connect"
                              ELSE IF c = "house" THEN "setup" ELSE pc[c]]
  /\ UNCHANGED <<serverRunning, failed, mainVars, queueVars, pubVars>>

\* A Data_Queue is built on the stack and connected to its Queue_Manager.
Connect(t) ==
  /\ pc[t] = "connect"
  /\ alive' = alive \cup {t}
  /\ subscribers' = [subscribers EXCEPT ![TopicOf(t)] = Append(@, t)]
  /\ Goto(t, IF t = "csv" THEN "spawn" ELSE "check")
  /\ UNCHANGED <<serverRunning, failed, mainVars, backlog, dangling, pubVars>>

\* The first file is opened; csvThread returns if it cannot be.
CsvOpen ==
  /\ pc["csv"] = "open"
  /\ \/ Goto("csv", "check") /\ UNCHANGED <<failed, queueVars>>
     \/ Fail("open") /\ Return("csv")
  /\ UNCHANGED <<serverRunning, mainVars, pubVars>>

\* An exception of the Multicast_Interface constructor leaves houseThread and
\* so ends the process.
HouseSetup ==
  /\ pc["house"] = "setup"
  /\ \/ Goto("house", "check") /\ UNCHANGED <<failed, mainVars>>
     \/ /\ Fail("multicast")
        /\ mainStep' = "crashed"
        /\ UNCHANGED <<pc, mainNext>>
  /\ UNCHANGED <<serverRunning, queueVars, pubVars>>

-----------------------------------------------------------------------------
(* The loops of the threads: while (serverRunning != 0) *)

LoopBody(t) ==
  CASE t = "receive"    -> "read"
    [] t \in Uploads    -> "sleep"
    [] t \in Consumers  -> "pop"

\* Mutant of CheckRunning: the children are not joined.
CheckAndReturn(t) ==
  /\ pc[t] = "check"
  /\ CASE serverRunning # 0 -> Goto(t, LoopBody(t)) /\ UNCHANGED queueVars
       [] serverRunning = 0 -> Return(t)
  /\ UNCHANGED <<serverRunning, failed, mainVars, pubVars>>

CheckRunning(t) ==
  /\ pc[t] = "check"
  /\ CASE serverRunning # 0 -> Goto(t, LoopBody(t)) /\ UNCHANGED queueVars
       [] serverRunning = 0 /\ Children(t) # {} -> Goto(t, "join") /\ UNCHANGED queueVars
       [] serverRunning = 0 /\ Children(t) = {} -> Return(t)
  /\ UNCHANGED <<serverRunning, failed, mainVars, pubVars>>

\* Mutant of JoinChildren: only one of the children is joined.
JoinOneChild(t) ==
  /\ pc[t] = "join"
  /\ \E c \in Children(t) : pc[c] = "done"
  /\ Return(t)
  /\ UNCHANGED <<serverRunning, failed, mainVars, pubVars>>

\* pthread_join of every thread that t created.
JoinChildren(t) ==
  /\ pc[t] = "join"
  /\ \A c \in Children(t) : pc[c] = "done"
  /\ Return(t)
  /\ UNCHANGED <<serverRunning, failed, mainVars, pubVars>>

BeginPublish(t, topics) ==
  /\ todo' = [todo EXCEPT ![t] = topics]
  /\ Goto(t, IF topics = <<>> THEN "check" ELSE "publish")
  /\ UNCHANGED position

(* receiveThread: one datagram of each kind *)

WeatherDatagram ==
  BeginPublish("receive", <<"weatherQueue", "statusQueue", "statusQueue">>)

SensorStatusDatagram ==
  BeginPublish("receive", [i \in 1..SensorReadings |-> "statusQueue"])

\* A text message, an unexpected size, an unknown header or a failed read.
IgnoredDatagram == BeginPublish("receive", <<>>)

\* Mutant of ResetDatagram: the reset is counted in a last status message.
ResetAndTell ==
  /\ serverRunning' = 0
  /\ BeginPublish("receive", <<"statusQueue">>)

ResetDatagram ==
  /\ serverRunning' = 0
  /\ BeginPublish("receive", <<>>)

ReadFrom ==
  /\ pc["receive"] = "read"
  /\ \/ /\ WeatherDatagram \/ SensorStatusDatagram \/ IgnoredDatagram
        /\ UNCHANGED serverRunning
     \/ ResetDatagram
  /\ UNCHANGED <<failed, mainVars, queueVars>>

\* delayUntil is over: an upload thread builds its report and publishes it.
Wake(t) ==
  /\ pc[t] = "sleep"
  /\ BeginPublish(t, Output(t))
  /\ UNCHANGED <<serverRunning, failed, mainVars, queueVars>>

\* Mutant of Pop: the empty queue is not waited for.
PopAnyway(t) ==
  /\ pc[t] = "pop"
  /\ backlog' = [backlog EXCEPT ![t] = @ - 1]
  /\ BeginPublish(t, Output(t))
  /\ UNCHANGED <<serverRunning, failed, mainVars, subscribers, alive, dangling>>

\* popHead, which blocks while the queue is empty; then the loop body.
Pop(t) ==
  /\ pc[t] = "pop"
  /\ backlog[t] > 0
  /\ \/ backlog' = [backlog EXCEPT ![t] = @ - 1]
     \/ backlog[t] = MaxBacklog /\ UNCHANGED backlog
  /\ BeginPublish(t, Output(t))
  /\ UNCHANGED <<serverRunning, failed, mainVars, subscribers, alive, dangling>>

\* Past midnight csvThread reopens its file, and returns if it cannot be opened.
ReopenFails ==
  /\ pc["csv"] = "pop"
  /\ backlog["csv"] > 0
  /\ Fail("open")
  /\ Goto("csv", "done")
  /\ alive' = alive \ {"csv"}
  /\ backlog' = [backlog EXCEPT !["csv"] = @ - 1]
  /\ UNCHANGED <<serverRunning, mainVars, subscribers, dangling, pubVars>>

(* publish: for (i = 0; i < queueList.size(); i++) queueList[i]->pushTail(data) *)

Subscribers(t) == subscribers[Head(todo[t])]

\* Mutant of PushNext: i++ is forgotten.
PushAgain(t) ==
  /\ pc[t] = "publish"
  /\ position[t] <= Len(Subscribers(t))
  /\ LET q == Subscribers(t)[position[t]]
     IN backlog' = [backlog EXCEPT ![q] = MaxBacklog]
  /\ UNCHANGED <<serverRunning, failed, mainVars, pc, subscribers, alive, dangling, pubVars>>

PushNext(t) ==
  /\ pc[t] = "publish"
  /\ position[t] <= Len(Subscribers(t))
  /\ LET q == Subscribers(t)[position[t]]
     IN IF q \in alive
          THEN /\ backlog' = [backlog EXCEPT ![q] = IF @ < MaxBacklog THEN @ + 1 ELSE @]
               /\ UNCHANGED dangling
          ELSE dangling' = dangling \cup {q} /\ UNCHANGED backlog
  /\ position' = [position EXCEPT ![t] = @ + 1]
  /\ UNCHANGED <<serverRunning, failed, mainVars, pc, subscribers, alive, todo>>

EndPublish(t) ==
  /\ pc[t] = "publish"
  /\ position[t] > Len(Subscribers(t))
  /\ todo' = [todo EXCEPT ![t] = Tail(@)]
  /\ position' = [position EXCEPT ![t] = 1]
  /\ Goto(t, IF Len(todo[t]) = 1 THEN "check" ELSE "publish")
  /\ UNCHANGED <<serverRunning, failed, mainVars, queueVars>>

-----------------------------------------------------------------------------
\* The steps of a thread that need no datagram from outside.
Step(t) ==
  \/ CheckRunning(t) \/ JoinChildren(t)
  \/ PushNext(t) \/ EndPublish(t)
  \/ t = "receive" /\ ReceiveStart
  \/ t \in Uploads /\ Wake(t)
  \/ t \in Consumers /\ (Connect(t) \/ Pop(t) \/ UploadSpawn(t))
  \/ t = "csv" /\ (CsvStart \/ CsvSpawn \/ CsvOpen \/ ReopenFails)
  \/ t = "house" /\ (HouseSpawn \/ HouseSetup)

\* The process is over once main() has returned or something has killed it.
ProcessRuns == mainStep \notin {"exit", "crashed"}

Next ==
  /\ ProcessRuns
  /\ Main \/ ReadFrom \/ \E t \in Threads : Step(t)

SafeSpec == Init /\ [][Next]_vars

(***************************************************************************)
(* The scheduler runs every thread that can run, and delayUntil and        *)
(* pthread_join come to an end.  Nothing is assumed of the sensor: a       *)
(* datagram may never arrive.                                              *)
(***************************************************************************)
Fairness ==
  /\ WF_vars(ProcessRuns /\ Main)
  /\ \A t \in Threads : WF_vars(ProcessRuns /\ Step(t))

Spec == SafeSpec /\ Fairness

-----------------------------------------------------------------------------
(***************************************************************************)
(* The threads main() created are created once: the outer loop of main()   *)
(* is entered a second time by no run, because a thread that is joined     *)
(* ends only when serverRunning is 0 and nothing sets it back.             *)
(***************************************************************************)
CreatesOnce == [][mainStep = "loop" => mainStep' # "create"]_vars

(***************************************************************************)
(* Data on the stack of a thread is used by the threads it created: the    *)
(* statistics and the mutex by the upload threads.  A frame outlives the   *)
(* threads that hold pointers into it.                                     *)
(***************************************************************************)
FrameOutlivesUpload ==
  \A t \in {"weather", "status"} \cap Built :
    pc[t] = "done" => \A c \in Children(t) : pc[c] = "done"

(***************************************************************************)
(* Queues that are never pushed to after they were destroyed, whatever     *)
(* fails: the two that receiveThread feeds, since only receiveThread stops *)
(* their owners, and houseQueue, which is no thread's local variable.      *)
(***************************************************************************)
SensorQueuesNeverDangle == {"weather", "status", "house"} \cap dangling = {}

\* csvThread's queue is destroyed only after the two threads that publish to
\* csvQueue have been joined: true unless the CSV file could not be opened.
CsvQueueOutlivesWriters == "csv" \in dangling => "open" \in failed

\* main() returns, and destroys the global queues, after every thread, but for
\* the two that csvThread leaves behind when it gives up its file.
MainOutlivesThreads ==
  mainStep = "exit" =>
    \A t \in Threads :
      pc[t] = "done" \/ ("open" \in failed /\ t \in Children("csv"))

\* A thread that has nothing left to do.
Ended(t) == pc[t] \in {"unborn", "done"}

\* serverRunning is never set back, so after a reset this holds until the end.
Stopping == serverRunning = 0 /\ ProcessRuns

\* The consumers that sleep in popHead on an empty queue.
Asleep == {t \in Consumers : pc[t] = "pop" /\ backlog[t] = 0}

\* A thread that will not run again: it ended, sleeps in popHead, or joins such.
Settled(t) ==
  \/ Ended(t)
  \/ t \in Asleep
  \/ pc[t] = "join" /\ \E c \in Children(t) : c \in Asleep

(***************************************************************************)
(* After a reset the program comes to rest: what is still in flight is     *)
(* published and popped, no thread goes on for ever, and the only threads  *)
(* that stay are blocked in popHead on an empty queue or join one.         *)
(***************************************************************************)
ShutdownSettles == <>[](Stopping => \A t \in Threads : Settled(t))

(***************************************************************************)
(* Queue_Manager has no remove(): "this is not in the use case of the      *)
(* program" (queue_manager.h:58).  So no queue may end before the threads  *)
(* that publish to it.                                                     *)
(***************************************************************************)
NoPushToDestroyedQueue == dangling = {}
=============================================================================
