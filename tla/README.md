# Data manager: TLA+ models, model checking and proofs

The data manager (`src/dataManager`) runs on a small Linux board.  It receives
datagrams of a weather station over UDP, keeps statistics of what the sensors
say, makes a report at every upload interval, writes the reports into CSV files
and multicasts them as "elements" to the other programs of a house.  It is a
set of POSIX threads that hand messages to each other over blocking queues.

This directory holds TLA+ modules of that program, configurations that check
them with TLC, and theorems that the TLA+ proof system (TLAPS) checks.
`PROJECT.json` maps every definition to the lines it models, and lists the
runs, the mutants that each property must catch, the hazards and the findings.

    tlc -workers 2 -config MCDataQueue.cfg MCDataQueue.tla
    tlapm DataManagerProofs.tla

## 1. Inventory of the system

Paths are under `src/dataManager`.

| Component | State it keeps | Operations | What makes it correct |
|---|---|---|---|
| `Data_Queue` (`utilities/data_queue.h`) | a `std::queue`, a mutex, a condition variable | `pushTail`, `popHead`, `peekHead`; `elementCount` prints | FIFO; nothing popped twice; no reader sleeps for ever beside an element |
| `Queue_Manager` (`utilities/queue_manager.h`), the queues of `data/global_queue_list` | a `std::vector` of `Data_Queue` pointers, no mutex | `publish`, `connect`; `remove` is empty | each message once into each connected queue, in its publisher's order; connections are kept |
| `main` and the thread tree (`data_manager.cpp`) | `serverRunning`, the thread handles | create all, join all, in a loop | frames and queues outlive the threads that use them; after a reset everything ends |
| receive thread (`core/receive_thread.cpp`) | the UDP socket | read a datagram, check size and header, publish; a reset message sets `serverRunning` to 0 | every valid datagram gets to its consumer |
| weather thread, weather upload thread (`core/weather_thread.cpp`) | `weatherData`, an array of `Numerical_Statistics`; `uploadMutex` | pop and record; zero the rain at midnight; report, publish, reset | reports are snapshots; each message in one report; the rain is that of the day |
| status thread, status upload thread (`core/status_thread.cpp`) | `statusData`, as above | pop and record; reset everything at midnight, without the mutex; report, publish, reset | mean and maximum agree; each message in one report or gone at a midnight; nothing of the day before stays in the array |
| `Numerical_Statistics` (`utilities/numerical_statistics.cpp`) | mean, squared deviation, count, extremes, stored value | `includeValue`, `storeValue`, `reset`, getters | the getters agree with the values since the last reset |
| wind direction (functions of `core/weather_thread.cpp`) | the mean of corrected directions | correct, include, bring back into 0..359 | a steady wind is reported as it is; north is not averaged to south |
| CSV threads (`file/csv_interface.cpp`) | the open file, `outputQueue` | format rows, write, reopen after midnight | a queue outlives its writers; each row once, in a file of its day |
| house threads (`house/house_interface.cpp`) | the multicast socket, `houseQueue` | serialise reports, send | a datagram has all elements of its report |
| `Serialize`, `Element_Type` (`house/serialize.h`, `house/element.h`) | an array of elements, a table of their places by kind | set, get, to and from bytes | a map with room for so many kinds; bytes keep it |
| `UDP_Interface`, `Multicast_Interface`, TCP and HTTP clients | sockets | open, read, send | errors are told to the caller |
| clock and midnight (`utilities/system_utilities.cpp`) | the day of the last call of each object; the one `struct tm` of `localtime()` | `delayUntil`, `crossedMidnight`, date strings | no more reports than intervals; each midnight noticed once |
| properties (`utilities/property_reader.cpp`, `data/global_properties.cpp`) | a table read once at start | `get` | - |

How they interact:

    UDP -> receive -+-> weatherQueue -> weather ..(shared array, mutex).. weatherUpload
                    |                                      |
                    |                       reportWeatherQueue -+-> csvWeather -> csvQueue -> csv -> file
                    |                                           +-> houseWeather -> houseQueue -> house -> multicast
                    +-> statusQueue -> status ..(shared array, mutex).. statusUpload
                                                           |
                                            reportStatusQueue ---> csvStatus -> csvQueue

Each arrow into a consumer is a `Queue_Manager` to which the consumer connects
a `Data_Queue` that is a local variable of its thread function (`houseQueue` is
one static `Data_Queue`).  A parent thread hands pointers to its stack to the
threads it creates and joins them before it returns.  All loops test the
`volatile int serverRunning`, which starts as 1 and is set to 0 by a reset
message or by a UDP socket that cannot be opened.

The behaviours that are hard to test: the order in which threads start, connect
and publish; shutdown, when each thread sees `serverRunning` at another moment
and some never do because they sleep in `popHead`; the two threads that read
and reset an array field by field; midnight, which one of them notices late and
handles outside the mutex; `localtime()`, whose result all threads share; a
clock that is set while reports are scheduled by it; vectors that are appended to while others walk them;
files and sockets that do not open halfway through the start.  The list, with
lines, is under "hazards" in `PROJECT.json`.

## 2. Modules

Bottom up.  Upper modules use the abstract view of what is below them.

| Module | Models | Abstract specification |
|---|---|---|
| `FifoChannel` | what a queue promises: send at the tail, receive at the head, no element stays for ever | - |
| `DataQueue` | `Data_Queue`: mutex, condition variable, spurious wake-ups, the `notify_one` made after the mutex is released | implements `FifoChannel` |
| `Broadcast` | what a queue manager promises: a published message goes once to every connected queue | - |
| `QueueManager` | `publish` and `connect` on an unsynchronised vector | implements `Broadcast` |
| `NumericalStatistics` | the class, with exact fractions | - (compared with the definitions of mean, sum of squares, extremes) |
| `WindDirection` | who puts values into such an object, and the correction of directions | - |
| `WeatherThread` | both weather threads and the array they share | - |
| `StatusThread` | both status threads and the array they share, midnight | - |
| `UploadSchedule` | the loop of an upload thread and the clock it follows | - |
| `ElementMap` | what a `Serialize` object promises: a map with room for so many kinds | - |
| `Serialize` | the operators of the class: new, set, get, to and from bytes | - |
| `SerializeExchange` | a program that sets elements and sends bytes, a listener that reads them | implements `ElementMap` |
| `OutputThreads` | csv and house threads: where reports go; composes with `Serialize` | - |
| `DataManager` | all threads from `main()` to the last join | - |
| `DataQueueProofs`, `QueueManagerProofs`, `DataManagerProofs`, `WeatherThreadProofs`, `StatusThreadProofs` | theorems on the module of that name | |
| `ReportProofs` | theorems on `UploadSchedule`, `NumericalStatistics` and `WindDirection`: when a report is made and what its numbers say | |
| `SerializeProofs` | theorems on `SerializeExchange` and `OutputThreads`: what becomes of a report | |
| `SumLemmas` | lemmas on sums over finite sets, which the above rest on | |

`MC*.tla` with the `.cfg` files instantiate them.

**DataQueue.**  `queueList`, `queueMutex` and a program counter for each
thread.  An operation is split where another thread may get between: taking the
mutex (`Lock`), the body up to the release (`Push`, `PopFront`, `WaitEmpty`), and `NotifyOne`,
which wakes one waiting thread if there is any.
`SpuriousWake` is what the C++ standard permits `wait` to do.  No thread calls
`peekHead`, which is left out.

**QueueManager.**  The vector is three pointers (`start`, `finish`, `limit`)
into storage blocks, each set by a step of its own, in the order of libstdc++'s
`push_back` and `_M_realloc_insert`: growing copies into a block of twice the
size, frees the old one, then stores the three pointers.  A `publish` that runs
meanwhile may compare pointers into different blocks (then `size()` is any
number) or read freed or unwritten memory: `wild` becomes TRUE and the
behaviour ends, since what follows is undefined.  Calls come in every order.
`overlaps` counts those that got in each other's way: two connects, or a
`publish` and a `connect` that has to grow the vector.

**DataManager.**  `pc[t]` says where each thread stands, from "unborn" to
"done".  A `Data_Queue` is a number of elements (`backlog`), and `alive` says
whether the object on its owner's stack still exists; a push to one that does
not adds it to `dangling`.  `PushNext` is one turn of the loop in `publish`.
`failed` records the failures that happened: the UDP socket ("udp"), the CSV
file at start or after midnight ("open"), the multicast socket, whose exception
nothing catches and which ends the process ("multicast").  `main()` joins
`threads[MonitorThread]`, a handle that no `pthread_create` has set:
`MainJoinMonitor` allows a join that fails, one that never returns and a crash.
`monitor()` itself is never started and not modelled.

**WeatherThread.**  A sampled cell of the array is represented by two sequences of
message numbers: those its maximum and count are of (`included`), and those its
mean is of (`averaged`), because `reset()` clears the first and keeps the second
until the next value replaces it.  Recording, reporting and resetting
take one step per field, in the code's order, under `uploadMutex`; `ZeroRainfall`
is the one write outside it.  `ReadClock` and `CrossedMidnight` are the two parts
of `crossedMidnight()`: the day that is compared and the day that is copied are
read from the struct tm that all threads share, so each may be another day than
the one this thread has read (`raced`); a midnight can be missed or seen twice.
Ten of the array's fields are four here, since
the code treats humidity, pressure and temperature alike, and the light values.
`timesReported`, `priorReport`, `midnights`, `checkedOn`, `raced` and the fields
`midnights` and `upto` of a report are history.

**NumericalStatistics, WindDirection.**  A mean is an integer number of 1/Scale,
with Scale divisible by every window length, so that every division of the code
is exact.  Rounding of `double` is not modelled.  Values stay between -1e8 and
1e8, the numbers with which `reset()` marks empty extremes.  The loops of `windDirection()`
that add or subtract 360 are `%` of a full turn.  `WindDirection` has the
next-state relation for both: an object is fed plain values or directions.

**StatusThread.**  A cell has two representations, as in `WeatherThread`: the
messages its maximum is of and those its mean is of.  Recording is one step (only
`statusThread` is inside then); the getters of a report, the resets after it and
those of midnight are one step per field, and `MidnightReset` does not look at the
mutex.  `ReadClock` and `CrossedMidnight` are as in `WeatherThread`.  `AsUnsigned`
is what becomes of an uptime that does not fit `int32_t`.

**UploadSchedule.**  `lag` is the clock minus the schedule, `left` what
`nanosleep` has still to sleep.  `Tick` moves both; `SetClock` moves only the
clock, as setting `CLOCK_REALTIME` does.  `Report` advances the schedule by one
interval, whatever the clock says.

**Serialize, SerializeExchange.**  An object is a record of the array, the
table of places and the next free place; a place beyond the array is given out
all the same.  Only the array is sent.  The listener's constructor is one step
per element, so that what it has half way is a state.  An empty place has the
kind `ElementKind__Count`, one beyond the table; in the build the word there
is `nextFreeElement`, so it is skipped.

**OutputThreads.**  Reports are the days on which they were made.  Taking a
report and publishing its row or object is one step of its thread: nothing
else touches either until it is in the queue.  An object is built by a recursive
function over the elements of a weather report, as `serializeWeatherData` sets
them.  Only `csvThread` has a program counter: between its pop, its look at the day, the new file and the write the
day may change.  Each `fopen` may fail, after which the thread is gone.

## 3. Runs

| Run | Checks | Bounds |
|---|---|---|
| `queue` | `TypeOK`, `NoStrandedElement`; `ImplementsChannel` (safety and liveness of `FifoChannel`) | two pushers, two poppers, length 3: two of each suffice for a wake-up meant for one thread to be taken by another, and for a notification to find nobody |
| `threads` | `TypeOK`, `SensorQueuesNeverDangle`, `FrameOutlivesUpload`, `CreatesOnce` | weather, status and house branches; UDP or multicast socket fails |
| `threads_csv` | `CsvQueueOutlivesWriters`, `MainOutlivesThreads`, `ShutdownSettles` | status and CSV branches with both writers; UDP or CSV file fails |
| `threads_dangling_queue` | `NoPushToDestroyedQueue` is violated | weather branch, csvWeather, no failure |
| `weather` | `MutexOwner`, `ReportIsSnapshot`, `CountedOnce`, `GustDirection`, `RainfallAddsUp`, `RainfallOfToday`, `EveryMessageReported` | two messages, two wind speeds (one calm), two days: a message in each of two reports or both in one, a window with none, a gust that is weaker, equal or stronger, a midnight anywhere |
| `weather_rain` | `RainfallIsInchesToday` is violated | one message, on the second day |
| `status` | `MeanAndMaxAgree`, `CountedOnce`, `StaleMeanIsMarked`, `WindowWithinDay`, `UptimeNeverBack`, `EveryMessageAccounted` | two messages of any kind, two days: both in one window or on both sides of a reset or a midnight; the second uptime out of the range of `int32_t` |
| `broadcast` | `WildOnlyByOverlap`, `ImplementsBroadcast`, `EveryQueueIsServed` | four queues (capacity 0, 1, 2, 4, then one with room), two publishers with a message each, calls in any order, one overlap (`MaxOverlaps`): it is enough to read freed storage and to lose a queue |
| `statistics` | `MeanOfWindow`, `SquaresOfWindow`, `ExtremesOfWindow`, `SteadyWind` | windows of up to four values of {-2, 0, 1, 5} or of seven directions on both sides of north and opposite, after any number of resets |
| `serialize` | `ReceivedAsSent`, `ImplementsElementMap` | room for three of four kinds, two values: kinds in any order, again, and one too many |
| `outputs` | `TypeOK`, `EachRowOnce`, `FileOfTheDay`, `DatagramsComplete`, `EveryReportOut` | two weather reports and a status report, a midnight anywhere, each file may fail; all nine elements of a weather report |
| `schedule` | `NeverAhead`, `KeepsReporting` | an interval of three ticks, steps of the clock up to two intervals forward or back, six back in all |

Deadlock is not checked where the program really stops: after a reset, after
`main()` has returned, or when all messages a bound allows are used up.

Bounds.  `DataManager` is checked in slices (`Built`): all ten threads at once
have too many states, and a branch influences another only through
`serverRunning`, the queues they share and the joins of `main()`; each slice
keeps `main()` and receive, and together they have every thread.
`MaxBacklog` saturates: at the bound a push leaves the number and a pop may
leave it, so that "at least one" stands for any number; no property counts
elements.  `MaxMessages`, `MaxDay`, `MaxLength`, `MaxCount` cap counters in
the guards of the actions that would pass them; `MaxLag` and `MaxBack` do so
for the clock, where only the distance of clock and schedule is kept, so that
the states repeat and the run covers any length of time.

Types.  `TypeOK` is checked in `queue`, `threads` and `outputs`, and proved
(section 4) of these and of the other modules, but for `QueueManager` and
`WindDirection`, where the types are parts of `VectorInv` and `FieldInv`.

Fairness.  Weak fairness of every thread's step: the Linux scheduler runs a
thread that can run, and `delayUntil` returns.  Nothing is owed from outside: no
datagram, reset, midnight or failure has to come.  `DataQueue` and
`WeatherThread` assume strong fairness of taking a mutex: each owner gives it
back after a bounded computation and then sleeps for a message or an interval,
so a thread that wants it meets it free again and again; `StatusThread` does so
for the same reason.  `UploadSchedule` assumes that time goes on and that the
thread runs, `QueueManager` that a thread goes on with its `connect` or
`publish`, and `OutputThreads` weak fairness of each of its threads.

### What the runs show

*Queues.*  `Data_Queue` is a FIFO channel although `notify_one` comes after the
unlock: however pushes, pops and wake-ups interleave, no `popHead` stays asleep
on an element that nobody else comes for.

*Shutdown.*  After a reset every upload thread and receive end.  A consumer
that is in `popHead` at that moment is never woken, so it, its parent and
`main()` stay: `ShutdownSettles` says that this is the only way to stay.  Hence
`main()`'s outer loop is never entered again (`CreatesOnce`), and "reset" stops
the program rather than restarting it.

*Queues of threads that ended.*  Nothing disconnects a queue.  The queues that
receive feeds are safe, because receive is the thread that stops their owners
(`SensorQueuesNeverDangle`).  The report queues are not: an upload thread that
was asleep when the reset came makes one more report and pushes it to queues
that may be gone (`threads_dangling_queue`).  `csvThread`'s queue is safe while
its file opens: otherwise the thread returns without joining its writers.

*Weather.*  The mutex does what it is for: windows neither overlap nor leave
gaps, and a report is of one state of the array.  An empty window is reported
with the means of the window before, which `reset()` keeps, beside a maximum of
-100000000: `ReportIsSnapshot` says that these are the means of the last report.

The rain is another matter.  The first message after midnight is added before
the sum is zeroed, so its rain is lost, and until then reports carry the rain of
yesterday.  `RainfallOfToday` says that a report has exactly the rain of the day
of the last message that midnight was looked at for, less that of its first
message; the "inches today" of `element.h:44` would be all of it, and
`weather_rain` has the report that differs.  `RainfallOfToday` excepts an
overwritten struct tm, which zeroes the sum at any time or not at all;
`RainfallAddsUp` does not, since it counts the zeroings.  `storedValue` is
initialised nowhere, so on the first day the rain is off by whatever the memory
held: `RainfallOfToday` begins after the first midnight, and `RainfallAddsUp`
speaks of differences.

*Status.*  The unlocked reset of midnight can meet a report half made, or the
reset after it.  The order of reading keeps this harmless: mean and maximum of
a report are of the same messages, or the maximum is that of an empty window
(-100000000), which marks a mean of old messages.  No message is counted twice,
and what no report has was there at a midnight.  The resets of midnight leave
nothing of the day before in the array (`WindowWithinDay`), except when another
thread's `localtime()` came between the uses of the shared struct tm: then a
midnight is missed or seen twice.  The property leaves out the message that is
recorded and not yet looked at midnight for, because the mutex is free between
the two: an upload at that moment makes a report with messages of both days.  A
stored uptime survives all resets; from 2^31 ms on it need not, as its
conversion to `u_int32` has no defined value.

*Schedule.*  Reports never outnumber intervals, but for what the clock was set
back; a clock set forward by n intervals brings n reports at once, each but the
first with an empty window, and one set back brings none until it has caught
up.  Either way reporting goes on.  The `intervalTime` of a report is the time
since the last one was due, while `weather_thread.cpp:158` calls it the
"duration since last weather report": in such a burst the one is some intervals
long and the other is nothing.  No property is about it.

*Outputs.*  Each row gets into a file once and in order.  When a file does not
open after midnight, the row in hand and all rows still queued get into none;
house goes on.  Rows are in the file of their day or of a later one (midnight
is noticed by the first row after it), except over a misread struct tm or a
midnight between the first `fopen` and the constructor of
`Detection_Functions`, which is never noticed.

*Serialize.*  An object is the bounded map it is meant to be, and a listener
that numbers the array from scratch gets what was sent: a kind for which there
was no room is missing at both ends.

*Queue manager.*  The vector has no mutex, and `weatherQueue`, `statusQueue` and
the report queues are connected while others may publish.  `broadcast` runs these
overlaps and reaches what they do: `publish` reads freed or unwritten storage,
and of two connections made at once one is lost.  What the properties say is how
far the damage goes.  It takes two connects at a time, or a publish during a
connect that has to grow the vector (`WildOnlyByOverlap`); a connect that finds
room disturbs nobody.  Up to the first such overlap the vector is a broadcast
(`ImplementsBroadcast`), and a queue connected before `publish` has returned gets
the message, too (`EveryQueueIsServed`).  `csvQueue` has one subscriber, connected
before its publishers exist; nothing orders the calls of the other queues.

*Statistics.*  The mean, the sum of squares and the extremes are those of the
window.  `getStdev()` divides the sum of squares by the count and returns that:
it is a variance, although its comment (`numerical_statistics.cpp:51`), the field
`windSpeedStdev` and the CSV column "Wind Speed (stdev)" (`csv_interface.cpp:37`)
say standard deviation.

*Wind.*  A steady wind is reported as it is, whatever mean was carried over.
A direction is corrected against
the running mean, which is kept over a reset and may itself be a turn down: 10
and 350 degrees after a southerly window are reported as 180.

*Seen while reading*, and no matter of states: the `Duration` element of a
weather datagram is `millis() - micros()` (`house_interface.cpp:100`); the
status CSV header has a battery voltage that no row fills
(`csv_interface.cpp:56`); rain is divided by 1000 (`weather_thread.cpp:142`)
although its unit is 0.01 inch (`weather_data_type.h:58`).

## 4. Proofs

The theorems hold for every value of the constants that satisfies the named
assumptions.  Runs of the same properties are the check on small instances.

*DataQueueProofs*, from `ThreadsAssumption` (the thread sets are finite and
disjoint): `TypeCorrect`; `MutualExclusion`; `QueueKeepsOrder`, by showing that
`Push` is a `Send`, `PopFront` a `Receive` and all else a stutter of
`FifoChannel`; `NoWakeupLost`.  The last
rests on `NoStrandedElement`, which is inductive together with the types: if a
reader waits, there are at least as many readers awake and notifications to
come as elements.  A push adds an element and a notification; a notification
turns into an awake reader; an awake reader leaves with an element.  Its lemma
`StrandsNothing` has one step for each action, and rests on two on
cardinalities.

*DataManagerProofs*, from `BuiltAssumption` (any choice of branches of the
thread tree in which a child is built in only with its parent) and
`BoundsAssumption`: what the two slices of the runs show separately, here for
all ten threads at once.  The types (`TypeCorrect`) need `Publishing`: a thread
inside `publish` has a topic, or `Head(todo)` would be nothing.  The inductive
invariant `LifeInv` adds three parts, which need each other:

- `Order`: the threads `main()` has still to create are unborn, those it has
  joined are done.  It makes each `pthread_create` meet an unborn thread.
- `Stops`: `receiveThread` publishes only while `serverRunning` is 1, and a
  thread other than `csvThread` that ends has seen it at 0.  With `Order` it
  gives `CreatesOnce`: when `main()` reaches its loop again receive is done.
- `Families`: a child is unborn until its parent has created it, and done when
  its parent is, unless `csvThread` gave up its file.  This is
  `FrameOutlivesUpload`, and with `Order` it is `MainOutlivesThreads`.

The many actions are first brought down to three kinds of step (`OwnStep`,
`SpawnStep`, `CrashStep`, lemma `KindOfStep`), and the invariant is shown for
each kind and for `main()`.  For the queues `DangleInv` adds `Writers` (what a
thread still has to publish are topics it feeds) and `Attached` (a subscribed
queue exists or its owner is done): a push to the queue of weather or status
comes from receive, so the server runs, so the owner is not done
(`SensorQueuesNeverDangle`); a push to that of csv comes from a child of csv,
which is not done, so csv is not done unless the file failed
(`CsvQueueOutlivesWriters`).

*WeatherThreadProofs*, from `ConstantsAssumption`: `TypeAndMutex`, which
contains `MutexOwner`, for any number of messages and days; and
`ReportsAreSnapshots`.  `ReportIsSnapshot` is not inductive: `Snapshot` says how
far each pass through the fields has come, in the order of its own array of
fields (`Recording`: the fields already visited have one message more;
`Populating`: they are in the report; `Resetting`: they are empty), and that the
fields agree when nobody owns the mutex (`OneWindow`).  `MeansKept` says what
`reset()` keeps: a mean is of the window, or that of the last report if the
window is empty.  `MessagesCountedOnce` adds `InOrder`
(the messages popped are 1, 2, ... up to the one in hand, since the queue is
first in, first out) and `Tally`: a recorded message is in the window or
reported, one that is not recorded is not reported, and while the window is
being emptied all of it is reported.  `GustDirectionIsRight` rests on `Gust`:
the direction stored is that of the messages judged, and between the field of
the wind speed and that of the direction the message in hand is newer than
these (`InOrder`) and `newMax` tells whether it is faster.

The two theorems on rain are about sums over the messages of a window.
`RainfallIsAddedUp` rests on `RainInv`: what the array holds is what the last
report told and what rained since (`StoredSince`); a report half made has read
just that (`ReadSince`); the last one told it (`ReportedSince`); each of these as
long as no midnight came between, which is known from the number of midnights
that a report carries, since that number never falls (`MidnightsInOrder`).
`RainfallIsOfToday` rests on `DayInv`, which follows the day's rain on the same
way.  Messages count up to the last one that midnight was looked at for
(`Through`); while no struct tm was overwritten their days go up, and the day
before the next one is `previous_tm` (`DaysInOrder`).  The rain in the array, in
the report half made and in the last report is then that of the messages of the
last day but its first (`StoredToday`, `ReadToday`, `ReportedToday`); when the
rainfall is zeroed, the message in hand is the first of its day.

*StatusThreadProofs*, from `ConstantsAssumption` (any number of messages and
days): `TypeCorrect`, `WindowsWithinDays`, `MeansAndMaximaAgree`,
`StaleMeansAreMarked` and `MessagesCountedOnce`.  `Dated` says what is known of
the day of each message but the one in hand, while `statusThread` is between
recording it and midnight's last reset, for as long as the struct tm was its own.  The other
three need each other: `Window` (a window is what the mean is of, or empty, and
its messages are unreported until the report is out), `Ledger` (a recorded
message is in the window, reported or forgotten) and `Making` (the report half
made: the window it has read can since only have been cleared by midnight,
because recording needs the mutex).  `UptimesGoForward` has a hypothesis, that
what the memory held at the start is not an uptime of the station
(`Unset \cap Numbers = {}`): `storedValue` is never initialised, and a number in
memory that is by chance a later uptime would be reported, and then go back.
Its invariant `Uptimes` follows an uptime from the message to the array, to the
report half made and to the last report; no reset touches it on the way.

*ReportProofs.*  Of the upload loop, from `ConstantsAssumption` (a positive
interval, any integer steps): `TypeCorrect` and `ReportsNeverAhead`.  They need
`Sleeping`: while the thread sleeps, what is
left of the sleep brings the clock to the next time of the schedule, but for
what it was set back meanwhile.

Of the statistics, for windows of any values and any length: `MeanIsOfWindow`,
`SquaresAreOfWindow` and `ExtremesAreOfWindow`; and `SteadyWindReported`.  The
assumptions are `ScaleAssumption` (`Scale` is divisible by every window length
up to `MaxCount`: the fractions are exact), `ExtremesAssumption` (values lie
between -1e8 and 1e8, as wind speeds do, which are an unsigned word of 1/100 mph;
a greater value, which a light or a status sensor could send, would leave the
minimum at 1e8, but no report has a minimum) and `DegreesAssumption` (directions are 0..359).  `StatsInv`
is the invariant of the running quantities: the mean times the count is the sum
(`Averaged`), the squared deviation is the sum of the squares less the count
times the mean squared (`Deviating`), the extremes are reached and not passed
(`Extreme`).  `MeanFollows` and `DeviationsFollow` are the two facts of algebra
behind one `includeValue`.  After `reset()` the mean is that of the window
before; with a count of zero it is not bound to anything, and the first value
replaces it.  `FieldInv` adds `Steady`: under a steady wind the mean is its
direction or a full turn below it, so each further correction gives the mean
again (`MeanStays`).

*SerializeProofs.*  Of `SerializeExchange`, from `ConstantsAssumption` (any
room; the kind and the payload of an empty place are not those of an element):
`TypeCorrect`, `ReceivesWhatWasSent` and `IsBoundedMap`.  `Consistent` ties the
array of an object to its table: the places given out hold an element of the
kind whose number they are (`Placed`), the others are new (`Vacant`), and each
number in the table was given out and leads to its kind (`Tabled`).  With it the
step `WithElement` is a `Put` of `ElementMap` or nothing (`PutOrNothing`).
`Loading` says that the listener has, so far, given out the sender's own numbers:
both count kinds in the order of the array.

Of `OutputThreads`, for any number of reports and days:

- `FilesAreOfTheDay`.  `UpToDate` ties the three days together that `csvThread`
  handles: the open file is of the day it last looked at or later, and a row on
  its way to a file of that day or earlier; `NothingFromTomorrow` that neither
  reports nor rows are dated after today.
- `OutputTypes`, from `OutputAssumption` (an object has room for the elements of
  a weather report, as in the program).  That csvThread has a file and a row
  where it uses them is part of `CsvInv`.
- `EachReportSentWhole`.  `EachSentOnce` says that the datagrams, and after them
  the objects that wait, are those of the reports taken, in order.  What is in
  an object is shown by induction over its elements (`WeatherObjectData`), and
  what a listener reads by induction over the bytes (`FromBytesResult`), with
  the lemmas on `Serialize` above.
- `RowsKeptOnceInOrder`.  The files, the row in hand and the queue are one
  sequence of pages; publishing, popping and writing move a row to the next
  page, or put it behind all others (`PublishRowRows`, `PopRowRows`,
  `WriteRowRows`).  `EachRowOnce` is not inductive: that a pop overwrites no row
  needs `EmptyHand`.

*QueueManagerProofs*, from `ConstantsAssumption` (any sets of publishers and
queues, any number of messages and overlaps): `WildAccessNeedsOverlap` and
`VectorIsBroadcast`.  Nothing is assumed of the order of the calls; the invariant
`SoundBefore` is that `VectorInv` holds as long as `overlaps` is 0.  `VectorInv`
says what the three pointers are worth: unless the vector is growing they agree,
and the cells below `finish` are the connected queues, each once (`Vector`,
`Filled`); in each step of `connect` the old vector is still whole, or the new
block already is (`HalfConnected`, `Grown`).  At most one thread connects
(`OneConnects`), none is inside `publish` while the vector grows (`GrowsAlone`),
and one that is inside has not passed the end, nor lost the block it has read,
when a connect finds room meanwhile (`Loading`).  The reading of a cell then
finds a queue (`CellFound`), a push is a `Deliver`, the end of the loop, which
leaves nothing owed, a `Finish` (`TestIsFinish`), and the step in which `finish`
passes the new element a `Connect` to all who are inside `publish`.  After an
overlap nothing is claimed.

*SumLemmas.*  `SumFunctionOnSet` of the community modules is recursive, and the
order in which it takes the elements is a `CHOOSE`.  The lemmas say that this
order makes no difference, and what one more element adds.  The induction
theorems of the library take an operator as a parameter, which the provers
cannot instantiate; here, and in `SerializeProofs`, an induction is an argument
on the set of numbers for which the statement holds (`NatSetInduction`, from
the well-foundedness of the naturals).

Every safety property that a passing run checks is also a theorem.  Only
model-checked are the liveness properties, `EveryMessageReported`,
`EveryMessageAccounted`, `EveryReportOut`, `EveryQueueIsServed`, `KeepsReporting`,
`ShutdownSettles` and the fair part of `ImplementsChannel`: they need fairness and
ENABLED, which are not within the prover's reach.

## 5. Not modelled

- `UDP_Interface`, `Multicast_Interface`: socket calls; that a socket does not
  open, and that a read blocks, is in `DataManager`.
- TCP and HTTP clients: compiled, not used by any thread.
- Properties: text that is read once at start.
- `Data_Queue::peekHead`: called by no thread.
- The text of rows, file headers, descriptions of elements and log messages.
- Units and floating point: sensor integers are scaled by constants; the model
  has no magnitudes of `double`, hence not the endless loop of
  `windDirection()` on a stored value that is too large for 360 to change it.
- Days come once: `crossedMidnight()` compares the day of the month, so a month
  without a message would hide a midnight.
- `receiveThread`'s own timing statistics: for debug output only.
- `monitor()`: never started.
- Compiler effects on the plain `volatile int serverRunning`: it is read and
  written atomically in the model, as it is on the target.  Thread functions
  that end without `return` are taken to return, as the compiler of that time
  builds them.

## 6. Plan

Done: the modules of section 2, the most used component first, then the thread
tree, which all others depend on, then what the threads compute, and last what
becomes of reports.

The safety properties of all modules are proved.

Left, in this order:

1. A calendar in `StatusThread`, `WeatherThread` and `OutputThreads` in which days
   of the month come again.
2. Magnitudes and rounding of `double` in `NumericalStatistics`, as far as an
   integer model can bound them.
