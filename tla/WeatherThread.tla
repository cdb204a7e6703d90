--------------------------- MODULE WeatherThread ---------------------------
(***************************************************************************)
(* core/weather_thread.cpp: weatherThread records each weather message     *)
(* into the array weatherData of Numerical_Statistics, one per field, and  *)
(* zeroes the rainfall at midnight; weatherUploadThread makes a report of  *)
(* the array at every interval, publishes it and resets the array.  Both   *)
(* work on the array one field at a time, under uploadMutex, except for    *)
(* the rainfall at midnight.                                               *)
(*                                                                         *)
(* A field is represented by sequences of messages: those included since   *)
(* its last reset, which its count, maximum and deviation are of, and      *)
(* those its mean is of, which reset() keeps.  A message is named by its   *)
(* number, which also serves as its wind direction.                        *)
(*                                                                         *)
(* weatherThread learns of midnight from crossedMidnight(), which works on *)
(* the one struct tm that localtime() returns to all threads, so that      *)
(* another thread may overwrite it meanwhile.                              *)
(***************************************************************************)
EXTENDS Integers, Sequences, FiniteSetsExt, Functions

CONSTANTS
  MaxMessages,  \* bound on the weather messages that arrive
  MaxDay,       \* bound on the days that begin
  Speeds,       \* wind speeds a message may carry
  Rains,        \* rainfall a message may carry: what fell since the last one
  Unset,        \* what the memory of weatherData may hold when it is created
  None          \* the owner of a free mutex; no report; no direction

ASSUME ConstantsAssumption ==
  /\ MaxMessages \in Nat
  /\ MaxDay \in Nat
  /\ Speeds \subseteq Nat
  /\ Rains \subseteq Nat
  /\ Unset \subseteq Int /\ Unset # {}
  /\ None \notin Nat
  /\ None \notin {"weather", "upload"}

(***************************************************************************)
(* The fields of weatherData.  Humidity stands also for Pressure and       *)
(* Temperature, and Light for IrLight, UvLight and WhiteLight: the code    *)
(* treats each of them alike.  The report is made of the statistics of the *)
(* sampled fields, but only of the storedValue of the other two.           *)
(***************************************************************************)
Sampled == {"Humidity", "WindSpeed", "Light", "WindDirection"}
Stored  == {"Rainfall", "WindDirectionAtMaxSpeed"}
Fields  == Sampled \cup Stored

\* The orders in which the fields are recorded, read and reset.
RecordOrder   == <<"Humidity", "WindSpeed", "Rainfall", "Light", "WindDirection",
                   "WindDirectionAtMaxSpeed">>
PopulateOrder == <<"Humidity", "Rainfall", "WindDirection", "WindSpeed", "Light",
                   "WindDirectionAtMaxSpeed">>
ResetOrder    == <<"Humidity", "WindDirection", "WindDirectionAtMaxSpeed",
                   "WindSpeed", "Rainfall", "Light">>
Last == 6

Numbers  == 1..MaxMessages
Days     == 0..MaxDay
Messages == [speed : Speeds, rain : Rains]

VARIABLES
  serverRunning,
  today,         \* the day of the wall clock
  sensed,        \* the messages that have arrived, in order
  weatherQueue,  \* the numbers of those that weatherThread has still to pop
  uploadMutex,   \* "weather", "upload" or None
  weatherPc, weatherField, sensorData,  \* weatherThread
  rawDay, previousDay,                  \* rawtime and previous_tm of crossedMidnight()
  uploadPc, uploadField, report,        \* weatherUploadThread
  included,      \* the messages in each sampled field of weatherData since its reset
  averaged,      \* the messages its mean is of
  newMax,        \* newMax of WindSpeed
  stored,        \* storedValue of each stored field
  lastReport,    \* the last report that was published
  priorReport,   \* the one before
  timesReported, \* the number of reports each message has been part of
  midnights,     \* the number of times the rainfall was zeroed
  checkedOn,     \* the day on which midnight was checked after each message
  raced          \* another thread wrote the struct tm while weatherThread used it

weatherVars == <<weatherPc, weatherField, sensorData, rawDay, previousDay>>
uploadVars  == <<uploadPc, uploadField, report>>
dataVars    == <<included, averaged, newMax, stored>>
aroundVars  == <<today, sensed>>
reportVars  == <<lastReport, priorReport, timesReported>>
dayVars     == <<midnights, checkedOn, raced>>
vars == <<serverRunning, aroundVars, weatherQueue, uploadMutex, weatherVars,
          uploadVars, dataVars, reportVars, dayVars>>

Reports == [mean      : [Sampled -> Seq(Numbers)],
            max       : Seq(Numbers),  \* of WindSpeed; its deviation is of the same
            stored    : [Stored -> Int],
            midnights : Nat,   \* midnights when the rainfall was read
            upto      : Nat]   \* Settled when the rainfall was read

TypeOK ==
  /\ serverRunning \in {0, 1}
  /\ today \in Days
  /\ sensed \in Seq(Messages)
  /\ weatherQueue \in Seq(Numbers)
  /\ uploadMutex \in {"weather", "upload", None}
  /\ weatherPc \in {"check", "pop", "lock", "record", "clock", "midnight",
                    "zero", "join", "done"}
  /\ weatherField \in 1..Last
  /\ sensorData \in Numbers \cup {None}
  /\ rawDay \in Days /\ previousDay \in Days
  /\ uploadPc \in {"check", "sleep", "lock", "populate", "reset", "done"}
  /\ uploadField \in 1..Last
  /\ {report, lastReport, priorReport} \subseteq Reports
  /\ included \in [Sampled -> Seq(Numbers)] /\ averaged \in [Sampled -> Seq(Numbers)]
  /\ newMax \in BOOLEAN
  /\ stored \in [Stored -> Int]
  /\ timesReported \in [Numbers -> Nat]
  /\ midnights \in Nat
  /\ checkedOn \in [Numbers -> Days] /\ raced \in BOOLEAN

Empty == [f \in Sampled |-> <<>>]

NoReport == [mean |-> Empty, max |-> <<>>, stored |-> [f \in Stored |-> 0],
             midnights |-> 0, upto |-> 0]

\* Both threads are about to enter their loops.  The constructor of
\* Numerical_Statistics leaves storedValue as the memory was; that of
\* Detection_Functions has called crossedMidnight() once.
Init ==
  /\ serverRunning = 1
  /\ today = 0 /\ sensed = <<>>
  /\ weatherQueue = <<>>
  /\ uploadMutex = None
  /\ weatherPc = "check" /\ weatherField = 1 /\ sensorData = None
  /\ rawDay = 0 /\ previousDay = 0
  /\ uploadPc = "check" /\ uploadField = 1 /\ report = NoReport
  /\ included = Empty /\ averaged = Empty /\ newMax = FALSE
  /\ stored \in [Stored -> Unset]
  /\ lastReport = NoReport /\ priorReport = NoReport
  /\ timesReported = [i \in Numbers |-> 0]
  /\ midnights = 0 /\ checkedOn = [i \in Numbers |-> 0] /\ raced = FALSE

-----------------------------------------------------------------------------
(* Around the two threads *)

\* receiveThread pushes a weather message.
Arrive ==
  /\ serverRunning = 1
  /\ Len(sensed) < MaxMessages
  /\ \E s \in Speeds, r \in Rains :
       sensed' = Append(sensed, [speed |-> s, rain |-> r])
  /\ weatherQueue' = Append(weatherQueue, Len(sensed) + 1)
  /\ UNCHANGED <<serverRunning, today, uploadMutex, weatherVars, uploadVars,
                 dataVars, reportVars, dayVars>>

\* receiveThread obeys a reset message.
Reset ==
  /\ serverRunning = 1
  /\ serverRunning' = 0
  /\ UNCHANGED <<aroundVars, weatherQueue, uploadMutex, weatherVars, uploadVars,
                 dataVars, reportVars, dayVars>>

NewDay ==
  /\ today < MaxDay
  /\ today' = today + 1
  /\ UNCHANGED <<serverRunning, sensed, weatherQueue, uploadMutex, weatherVars,
                 uploadVars, dataVars, reportVars, dayVars>>

-----------------------------------------------------------------------------
(* weatherThread *)

WeatherCheck ==
  /\ weatherPc = "check"
  /\ weatherPc' = IF serverRunning # 0 THEN "pop" ELSE "join"
  /\ UNCHANGED <<serverRunning, aroundVars, weatherQueue, uploadMutex, weatherField,
                 sensorData, rawDay, previousDay, uploadVars, dataVars, reportVars, dayVars>>

PopMessage ==
  /\ weatherPc = "pop"
  /\ weatherQueue # <<>>
  /\ sensorData' = Head(weatherQueue)
  /\ weatherQueue' = Tail(weatherQueue)
  /\ weatherPc' = "lock"
  /\ UNCHANGED <<serverRunning, aroundVars, uploadMutex, weatherField, rawDay, previousDay,
                 uploadVars, dataVars, reportVars, dayVars>>

\* Mutant of LockRecord: the lock_guard of recordWeatherData is missing.
RecordUnlocked ==
  /\ weatherPc = "lock"
  /\ uploadMutex' = "weather"
  /\ weatherPc' = "record"
  /\ UNCHANGED <<serverRunning, aroundVars, weatherQueue, weatherField, sensorData,
                 rawDay, previousDay, uploadVars, dataVars, reportVars, dayVars>>

LockRecord ==
  /\ weatherPc = "lock"
  /\ uploadMutex = None
  /\ uploadMutex' = "weather"
  /\ weatherPc' = "record"
  /\ UNCHANGED <<serverRunning, aroundVars, weatherQueue, weatherField, sensorData,
                 rawDay, previousDay, uploadVars, dataVars, reportVars, dayVars>>

\* Mutant of IncludeValue: newMax = (value >= maxValue).
IncludeValueOrEqual(f) ==
  /\ f \in Sampled
  /\ included' = [included EXCEPT ![f] = Append(@, sensorData)]
  /\ averaged' = [averaged EXCEPT ![f] = Append(included[f], sensorData)]
  /\ newMax' = IF f # "WindSpeed" THEN newMax ELSE
                 \A i \in Range(included[f]) :
                   sensed[sensorData].speed >= sensed[i].speed
  /\ UNCHANGED stored

\* includeValue of a sampled field: the first value after a reset replaces the
\* mean, and a wind speed tells whether it is a new maximum.
IncludeValue(f) ==
  /\ f \in Sampled
  /\ included' = [included EXCEPT ![f] = Append(@, sensorData)]
  /\ averaged' = [averaged EXCEPT ![f] = Append(included[f], sensorData)]
  /\ newMax' = IF f # "WindSpeed" THEN newMax ELSE
                 \A i \in Range(included[f]) :
                   sensed[sensorData].speed > sensed[i].speed
  /\ UNCHANGED stored

\* Mutant of StoreValue: the rainfall is not added to what was stored.
StoreRainOnly(f) ==
  /\ f \in Stored
  /\ stored' = CASE f = "Rainfall" ->
                      [stored EXCEPT ![f] = sensed[sensorData].rain]
                 [] f = "WindDirectionAtMaxSpeed" ->
                      IF newMax THEN [stored EXCEPT ![f] = sensorData] ELSE stored
  /\ UNCHANGED <<included, averaged, newMax>>

\* storeValue: rainfall adds up, the wind direction is kept at a new maximum.
StoreValue(f) ==
  /\ f \in Stored
  /\ stored' = CASE f = "Rainfall" ->
                      [stored EXCEPT ![f] = sensed[sensorData].rain + @]
                 [] f = "WindDirectionAtMaxSpeed" ->
                      IF newMax THEN [stored EXCEPT ![f] = sensorData] ELSE stored
  /\ UNCHANGED <<included, averaged, newMax>>

\* The next field of recordWeatherData; the lock_guard ends with the last one.
RecordField ==
  /\ weatherPc = "record"
  /\ LET f == RecordOrder[weatherField] IN IncludeValue(f) \/ StoreValue(f)
  /\ IF weatherField < Last
       THEN /\ weatherField' = weatherField + 1
            /\ UNCHANGED <<weatherPc, uploadMutex>>
       ELSE /\ weatherField' = 1
            /\ weatherPc' = "clock"
            /\ uploadMutex' = None
  /\ UNCHANGED <<serverRunning, aroundVars, weatherQueue, sensorData, rawDay, previousDay,
                 uploadVars, reportVars, dayVars>>

\* crossedMidnight() calls time(), ...
ReadClock ==
  /\ weatherPc = "clock"
  /\ weatherPc' = "midnight"
  /\ rawDay' = today
  /\ checkedOn' = [checkedOn EXCEPT ![sensorData] = today]
  /\ UNCHANGED <<serverRunning, aroundVars, weatherQueue, uploadMutex, weatherField,
                 sensorData, previousDay, uploadVars, dataVars, reportVars, midnights, raced>>

\* Mutant of CrossedMidnight: the day is never remembered.
CrossedMidnightAgain ==
  /\ weatherPc = "midnight"
  /\ \E compared, copied \in 0..today :
       /\ weatherPc' = IF previousDay # compared THEN "zero" ELSE "check"
       /\ rawDay' = 0
       /\ raced' = (raced \/ {compared, copied} # {rawDay})
  /\ UNCHANGED <<serverRunning, aroundVars, weatherQueue, uploadMutex, weatherField,
                 sensorData, previousDay, uploadVars, dataVars, reportVars,
                 midnights, checkedOn>>

(***************************************************************************)
(* ... has localtime() write that time into the struct tm, compares its    *)
(* day of the month with previous_tm, and copies it to previous_tm.  Each  *)
(* may be another day if another thread's localtime(), with a time read    *)
(* now or before, has come in between.                                     *)
(***************************************************************************)
CrossedMidnight ==
  /\ weatherPc = "midnight"
  /\ \E compared, copied \in 0..today :
       /\ weatherPc' = IF previousDay # compared THEN "zero" ELSE "check"
       /\ previousDay' = copied /\ rawDay' = 0
       /\ raced' = (raced \/ {compared, copied} # {rawDay})
  /\ UNCHANGED <<serverRunning, aroundVars, weatherQueue, uploadMutex, weatherField,
                 sensorData, uploadVars, dataVars, reportVars, midnights, checkedOn>>

\* weatherData[Rainfall].storeValue(0), without the mutex.
ZeroRainfall ==
  /\ weatherPc = "zero"
  /\ stored' = [stored EXCEPT !["Rainfall"] = 0]
  /\ midnights' = midnights + 1
  /\ weatherPc' = "check"
  /\ UNCHANGED <<serverRunning, aroundVars, weatherQueue, uploadMutex, weatherField,
                 sensorData, rawDay, previousDay, uploadVars, included, averaged, newMax,
                 reportVars, checkedOn, raced>>

JoinUpload ==
  /\ weatherPc = "join"
  /\ uploadPc = "done"
  /\ weatherPc' = "done"
  /\ UNCHANGED <<serverRunning, aroundVars, weatherQueue, uploadMutex, weatherField,
                 sensorData, rawDay, previousDay, uploadVars, dataVars, reportVars, dayVars>>

-----------------------------------------------------------------------------
(* weatherUploadThread *)

UploadCheck ==
  /\ uploadPc = "check"
  /\ uploadPc' = IF serverRunning # 0 THEN "sleep" ELSE "done"
  /\ UNCHANGED <<serverRunning, aroundVars, weatherQueue, uploadMutex, weatherVars,
                 uploadField, report, dataVars, reportVars, dayVars>>

\* delayUntil returns.
UploadWake ==
  /\ uploadPc = "sleep"
  /\ uploadPc' = "lock"
  /\ UNCHANGED <<serverRunning, aroundVars, weatherQueue, uploadMutex, weatherVars,
                 uploadField, report, dataVars, reportVars, dayVars>>

\* Mutant of LockUpload: the lock_guard of weatherUploadThread is missing.
UploadUnlocked ==
  /\ uploadPc = "lock"
  /\ uploadMutex' = "upload"
  /\ uploadPc' = "populate"
  /\ UNCHANGED <<serverRunning, aroundVars, weatherQueue, weatherVars, uploadField,
                 report, dataVars, reportVars, dayVars>>

LockUpload ==
  /\ uploadPc = "lock"
  /\ uploadMutex = None
  /\ uploadMutex' = "upload"
  /\ uploadPc' = "populate"
  /\ UNCHANGED <<serverRunning, aroundVars, weatherQueue, weatherVars, uploadField,
                 report, dataVars, reportVars, dayVars>>

\* The last message that weatherThread is through with, or 0 while it is about to
\* look for midnight after one.
Settled ==
  IF sensorData = None \/ weatherPc \in {"clock", "midnight", "zero"} THEN 0
  ELSE IF weatherPc \in {"lock", "record"} THEN sensorData - 1
  ELSE sensorData

\* The report with field f read from weatherData.
Populated(f) ==
  CASE f = "WindSpeed"  -> [report EXCEPT !.mean[f] = averaged[f], !.max = included[f]]
    [] f \in Sampled \ {"WindSpeed"} -> [report EXCEPT !.mean[f] = averaged[f]]
    [] f = "Rainfall"   -> [report EXCEPT !.stored[f] = stored[f],
                                          !.midnights = midnights, !.upto = Settled]
    [] f = "WindDirectionAtMaxSpeed" -> [report EXCEPT !.stored[f] = stored[f]]

InReport(r, i) == i \in Range(r.max)

Publish(r) ==
  /\ lastReport' = r
  /\ priorReport' = lastReport
  /\ timesReported' = [i \in Numbers |-> timesReported[i] + IF InReport(r, i) THEN 1 ELSE 0]

\* Mutant of PopulateField: the loop of resets begins at 1.
PopulateResetFromOne ==
  /\ uploadPc = "populate"
  /\ LET r == Populated(PopulateOrder[uploadField])
     IN IF uploadField < Last
          THEN /\ report' = r
               /\ uploadField' = uploadField + 1
               /\ UNCHANGED <<uploadPc, reportVars>>
          ELSE /\ Publish(r)
               /\ report' = NoReport
               /\ uploadField' = 2
               /\ uploadPc' = "reset"
  /\ UNCHANGED <<serverRunning, aroundVars, weatherQueue, uploadMutex, weatherVars,
                 dataVars, dayVars>>

\* populateRecordedWeatherData reads the next field; with the last one the
\* report is published.
PopulateField ==
  /\ uploadPc = "populate"
  /\ LET r == Populated(PopulateOrder[uploadField])
     IN IF uploadField < Last
          THEN /\ report' = r
               /\ uploadField' = uploadField + 1
               /\ UNCHANGED <<uploadPc, reportVars>>
          ELSE /\ Publish(r)
               /\ report' = NoReport
               /\ uploadField' = 1
               /\ uploadPc' = "reset"
  /\ UNCHANGED <<serverRunning, aroundVars, weatherQueue, uploadMutex, weatherVars,
                 dataVars, dayVars>>

\* Mutant of ResetField: the mutex stays locked.
ResetKeepsMutex ==
  /\ uploadPc = "reset"
  /\ LET f == ResetOrder[uploadField]
     IN included' = IF f \in Sampled THEN [included EXCEPT ![f] = <<>>] ELSE included
  /\ uploadField' = IF uploadField < Last THEN uploadField + 1 ELSE 1
  /\ uploadPc' = IF uploadField < Last THEN "reset" ELSE "check"
  /\ UNCHANGED <<serverRunning, aroundVars, weatherQueue, uploadMutex, weatherVars,
                 report, averaged, newMax, stored, reportVars, dayVars>>

\* reset() of the next field leaves the mean, storedValue and newMax alone; the
\* lock_guard ends with the last one.
ResetField ==
  /\ uploadPc = "reset"
  /\ LET f == ResetOrder[uploadField]
     IN included' = IF f \in Sampled THEN [included EXCEPT ![f] = <<>>] ELSE included
  /\ IF uploadField < Last
       THEN /\ uploadField' = uploadField + 1
            /\ UNCHANGED <<uploadPc, uploadMutex>>
       ELSE /\ uploadField' = 1
            /\ uploadPc' = "check"
            /\ uploadMutex' = None
  /\ UNCHANGED <<serverRunning, aroundVars, weatherQueue, weatherVars, report,
                 averaged, newMax, stored, reportVars, dayVars>>

-----------------------------------------------------------------------------
WeatherStep ==
  \/ WeatherCheck \/ PopMessage \/ LockRecord \/ RecordField
  \/ ReadClock \/ CrossedMidnight \/ ZeroRainfall \/ JoinUpload

UploadStep == UploadCheck \/ UploadWake \/ LockUpload \/ PopulateField \/ ResetField

Next == Arrive \/ Reset \/ NewDay \/ WeatherStep \/ UploadStep

SafeSpec == Init /\ [][Next]_vars

(***************************************************************************)
(* Both threads go on whenever they can, and delayUntil returns.  Each     *)
(* holds the mutex only while it computes and then waits for a message or  *)
(* the next interval, so a thread that waits for the mutex gets it:        *)
(* strong fairness of the two lock steps.  No message, reset or midnight   *)
(* is owed.                                                                *)
(***************************************************************************)
Fairness ==
  /\ WF_vars(WeatherStep) /\ SF_vars(LockRecord)
  /\ WF_vars(UploadStep) /\ SF_vars(LockUpload)

Spec == SafeSpec /\ Fairness

-----------------------------------------------------------------------------
\* Each thread owns the mutex exactly while it is inside a critical section.
MutexOwner ==
  /\ uploadMutex = "weather" <=> weatherPc = "record"
  /\ uploadMutex = "upload" <=> uploadPc \in {"populate", "reset"}

(***************************************************************************)
(* A report is a snapshot, although its fields are recorded, read and      *)
(* reset one by one: all means are of the same messages, and the maximum   *)
(* is of these, too, or of none (-100000000).  When it is of none, because *)
(* no message came since the last report, the means are those of that      *)
(* report again, which reset() has kept.                                   *)
(***************************************************************************)
ReportIsSnapshot ==
  /\ \A f, g \in Sampled : lastReport.mean[f] = lastReport.mean[g]
  /\ lastReport.max \in {<<>>, lastReport.mean["WindSpeed"]}
  /\ lastReport.max = <<>> => lastReport.mean = priorReport.mean

Arrived == 1..Len(sensed)

\* The messages that recordWeatherData has been called for and has finished.
Recorded ==
  Arrived \ (Range(weatherQueue)
               \cup IF weatherPc \in {"lock", "record"} THEN {sensorData} ELSE {})

(***************************************************************************)
(* Windows do not overlap and leave no gap: a recorded message is either   *)
(* in the open window or in exactly one report, never in both, and a       *)
(* reset between two reports loses none.                                   *)
(***************************************************************************)
CountedOnce ==
  uploadPc # "reset" =>
    \A i \in Recorded :
      timesReported[i] = IF i \in Range(included["Humidity"]) THEN 0 ELSE 1

(***************************************************************************)
(* windDirectionAtMaxWindSpeed of a report is the direction of the first   *)
(* message of its window that had the window's greatest wind speed.        *)
(***************************************************************************)
GustDirection ==
  LET window == Range(lastReport.max)
      fastest == {i \in window : \A j \in window : sensed[i].speed >= sensed[j].speed}
  IN window # {} => lastReport.stored["WindDirectionAtMaxSpeed"] = Min(fastest)

RainOf(S) == SumFunction([i \in S |-> sensed[i].rain])

(***************************************************************************)
(* The rainfall of two consecutive reports differs by what fell in the     *)
(* window of the second, unless the rainfall was zeroed between the two:   *)
(* the unlocked write at midnight disturbs nothing else.                   *)
(***************************************************************************)
RainfallAddsUp ==
  priorReport # NoReport /\ priorReport.midnights = lastReport.midnights =>
    lastReport.stored["Rainfall"] =
      priorReport.stored["Rainfall"] + RainOf(Range(lastReport.max))

\* While the server runs, a message that arrives gets into a report.
EveryMessageReported ==
  \A i \in Numbers :
    i \in Arrived ~> timesReported[i] = 1 \/ serverRunning = 0

(***************************************************************************)
(* The rain of a report is exactly what fell on the day of the last        *)
(* message before it, but for what the first message of that day brought:  *)
(* this is added before the rainfall is zeroed, and lost.  So it is not    *)
(* quite the "inches today" of element.h:44.  Excepted are the day of the  *)
(* start, when storedValue was not set, and an overwritten struct tm.      *)
(***************************************************************************)
RainfallOfToday ==
  LET n   == lastReport.upto
      day == {i \in 1..n : checkedOn[i] = checkedOn[n]}
  IN ~raced /\ n # 0 /\ checkedOn[n] # 0 =>
       lastReport.stored["Rainfall"] = RainOf(day \ {Min(day)})

(***************************************************************************)
(* element.h:44 says of the rainfall that it is in "inches today": all the *)
(* rain of the day of the last message, that of the first one included.    *)
(***************************************************************************)
RainfallIsInchesToday ==
  LET n   == lastReport.upto
      day == {i \in 1..n : checkedOn[i] = checkedOn[n]}
  IN ~raced /\ n # 0 /\ checkedOn[n] # 0 => lastReport.stored["Rainfall"] = RainOf(day)
=============================================================================
