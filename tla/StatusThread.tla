---------------------------- MODULE StatusThread ----------------------------
(***************************************************************************)
(* core/status_thread.cpp: statusThread records each status message into   *)
(* the array statusData of Numerical_Statistics, one per kind, and resets  *)
(* all of it at midnight without the mutex; statusUploadThread makes a     *)
(* report of the array at every interval, publishes it and resets it.      *)
(*                                                                         *)
(* statusThread learns of midnight from crossedMidnight(), which works on  *)
(* the one struct tm that localtime() returns to all threads: the thread   *)
(* writes it, compares it and copies it, and any other thread (the upload  *)
(* threads and csvThread for a date, the receive, weather and csv threads  *)
(* for their own midnight) may write its own in between.                   *)
(*                                                                         *)
(* A cell of the array is represented by sets of messages: those included  *)
(* since its reset, which its maximum is of, and those its mean is of,     *)
(* which reset() keeps.  A message is named by its number, which is also   *)
(* the uptime it carries.                                                  *)
(***************************************************************************)
EXTENDS Integers, Sequences, FiniteSets

CONSTANTS
  MaxMessages,  \* bound on the status messages that arrive
  MaxDay,       \* bound on the days that begin
  HalfRange,    \* the first uptime that is not an int32_t, as 2^31 is
  Unset         \* what the memory of statusData may have held as stored uptime

ASSUME ConstantsAssumption ==
  /\ MaxMessages \in Nat /\ MaxDay \in Nat /\ HalfRange \in Nat \ {0}
  /\ Unset \subseteq Nat

(***************************************************************************)
(* Kinds of messages, in the order of the enumeration.  BMP180_Read_Time   *)
(* stands for the other kinds that are reported by mean and maximum:       *)
(* HTU21D_Read_Time, Argent_Read_Time and Sensor_Read_Interval, and        *)
(* Phant_Tx_Time, which nothing ever sends.  No other kind is reported.    *)
(***************************************************************************)
KindOrder == <<"BMP180_Read_Time", "Battery_Voltage", "Sensor_Uptime">>
Kinds     == {"BMP180_Read_Time", "Battery_Voltage", "Sensor_Uptime"}

\* Mutant of KindCount: the loops over the kinds leave out the last one.
KindCountLessOne == 2

KindCount == 3

Timed     == "BMP180_Read_Time"
Averaged  == {"BMP180_Read_Time", "Battery_Voltage"}

Numbers == 1..MaxMessages
Days    == 0..MaxDay
Reports == [uptime : Nat, mean : [Averaged -> SUBSET Numbers], max : SUBSET Numbers]

VARIABLES
  serverRunning,
  today,          \* the day of the wall clock
  arrived,        \* the kinds of the messages that have arrived, in order
  status,         \* statusThread: pc, kind to reset, rawtime, previous_tm
  popped,         \* the number of messages that statusThread has popped
  upload,         \* statusUploadThread: pc, step of its loop, report
  uploadMutex,
  included, averaged, storedUptime,  \* statusData
  lastReport,     \* the last report that was published
  timesReported,  \* the number of reports whose maximum each message was part of
  forgotten,      \* the messages that a reset at midnight removed
  checkedOn,      \* the day on which midnight was checked after each message
  raced           \* another thread wrote the struct tm while statusThread used it

aroundVars  == <<serverRunning, today, arrived>>
statusVars  == <<status, popped>>
uploadVars  == <<upload, uploadMutex>>
dataVars    == <<included, averaged, storedUptime>>
reportVars  == <<lastReport, timesReported>>
historyVars == <<forgotten, checkedOn, raced>>
vars == <<aroundVars, statusVars, uploadVars, dataVars, reportVars, historyVars>>

TypeOK ==
  /\ serverRunning \in {0, 1} /\ today \in Days
  /\ arrived \in Seq(Kinds) /\ popped \in 0..Len(arrived)
  /\ status \in [pc : {"check", "pop", "lock", "clock", "midnight",
                       "reset", "join", "done"},
                 kind : 1..KindCount, raw : Days, previous : Days]
  /\ upload \in [pc : {"check", "sleep", "lock", "populate", "reset", "done"},
                 step : 1..4, report : Reports]
  /\ uploadMutex \in {"upload", "free"}
  /\ included \in [Kinds -> SUBSET Numbers] /\ averaged \in [Kinds -> SUBSET Numbers]
  /\ storedUptime \in Nat
  /\ lastReport \in Reports /\ timesReported \in [Numbers -> Nat]
  /\ forgotten \subseteq Numbers /\ checkedOn \in [Numbers -> Days \cup {-1}]
  /\ raced \in BOOLEAN

NoReport == [uptime |-> 0, mean |-> [k \in Averaged |-> {}], max |-> {}]

\* Both threads are about to enter their loops; the constructor of
\* Detection_Functions has called crossedMidnight() once.
Init ==
  /\ serverRunning = 1 /\ today = 0 /\ arrived = <<>>
  /\ status = [pc |-> "check", kind |-> 1, raw |-> 0, previous |-> 0]
  /\ popped = 0
  /\ upload = [pc |-> "check", step |-> 1, report |-> NoReport] /\ uploadMutex = "free"
  /\ included = [k \in Kinds |-> {}] /\ averaged = included /\ storedUptime \in Unset
  /\ lastReport = NoReport /\ timesReported = [i \in Numbers |-> 0]
  /\ forgotten = {} /\ checkedOn = [i \in Numbers |-> -1] /\ raced = FALSE

-----------------------------------------------------------------------------
(* Around the two threads *)

\* receiveThread publishes a status message.
Arrive ==
  /\ serverRunning = 1 /\ Len(arrived) < MaxMessages
  /\ \E k \in Kinds : arrived' = Append(arrived, k)
  /\ UNCHANGED <<serverRunning, today>>

\* receiveThread obeys a reset message.
Reset == serverRunning = 1 /\ serverRunning' = 0 /\ UNCHANGED <<today, arrived>>

NewDay == today < MaxDay /\ today' = today + 1 /\ UNCHANGED <<serverRunning, arrived>>

Around ==
  /\ Arrive \/ Reset \/ NewDay
  /\ UNCHANGED <<statusVars, uploadVars, dataVars, reportVars, historyVars>>

\* Mutant of MutexFree: the lock_guard is missing.
MutexAnyway == TRUE

\* lock_guard can take the mutex.
MutexFree == uploadMutex = "free"

\* Mutants of ResetCell: reset() keeps the count, ...
ResetKeepsCount(k) == UNCHANGED dataVars

\* ... or clears the stored value too.
ResetClearsStored(k) ==
  included' = [included EXCEPT ![k] = {}] /\ storedUptime' = 0 /\ UNCHANGED averaged

\* reset() of the cell of kind k leaves the mean and the stored value alone.
ResetCell(k) ==
  included' = [included EXCEPT ![k] = {}] /\ UNCHANGED <<averaged, storedUptime>>

-----------------------------------------------------------------------------
(* statusThread *)

StatusGoto(from, to) == status.pc = from /\ status' = [status EXCEPT !.pc = to]

StatusCheck ==
  /\ StatusGoto("check", IF serverRunning # 0 THEN "pop" ELSE "join")
  /\ UNCHANGED <<popped, dataVars, forgotten, checkedOn, raced>>

\* Mutant of QueueEmpty: popHead waits for a second element.
QueueNearlyEmpty == popped + 1 >= Len(arrived)

QueueEmpty == popped = Len(arrived)

PopMessage ==
  /\ StatusGoto("pop", "lock")
  /\ ~QueueEmpty /\ popped' = popped + 1
  /\ UNCHANGED <<dataVars, forgotten, checkedOn, raced>>

\* storeValue() of the cell of the message's kind, within one step since only
\* this thread is ever inside while it owns the mutex.  The getMean() before
\* it reads what only this thread writes.
RecordStatusData ==
  /\ StatusGoto("lock", "clock")
  /\ MutexFree
  /\ LET k == arrived[popped] IN
       /\ included' = [included EXCEPT ![k] = @ \cup {popped}]
       /\ averaged' = [averaged EXCEPT ![k] = included[k] \cup {popped}]
       /\ storedUptime' = IF k = "Sensor_Uptime" THEN popped ELSE storedUptime
  /\ UNCHANGED <<popped, forgotten, checkedOn, raced>>

\* crossedMidnight() calls time(), ...
ReadClock ==
  /\ status.pc = "clock"
  /\ status' = [status EXCEPT !.pc = "midnight", !.raw = today]
  /\ checkedOn' = [checkedOn EXCEPT ![popped] = today]
  /\ UNCHANGED <<popped, dataVars, forgotten, raced>>

(***************************************************************************)
(* ... has localtime() write that time into the struct tm, compares it     *)
(* with previous_tm, and copies it to previous_tm.  What it compares and   *)
(* what it copies is another day if another thread's localtime(), with a   *)
(* time read now or before, has come in between.                           *)
(***************************************************************************)
CrossedMidnight ==
  /\ status.pc = "midnight"
  /\ \E compared, copied \in 0..today :
       /\ status' = [pc |-> IF status.previous # compared THEN "reset" ELSE "check",
                     kind |-> 1, raw |-> 0, previous |-> copied]
       /\ raced' = (raced \/ {compared, copied} # {status.raw})
  /\ UNCHANGED <<popped, dataVars, forgotten, checkedOn>>

\* The next kind is reset at midnight, whoever has the mutex.
MidnightReset ==
  /\ status.pc = "reset"
  /\ LET k == KindOrder[status.kind]
     IN ResetCell(k) /\ forgotten' = forgotten \cup included[k]
  /\ status' = IF status.kind < KindCount THEN [status EXCEPT !.kind = @ + 1]
                                          ELSE [status EXCEPT !.kind = 1, !.pc = "check"]
  /\ UNCHANGED <<popped, checkedOn, raced>>

JoinUpload ==
  /\ StatusGoto("join", "done")
  /\ upload.pc = "done"
  /\ UNCHANGED <<popped, dataVars, forgotten, checkedOn, raced>>

StatusStep ==
  /\ \/ StatusCheck \/ PopMessage \/ RecordStatusData \/ ReadClock
     \/ CrossedMidnight \/ MidnightReset \/ JoinUpload
  /\ UNCHANGED <<aroundVars, uploadVars, reportVars>>

-----------------------------------------------------------------------------
(* statusUploadThread *)

UploadGoto(from, to) == upload.pc = from /\ upload' = [upload EXCEPT !.pc = to]

UploadCheck ==
  /\ UploadGoto("check", IF serverRunning # 0 THEN "sleep" ELSE "done")
  /\ UNCHANGED <<uploadMutex, dataVars, reportVars>>

\* delayUntil returns.
UploadWake == UploadGoto("sleep", "lock") /\ UNCHANGED <<uploadMutex, dataVars, reportVars>>

LockUpload ==
  /\ UploadGoto("lock", "populate")
  /\ MutexFree /\ uploadMutex' = "upload"
  /\ UNCHANGED <<dataVars, reportVars>>

(***************************************************************************)
(* u_int32 from the double that came from an int32_t: a negative one has   *)
(* no defined value; the build gives 0 where the conversion saturates and  *)
(* the old number where it wraps around.                                   *)
(***************************************************************************)
AsUnsigned(uptime) == IF uptime < HalfRange THEN {uptime} ELSE {0, uptime}

\* Mutant of Maximum: it is read from the next cell.
MaximumOfNext == included["Battery_Voltage"]

Maximum == included[Timed]

\* The report after the nth getter of populateRecordedStatusData.
Populated(n) ==
  CASE n = 1 -> {[upload.report EXCEPT !.uptime = u] : u \in AsUnsigned(storedUptime)}
    [] n = 2 -> {[upload.report EXCEPT !.mean[Timed] = averaged[Timed]]}
    [] n = 3 -> {[upload.report EXCEPT !.max = Maximum]}
    [] n = 4 -> {[upload.report EXCEPT !.mean["Battery_Voltage"] = averaged["Battery_Voltage"]]}

\* The next value of the report is read; with the last one it is published.
Populate ==
  /\ upload.pc = "populate"
  /\ \E r \in Populated(upload.step) :
       IF upload.step < 4
         THEN upload' = [upload EXCEPT !.step = @ + 1, !.report = r] /\ UNCHANGED reportVars
         ELSE /\ upload' = [pc |-> "reset", step |-> 1, report |-> NoReport]
              /\ lastReport' = r
              /\ timesReported' = [i \in Numbers |->
                                     timesReported[i] + IF i \in r.max THEN 1 ELSE 0]
  /\ UNCHANGED <<uploadMutex, dataVars>>

\* The next kind is reset after a report; the lock_guard ends with the last.
UploadReset ==
  /\ upload.pc = "reset"
  /\ ResetCell(KindOrder[upload.step])
  /\ IF upload.step < KindCount
       THEN upload' = [upload EXCEPT !.step = @ + 1] /\ UNCHANGED uploadMutex
       ELSE upload' = [upload EXCEPT !.step = 1, !.pc = "check"] /\ uploadMutex' = "free"
  /\ UNCHANGED reportVars

UploadStep ==
  /\ UploadCheck \/ UploadWake \/ LockUpload \/ Populate \/ UploadReset
  /\ UNCHANGED <<aroundVars, statusVars, historyVars>>

-----------------------------------------------------------------------------
Next == Around \/ StatusStep \/ UploadStep

SafeSpec == Init /\ [][Next]_vars

(***************************************************************************)
(* Both threads go on whenever they can and delayUntil returns.  The       *)
(* upload thread has the mutex for a bounded computation once an interval, *)
(* so statusThread, waiting for it, gets it: strong fairness.              *)
(***************************************************************************)
Fairness ==
  /\ WF_vars(StatusStep) /\ SF_vars(StatusStep /\ RecordStatusData)
  /\ WF_vars(UploadStep)

Spec == SafeSpec /\ Fairness

-----------------------------------------------------------------------------
(***************************************************************************)
(* Mean and maximum of a report are of the same messages, or the maximum   *)
(* is of none (-100000000) and says so: they are read one after the other  *)
(* while the reset of midnight goes through the array without the mutex.   *)
(***************************************************************************)
MeanAndMaxAgree == lastReport.max \in {{}, lastReport.mean[Timed]}

\* The messages that recordStatusData has stored.
Recorded == {i \in 1..popped : ~(i = popped /\ status.pc = "lock")}

(***************************************************************************)
(* A message is never in two reports, and one that is in none is still in  *)
(* the open window or was there at a midnight: nothing else loses it.      *)
(***************************************************************************)
CountedOnce ==
  /\ \A i \in Numbers : timesReported[i] <= 1
  /\ \A i \in Recorded :
       arrived[i] = Timed /\ timesReported[i] = 0 => i \in included[Timed] \cup forgotten

(***************************************************************************)
(* A report without messages repeats an old mean, never one that another   *)
(* report will show as new: when the maximum is empty, each message of the *)
(* mean is reported already or was forgotten at a midnight.                *)
(***************************************************************************)
StaleMeanIsMarked ==
  lastReport.max = {} =>
    \A i \in lastReport.mean[Timed] : timesReported[i] = 1 \/ i \in forgotten

\* The message that is recorded and for which midnight is not yet dealt with.
InHand == IF status.pc \in {"clock", "midnight", "reset"} THEN {popped} ELSE {}

(***************************************************************************)
(* At any moment the messages in the array are all of one day, but for the *)
(* one that statusThread has just recorded and not yet looked at midnight  *)
(* for: the reset that follows it leaves none behind, whatever the upload  *)
(* thread resets meanwhile.  A report that is made between its recording   *)
(* and that reset does have messages of two days: the mutex is free then.  *)
(* Excepted is an overwritten struct tm.                                   *)
(***************************************************************************)
WindowWithinDay ==
  ~raced => \A i, j \in (UNION {included[k] : k \in Kinds}) \ InHand :
              checkedOn[i] = checkedOn[j]

(***************************************************************************)
(* Once the station has said its uptime, what is reported never goes back, *)
(* over any number of resets, as long as it is up for less than 2^31 ms.   *)
(***************************************************************************)
UptimeNeverBack ==
  [][lastReport.uptime \in Numbers /\ lastReport'.uptime < lastReport.uptime
       => storedUptime >= HalfRange]_lastReport

\* While the server runs, a message gets into a report or meets a midnight.
EveryMessageAccounted ==
  \A i \in Numbers :
    i <= Len(arrived) /\ arrived[i] = Timed ~>
      timesReported[i] = 1 \/ i \in forgotten \/ serverRunning = 0
=============================================================================
