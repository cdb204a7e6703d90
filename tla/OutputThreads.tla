--------------------------- MODULE OutputThreads ---------------------------
(***************************************************************************)
(* Where reports go.  csvWeatherThread and csvStatusThread turn them into  *)
(* rows for csvThread, which writes them to a file and opens another one   *)
(* after midnight (file/csv_interface.cpp); houseWeatherThread turns       *)
(* weather reports into objects of the class Serialize for houseThread,    *)
(* which multicasts their bytes (house/house_interface.cpp).               *)
(*                                                                         *)
(* Here all queues are connected and the server runs: how the threads      *)
(* start and end is in DataManager.                                        *)
(***************************************************************************)
EXTENDS Serialize

CONSTANTS
  MaxReports,  \* bound on the reports of each kind: [weather |-> .., status |-> ..]
  MaxDay,      \* bound on the days that begin
  None         \* csvThread has no row in hand

ReportKinds == {"weather", "status"}

\* The threads that take reports, with the kind they take.
Takers == [csvWeather |-> "weather", csvStatus |-> "status", houseWeather |-> "weather"]

\* Mutant of WeatherKinds: a kind is put in twice.
WeatherKindsTwice ==
  <<"Index", "Duration", "Humidity", "Pressure", "Temperature", "Wind_Direction",
    "Wind_Speed", "Rain_Fall", "Rain_Fall">>

\* The elements of a weather report, in the order in which they are set.
WeatherKinds ==
  <<"Index", "Duration", "Humidity", "Pressure", "Temperature", "Wind_Direction",
    "Wind_Speed", "Rain_Fall", "Altitude">>

Days == 0..MaxDay
Rows == [kind : ReportKinds, number : Nat, day : Days]

\* An object has room for the elements of a report, which may have any payload.
ASSUME OutputAssumption ==
  /\ MaxReports \in [ReportKinds -> Nat] /\ MaxDay \in Nat /\ None \notin Rows
  /\ \A p \in 1..Len(WeatherKinds) : WeatherKinds[p] \in Kinds
  /\ Len(WeatherKinds) <= ElementCount
  /\ 1..MaxReports["weather"] \subseteq Values

VARIABLES
  today,
  reports,      \* the days on which the published reports of each kind were made
  taken,        \* the number of them that each taker has popped
  outputQueue,  \* rows on their way to csvThread
  pc,           \* where csvThread stands
  row,          \* the row it has popped
  previous,     \* its previous_tm
  files,        \* its files, the last one open: the day in the name, the rows
  disturbed,    \* it was misled about the day, or midnight met its start
  houseQueue,   \* objects on their way to houseThread
  datagrams     \* what houseThread has sent

csvVars   == <<pc, row, previous, files, disturbed>>
houseVars == <<houseQueue, datagrams>>
vars == <<today, reports, taken, outputQueue, csvVars, houseVars>>

TypeOK ==
  /\ today \in Days /\ reports \in [ReportKinds -> Seq(Days)]
  /\ taken \in [DOMAIN Takers -> Nat]
  /\ \A t \in DOMAIN Takers : taken[t] <= Len(reports[Takers[t]])
  /\ outputQueue \in Seq(Rows)
  /\ pc \in {"open", "detect", "pop", "midnight", "reopen", "write", "done"}
  /\ row \in Rows \cup {None} /\ previous \in Days /\ disturbed \in BOOLEAN
  /\ files \in Seq([day : Days, rows : Seq(Rows)])
  /\ pc \in {"midnight", "reopen", "write"} => row # None /\ files # <<>>
  /\ houseQueue \in Seq(Objects)
  /\ datagrams \in Seq([1..ElementCount -> Elements])

Init ==
  /\ today = 0 /\ reports = [k \in ReportKinds |-> <<>>]
  /\ taken = [t \in DOMAIN Takers |-> 0] /\ outputQueue = <<>>
  /\ pc = "open" /\ row = None /\ previous = 0 /\ files = <<>> /\ disturbed = FALSE
  /\ houseQueue = <<>> /\ datagrams = <<>>

\* An upload thread publishes a report.
Publish(k) ==
  /\ Len(reports[k]) < MaxReports[k]
  /\ reports' = [reports EXCEPT ![k] = Append(@, today)]
  /\ UNCHANGED <<today, taken, outputQueue, csvVars, houseVars>>

NewDay ==
  /\ today < MaxDay /\ today' = today + 1
  /\ UNCHANGED <<reports, taken, outputQueue, csvVars, houseVars>>

\* popHead of a taker's report queue.
TakeReport(t) ==
  /\ taken[t] < Len(reports[Takers[t]])
  /\ taken' = [taken EXCEPT ![t] = @ + 1]
  /\ UNCHANGED <<today, reports, csvVars>>

\* csvWeatherThread and csvStatusThread: the row goes to csvQueue.
PublishRow(t) ==
  /\ TakeReport(t)
  /\ LET k == Takers[t] n == taken'[t]
     IN outputQueue' = Append(outputQueue, [kind |-> k, number |-> n, day |-> reports[k][n]])
  /\ UNCHANGED houseVars

\* serializeWeatherData sets one element after the other; the payloads made for
\* the nth report are all n.
WeatherObject ==
  [n \in 1..MaxReports["weather"] |->
    LET after[p \in 0..Len(WeatherKinds)] ==
          IF p = 0 THEN NewObject ELSE WithElement(after[p - 1], WeatherKinds[p], n)
    IN after[Len(WeatherKinds)]]

\* Mutant of PushObject: a report that finds another one waiting is left out.
PushObjectIfIdle ==
  /\ TakeReport("houseWeather")
  /\ houseQueue' = IF houseQueue = <<>> THEN <<WeatherObject[taken'["houseWeather"]]>>
                   ELSE houseQueue
  /\ UNCHANGED <<outputQueue, datagrams>>

PushObject ==
  /\ TakeReport("houseWeather")
  /\ houseQueue' = Append(houseQueue, WeatherObject[taken'["houseWeather"]])
  /\ UNCHANGED <<outputQueue, datagrams>>

\* houseThread sends the bytes of the next object.
SendObject ==
  /\ houseQueue # <<>>
  /\ datagrams' = Append(datagrams, Bytes(Head(houseQueue)))
  /\ houseQueue' = Tail(houseQueue)
  /\ UNCHANGED <<today, reports, taken, outputQueue, csvVars>>

-----------------------------------------------------------------------------
(* csvThread *)

Goto(from, to) == pc = from /\ pc' = to

(***************************************************************************)
(* What timeDateString() makes of the struct tm that localtime() shares    *)
(* among the threads: another day than today's if another thread has       *)
(* written its own into it (see StatusThread).                             *)
(***************************************************************************)
Dates == 0..today

\* The name of a file is the date.
NewFile(day) == [day |-> day, rows |-> <<>>]

\* Mutant of OpenFile: without a file the thread goes on with its loop.
OpenFileAnyway(from, to) ==
  /\ \/ Goto(from, to) /\ files' = Append(files, NewFile(today))
     \/ Goto(from, "pop") /\ UNCHANGED files
  /\ UNCHANGED <<outputQueue, row, previous, disturbed>>

\* A new file with its headers; or it does not open, and the thread returns.
OpenFile(from, to) ==
  /\ \/ /\ Goto(from, to)
        /\ \E named \in Dates :
             /\ files' = Append(files, NewFile(named))
             /\ disturbed' = (disturbed \/ named # today)
     \/ Goto(from, "done") /\ UNCHANGED <<files, disturbed>>
  /\ UNCHANGED <<outputQueue, row, previous>>

\* Mutant of CrossedMidnight: the new day is copied before it is compared.
CrossedMidnightTooLate(from, yes, no) ==
  /\ Goto(from, no)
  /\ previous' = today
  /\ UNCHANGED <<outputQueue, row, files, disturbed>>

\* crossedMidnight() reads this struct tm twice: to compare it and to copy it.
CrossedMidnight(from, yes, no) ==
  /\ \E compared, copied \in Dates :
       /\ Goto(from, IF previous # compared THEN yes ELSE no)
       /\ previous' = copied
       /\ disturbed' = \/ disturbed \/ {compared, copied} # {today}
                       \/ from = "detect" /\ files[1].day # today
  /\ UNCHANGED <<outputQueue, row, files>>

PopRow ==
  /\ Goto("pop", "midnight")
  /\ outputQueue # <<>>
  /\ row' = Head(outputQueue) /\ outputQueue' = Tail(outputQueue)
  /\ UNCHANGED <<previous, files, disturbed>>

\* Mutant of WriteRow: a file that was just opened gets its headers only.
WriteRowButFirst ==
  /\ Goto("write", "pop")
  /\ files' = IF files[Len(files)].day # row.day THEN files
              ELSE [files EXCEPT ![Len(files)].rows = Append(@, row)]
  /\ row' = None
  /\ UNCHANGED <<outputQueue, previous, disturbed>>

WriteRow ==
  /\ Goto("write", "pop")
  /\ files' = [files EXCEPT ![Len(files)].rows = Append(@, row)]
  /\ row' = None
  /\ UNCHANGED <<outputQueue, previous, disturbed>>

\* The constructor of Detection_Functions ignores what crossedMidnight() says.
CsvStep ==
  /\ \/ OpenFile("open", "detect")
     \/ CrossedMidnight("detect", "pop", "pop")
     \/ PopRow
     \/ CrossedMidnight("midnight", "reopen", "write")
     \/ OpenFile("reopen", "write")
     \/ WriteRow
  /\ UNCHANGED <<today, reports, taken, houseVars>>

-----------------------------------------------------------------------------
CsvTakers == {"csvWeather", "csvStatus"}

Next ==
  \/ (\E k \in ReportKinds : Publish(k)) \/ NewDay
  \/ (\E t \in CsvTakers : PublishRow(t)) \/ CsvStep
  \/ PushObject \/ SendObject

\* A thread that can run does; no report and no midnight is owed.
Spec ==
  /\ Init /\ [][Next]_vars
  /\ \A t \in CsvTakers : WF_vars(PublishRow(t))
  /\ WF_vars(CsvStep) /\ WF_vars(PushObject) /\ WF_vars(SendObject)

-----------------------------------------------------------------------------
\* The rows in the files, the one csvThread has in hand and those in the queue.
Pages ==
  [f \in 1..Len(files) |-> files[f].rows]
    \o << IF row = None THEN <<>> ELSE <<row>>, outputQueue >>

Places == UNION {{p} \X (1..Len(Pages[p])) : p \in 1..Len(Pages)}
RowAt(x) == Pages[x[1]][x[2]]
Before(x, y) == x[1] < y[1] \/ (x[1] = y[1] /\ x[2] < y[2])

(***************************************************************************)
(* Every report of which a row was made is once, and in order with those   *)
(* of its kind, in the files taken together, or still on its way there:    *)
(* only the row csvThread has in hand when a file does not open is lost.   *)
(***************************************************************************)
EachRowOnce ==
  /\ \A t \in CsvTakers :
       {RowAt(x).number : x \in {y \in Places : RowAt(y).kind = Takers[t]}} = 1..taken[t]
  /\ \A x, y \in Places :
       RowAt(x).kind = RowAt(y).kind /\ Before(x, y) => RowAt(x).number < RowAt(y).number

(***************************************************************************)
(* No row is in a file that is named after a day before its own: midnight  *)
(* is looked for after a row was popped and before it is written.  It may  *)
(* be if the struct tm was overwritten, or if midnight came between the    *)
(* opening of the first file and the first look.                           *)
(***************************************************************************)
FileOfTheDay ==
  ~disturbed =>
    \A f \in 1..Len(files) : \A n \in 1..Len(files[f].rows) :
      files[f].rows[n].day <= files[f].day

\* The object a listener makes of bytes.
FromBytes(bytes) ==
  LET after[p \in 0..ElementCount] ==
        IF p = 0 THEN Unnumbered(bytes) ELSE LoadedElement(after[p - 1], p)
  IN after[ElementCount]

\* What a listener is told of a weather report.
Told == {"Index", "Duration", "Humidity", "Pressure", "Temperature",
         "Wind_Direction", "Wind_Speed", "Rain_Fall", "Altitude"}

(***************************************************************************)
(* The nth datagram tells a listener all nine elements of the nth weather  *)
(* report and nothing else: ElementCount is enough for the kinds set.      *)
(***************************************************************************)
DatagramsComplete ==
  \A n \in 1..Len(datagrams) : \A k \in Kinds :
    GetElement(FromBytes(datagrams[n]), k).data = IF k \in Told THEN n ELSE Missing

(***************************************************************************)
(* Each weather report gets into a file and into a datagram, whatever the  *)
(* other outputs do, unless csvThread gives up.                            *)
(***************************************************************************)
EveryReportOut ==
  \A n \in 1..MaxReports["weather"] :
    n <= Len(reports["weather"]) ~>
      /\ Len(datagrams) >= n
      /\ \/ pc = "done"
         \/ \E f \in 1..Len(files) : \E m \in 1..Len(files[f].rows) :
              files[f].rows[m].kind = "weather" /\ files[f].rows[m].number = n
=============================================================================
