------------------------ MODULE WeatherThreadProofs ------------------------
(***************************************************************************)
(* Theorems about WeatherThread for any number of messages, days, speeds   *)
(* and amounts of rain: the mutex is owned by whoever is inside, a report  *)
(* is a snapshot of the array and has the direction of its gust, each      *)
(* message is counted once, and the rainfall adds up from report to report *)
(* and over its day.                                                       *)
(***************************************************************************)
EXTENDS WeatherThread, SumLemmas, SequenceTheorems

USE DEF Last

\* Recording, reading and resetting each go once through the fields.
LEMMA OrderFacts ==
  /\ \A i \in 1..Last : /\ RecordOrder[i] \in Fields
                        /\ PopulateOrder[i] \in Fields
                        /\ ResetOrder[i] \in Fields
  /\ \A i, j \in 1..Last :
       /\ RecordOrder[i] = RecordOrder[j] => i = j
       /\ PopulateOrder[i] = PopulateOrder[j] => i = j
       /\ ResetOrder[i] = ResetOrder[j] => i = j
  /\ \A f \in Sampled :
       /\ \E i \in 1..Last : RecordOrder[i] = f
       /\ \E i \in 1..Last : PopulateOrder[i] = f
       /\ \E i \in 1..Last : ResetOrder[i] = f
  /\ RecordOrder[Last] \notin Sampled /\ PopulateOrder[Last] \notin Sampled
<1> USE DEF Fields, Sampled, Stored
<1>1. /\ \A i \in 1..Last : RecordOrder[i] \in Fields
      /\ \A i, j \in 1..Last : RecordOrder[i] = RecordOrder[j] => i = j
      /\ \A f \in Sampled : \E i \in 1..Last : RecordOrder[i] = f
      /\ RecordOrder[Last] \notin Sampled
  BY DEF RecordOrder
<1>2. /\ \A i \in 1..Last : PopulateOrder[i] \in Fields
      /\ \A i, j \in 1..Last : PopulateOrder[i] = PopulateOrder[j] => i = j
      /\ \A f \in Sampled : \E i \in 1..Last : PopulateOrder[i] = f
      /\ PopulateOrder[Last] \notin Sampled
  BY DEF PopulateOrder
<1>3. /\ \A i \in 1..Last : ResetOrder[i] \in Fields
      /\ \A i, j \in 1..Last : ResetOrder[i] = ResetOrder[j] => i = j
      /\ \A f \in Sampled : \E i \in 1..Last : ResetOrder[i] = f
  BY DEF ResetOrder
<1>4. QED
  BY <1>1, <1>2, <1>3

-----------------------------------------------------------------------------
\* weatherThread has popped a message that it is not through with.
Handling == weatherPc \in {"lock", "record", "clock", "midnight", "zero"}

\* The messages on their way to the array have arrived, and a thread that goes
\* through the fields starts with the first.
OnTheWay ==
  /\ Len(sensed) <= MaxMessages
  /\ weatherQueue \in Seq(Arrived)
  /\ Handling => sensorData \in Arrived
  /\ weatherPc # "record" => weatherField = 1
  /\ uploadPc \notin {"populate", "reset"} => uploadField = 1

LifeInv == TypeOK /\ OnTheWay /\ MutexOwner

\* What TypeOK says of an arrived message.
LEMMA ArrivedFacts ==
  ASSUME TypeOK, OnTheWay
  PROVE  /\ Len(sensed) \in Nat /\ Arrived \subseteq Numbers /\ Numbers \subseteq Nat
         /\ \A i \in Arrived : sensed[i].rain \in Nat
<1>1. Len(sensed) \in Nat /\ \A i \in Arrived : sensed[i] \in Messages
  BY DEF TypeOK, Arrived
<1>2. Arrived \subseteq Numbers /\ Numbers \subseteq Nat
  BY <1>1, ConstantsAssumption DEF OnTheWay, Arrived, Numbers
<1>3. \A m \in Messages : m.rain \in Nat
  BY ConstantsAssumption DEF Messages
<1>4. QED
  BY <1>1, <1>2, <1>3

\* A recorded message keeps the types of the array.
LEMMA RecordType ==
  ASSUME TypeOK, OnTheWay, RecordField
  PROVE  /\ included' \in [Sampled -> Seq(Numbers)] /\ averaged' \in [Sampled -> Seq(Numbers)]
         /\ newMax' \in BOOLEAN
         /\ stored' \in [Stored -> Int]
<1>1. sensorData \in Numbers /\ sensorData \in Nat /\ sensed[sensorData].rain \in Nat
  BY ArrivedFacts DEF RecordField, OnTheWay, Handling
<1> DEFINE f == RecordOrder[weatherField]
<1>2. CASE IncludeValue(f)
  <2>1. included' \in [Sampled -> Seq(Numbers)] /\ averaged' \in [Sampled -> Seq(Numbers)]
    <3>1. \A g \in Sampled : Append(included[g], sensorData) \in Seq(Numbers)
      BY <1>1 DEF TypeOK
    <3> QED BY <1>2, <3>1 DEF IncludeValue, TypeOK
  <2>2. newMax' \in BOOLEAN
    BY <1>2 DEF IncludeValue, TypeOK
  <2>3. QED
    BY <1>2, <2>1, <2>2 DEF IncludeValue, TypeOK
<1>3. CASE StoreValue(f)
  <2>1. stored' \in [Stored -> Int]
    <3>1. CASE f = "Rainfall"
      BY <1>1, <1>3, <3>1 DEF StoreValue, TypeOK, Stored
    <3>2. CASE f = "WindDirectionAtMaxSpeed"
      BY <1>1, <1>3, <3>2 DEF StoreValue, TypeOK, Stored
    <3>3. QED
      BY <1>3, <3>1, <3>2 DEF StoreValue, Stored
  <2>2. QED
    BY <1>3, <2>1 DEF StoreValue, TypeOK
<1>4. QED
  BY <1>2, <1>3 DEF RecordField

\* A report that is being made is a report.
LEMMA PopulatedType ==
  ASSUME TypeOK, NEW f \in Fields
  PROVE  Populated(f) \in Reports
<1>1. CASE f \in Sampled
  <2>1. Populated(f).max \in Seq(Numbers)
    BY <1>1 DEF Populated, TypeOK, Reports, Sampled
  <2> QED BY <1>1 DEF Populated, TypeOK, Reports, Sampled
<1>2. CASE f = "Rainfall"
  <2>1. Settled \in Nat
    <3>1. CASE sensorData \in Numbers
      BY <3>1, ConstantsAssumption DEF Settled, Numbers
    <3>2. CASE sensorData = None
      BY <3>2 DEF Settled
    <3> QED BY <3>1, <3>2 DEF TypeOK
  <2> HIDE DEF Settled
  <2> QED BY <1>2, <2>1 DEF Populated, TypeOK, Reports, Sampled, Stored
<1>3. CASE f = "WindDirectionAtMaxSpeed"
  BY <1>3 DEF Populated, TypeOK, Reports, Sampled, Stored
<1>4. QED
  BY <1>1, <1>2, <1>3 DEF Fields, Stored

\* Publishing a report keeps the types of what is known of reports.
LEMMA PublishType ==
  ASSUME TypeOK, NEW r \in Reports, Publish(r)
  PROVE  /\ {lastReport', priorReport'} \subseteq Reports
         /\ timesReported' \in [Numbers -> Nat]
<1>1. \A i \in Numbers : timesReported[i] + (IF InReport(r, i) THEN 1 ELSE 0) \in Nat
  BY DEF TypeOK
<1>2. QED
  BY <1>1 DEF Publish, TypeOK

\* The report before the first is a report.
LEMMA NoReportType == NoReport \in Reports
<1>1. Empty \in [Sampled -> Seq(Numbers)]
  BY DEF Empty
<1>2. QED
  BY <1>1, ConstantsAssumption DEF NoReport, Reports, Days

-----------------------------------------------------------------------------
\* Type correctness, together with who owns the mutex.
THEOREM TypeAndMutex == SafeSpec => []LifeInv
<1>1. Init => LifeInv
  <2> SUFFICES ASSUME Init PROVE LifeInv
    OBVIOUS
  <2>1. Empty \in [Sampled -> Seq(Numbers)]
    BY DEF Empty
  <2>2. stored \in [Stored -> Int]
    BY ConstantsAssumption DEF Init
  <2>3. TypeOK
    <3>1. sensed \in Seq(Messages) /\ weatherQueue \in Seq(Numbers)
      BY DEF Init
    <3>2. {report, lastReport, priorReport} \subseteq Reports
      BY NoReportType DEF Init
    <3>3. /\ today \in Days /\ previousDay \in Days /\ rawDay \in Days
          /\ checkedOn \in [Numbers -> Days] /\ raced \in BOOLEAN
      <4>1. 0 \in Days
        BY ConstantsAssumption DEF Days
      <4> QED BY <4>1 DEF Init
    <3>4. timesReported \in [Numbers -> Nat]
      BY DEF Init
    <3>5. /\ included \in [Sampled -> Seq(Numbers)] /\ averaged \in [Sampled -> Seq(Numbers)]
          /\ newMax \in BOOLEAN
      BY <2>1 DEF Init
    <3>6. /\ serverRunning \in {0, 1} /\ uploadMutex = None
          /\ weatherPc = "check" /\ weatherField \in 1..Last /\ sensorData = None
          /\ uploadPc = "check" /\ uploadField \in 1..Last /\ midnights \in Nat
      BY DEF Init
    <3>7. QED
      BY <2>2, <3>1, <3>2, <3>3, <3>4, <3>5, <3>6 DEF TypeOK
  <2>4. OnTheWay
    BY EmptySeq, ConstantsAssumption DEF Init, OnTheWay, Handling
  <2>5. MutexOwner
    BY ConstantsAssumption DEF Init, MutexOwner
  <2>6. QED
    BY <2>3, <2>4, <2>5 DEF LifeInv
<1>2. LifeInv /\ [Next]_vars => LifeInv'
  <2> SUFFICES ASSUME LifeInv, [Next]_vars PROVE LifeInv'
    OBVIOUS
  <2>0. TypeOK /\ OnTheWay /\ MutexOwner
    BY DEF LifeInv
  <2> USE DEF weatherVars, uploadVars, dataVars, aroundVars, reportVars, dayVars, Handling
  <2>1. CASE Arrive
    <3>1. sensed' \in Seq(Messages) /\ Len(sensed') = Len(sensed) + 1 /\ Len(sensed') \in 0..MaxMessages
      BY <2>0, <2>1, ConstantsAssumption DEF Arrive, TypeOK, Messages
    <3>2. Arrived \subseteq Arrived' /\ Len(sensed) + 1 \in Arrived'
      BY <2>0, <3>1, ArrivedFacts DEF Arrived
    <3>3. weatherQueue' \in Seq(Arrived')
      BY <2>0, <2>1, <3>2 DEF Arrive, OnTheWay
    <3>4. Arrived' \subseteq Numbers
      BY <3>1, ConstantsAssumption DEF Arrived, Numbers
    <3>5. weatherQueue' \in Seq(Numbers)
      BY <3>3, <3>4
    <3>6. TypeOK'
      BY <2>0, <2>1, <3>1, <3>5 DEF Arrive, TypeOK
    <3>7. OnTheWay'
      BY <2>0, <2>1, <3>1, <3>2, <3>3, ConstantsAssumption DEF Arrive, OnTheWay
    <3>8. QED
      BY <2>0, <2>1, <3>6, <3>7 DEF Arrive, LifeInv, MutexOwner
  <2>2. CASE Reset
    BY <2>0, <2>2 DEF Reset, LifeInv, TypeOK, OnTheWay, MutexOwner, Arrived
  <2>3. CASE NewDay
    BY <2>0, <2>3, ConstantsAssumption DEF NewDay, LifeInv, TypeOK, OnTheWay, MutexOwner, Arrived, Days
  <2>4. CASE WeatherCheck
    BY <2>0, <2>4 DEF WeatherCheck, LifeInv, TypeOK, OnTheWay, MutexOwner, Arrived
  <2>5. CASE PopMessage
    <3>1. Head(weatherQueue) \in Arrived /\ Tail(weatherQueue) \in Seq(Arrived)
      BY <2>0, <2>5 DEF PopMessage, OnTheWay
    <3>2. Arrived \subseteq Numbers /\ Tail(weatherQueue) \in Seq(Numbers)
      BY <2>0, <2>5, ArrivedFacts DEF PopMessage, TypeOK
    <3>3. QED
      BY <2>0, <2>5, <3>1, <3>2 DEF PopMessage, LifeInv, TypeOK, OnTheWay, MutexOwner, Arrived
  <2>6. CASE LockRecord
    BY <2>0, <2>6, ConstantsAssumption
    DEF LockRecord, LifeInv, TypeOK, OnTheWay, MutexOwner, Arrived
  <2>7. CASE RecordField
    <3>1. /\ included' \in [Sampled -> Seq(Numbers)] /\ averaged' \in [Sampled -> Seq(Numbers)]
          /\ newMax' \in BOOLEAN /\ stored' \in [Stored -> Int]
      BY <2>0, <2>7, RecordType
    <3>2. TypeOK'
      BY <2>0, <2>7, <3>1 DEF RecordField, TypeOK
    <3>3. OnTheWay' /\ MutexOwner'
      BY <2>0, <2>7, ConstantsAssumption DEF RecordField, TypeOK, OnTheWay, MutexOwner, Arrived
    <3>4. QED
      BY <3>2, <3>3 DEF LifeInv
  <2>8. CASE CrossedMidnight
    <3>1. \A d \in 0..today : d \in Days
      BY <2>0, ConstantsAssumption DEF TypeOK, Days
    <3>2. 0 \in Days
      BY ConstantsAssumption DEF Days
    <3>3. TypeOK'
      BY <2>0, <2>8, <3>1, <3>2 DEF CrossedMidnight, TypeOK
    <3> QED BY <2>0, <2>8, <3>3 DEF CrossedMidnight, LifeInv, OnTheWay, MutexOwner, Arrived
  <2>9. CASE ZeroRainfall
    <3>1. stored' \in [Stored -> Int] /\ midnights' \in Nat
      <4>1. stored \in [Stored -> Int] /\ midnights \in Nat
        BY <2>0 DEF TypeOK
      <4>2. stored' = [stored EXCEPT !["Rainfall"] = 0] /\ midnights' = midnights + 1
        BY <2>9 DEF ZeroRainfall
      <4>3. [stored EXCEPT !["Rainfall"] = 0] \in [Stored -> Int]
        <5>1. \A f \in Stored : [stored EXCEPT !["Rainfall"] = 0][f] \in Int
          BY <4>1
        <5> QED BY <4>1, <5>1
      <4>4. QED
        BY <4>1, <4>2, <4>3, 0 \in Nat, 1 \in Nat
    <3>2. /\ weatherPc = "zero" /\ weatherPc' = "check"
          /\ UNCHANGED <<serverRunning, aroundVars, weatherQueue, uploadMutex, weatherField,
                         sensorData, rawDay, previousDay, uploadVars, included, averaged,
                         newMax, reportVars, checkedOn, raced>>
      BY <2>9 DEF ZeroRainfall
    <3>3. TypeOK'
      BY <2>0, <3>1, <3>2 DEF TypeOK
    <3>4. QED
      BY <2>0, <3>2, <3>3 DEF LifeInv, OnTheWay, MutexOwner, Arrived
  <2>10. CASE JoinUpload
    BY <2>0, <2>10 DEF JoinUpload, LifeInv, TypeOK, OnTheWay, MutexOwner, Arrived
  <2>11. CASE UploadCheck
    BY <2>0, <2>11 DEF UploadCheck, LifeInv, TypeOK, OnTheWay, MutexOwner, Arrived
  <2>12. CASE UploadWake
    BY <2>0, <2>12 DEF UploadWake, LifeInv, TypeOK, OnTheWay, MutexOwner, Arrived
  <2>13. CASE LockUpload
    BY <2>0, <2>13, ConstantsAssumption
    DEF LockUpload, LifeInv, TypeOK, OnTheWay, MutexOwner, Arrived
  <2>14. CASE PopulateField
    <3> DEFINE r == Populated(PopulateOrder[uploadField])
    <3>1. r \in Reports
      BY <2>0, OrderFacts, PopulatedType DEF TypeOK
    <3> HIDE DEF r
    <3>2. CASE uploadField < Last
      <4>1. report' = r /\ uploadField' = uploadField + 1 /\ UNCHANGED <<uploadPc, reportVars>>
        BY <2>14, <3>2 DEF PopulateField, r
      <4>2. QED
        BY <2>0, <2>14, <3>1, <3>2, <4>1
        DEF PopulateField, LifeInv, TypeOK, OnTheWay, MutexOwner, Arrived
    <3>3. CASE ~(uploadField < Last)
      <4>1. Publish(r) /\ report' = NoReport /\ uploadField' = 1 /\ uploadPc' = "reset"
        BY <2>14, <3>3 DEF PopulateField, r
      <4>2. {report', lastReport', priorReport'} \subseteq Reports /\ timesReported' \in [Numbers -> Nat]
        BY <2>0, <3>1, <4>1, PublishType, NoReportType
      <4>3. QED
        BY <2>0, <2>14, <4>1, <4>2
        DEF PopulateField, LifeInv, TypeOK, OnTheWay, MutexOwner, Arrived
    <3>4. QED
      BY <3>2, <3>3
  <2>15. CASE ResetField
    <3>1. included' \in [Sampled -> Seq(Numbers)]
      BY <2>0, <2>15, EmptySeq DEF ResetField, TypeOK
    <3>2. TypeOK'
      BY <2>0, <2>15, <3>1 DEF ResetField, TypeOK
    <3>3. OnTheWay' /\ MutexOwner'
      BY <2>0, <2>15, ConstantsAssumption DEF ResetField, TypeOK, OnTheWay, MutexOwner, Arrived
    <3>4. QED
      BY <3>2, <3>3 DEF LifeInv
  <2>16. CASE ReadClock
    <3>1. checkedOn' \in [Numbers -> Days]
      BY <2>0, <2>16 DEF ReadClock, TypeOK
    <3>2. TypeOK'
      BY <2>0, <2>16, <3>1 DEF ReadClock, TypeOK
    <3> QED BY <2>0, <2>16, <3>2 DEF ReadClock, LifeInv, OnTheWay, MutexOwner, Arrived
  <2>17. CASE UNCHANGED vars
    BY <2>0, <2>17 DEF vars, LifeInv, TypeOK, OnTheWay, MutexOwner, Arrived
  <2>18. QED
    BY <2>1, <2>2, <2>3, <2>4, <2>5, <2>6, <2>7, <2>8, <2>9, <2>10, <2>11, <2>12,
       <2>13, <2>14, <2>15, <2>16, <2>17 DEF Next, WeatherStep, UploadStep
<1>3. QED
  BY <1>1, <1>2, PTL DEF SafeSpec

\* Each thread owns the mutex exactly while it is inside a critical section.
THEOREM MutexIsOwned == SafeSpec => []MutexOwner
<1>1. LifeInv => MutexOwner
  BY DEF LifeInv
<1>2. QED
  BY <1>1, TypeAndMutex, PTL

-----------------------------------------------------------------------------
(* Reports are snapshots *)

\* All the sampled fields hold the messages of one window.
OneWindow == \A f, g \in Sampled : included[f] = included[g]

\* The mean of a field is of the messages included, or is that of the last
\* report, which reset() keeps until the first message comes.
MeansKept ==
  \A f \in Sampled :
    averaged[f] = IF included[f] = <<>> THEN lastReport.mean[f] ELSE included[f]

\* The fields that RecordField has come to hold one message more than the others, ...
Recording ==
  weatherPc = "record" =>
    \E window \in Seq(Numbers) :
      \A i \in 1..Last :
        RecordOrder[i] \in Sampled =>
          included[RecordOrder[i]] =
            IF i < weatherField THEN Append(window, sensorData) ELSE window

\* ... those that PopulateField has come to are in the report as they are, ...
Populating ==
  uploadPc = "populate" =>
    /\ OneWindow
    /\ \A i \in 1..(uploadField - 1) :
         PopulateOrder[i] \in Sampled =>
           report.mean[PopulateOrder[i]] = averaged[PopulateOrder[i]]
    /\ uploadField > 4 => report.max = included["WindSpeed"]

\* ... and those that ResetField has come to are empty, while their mean stays.
Resetting ==
  uploadPc = "reset" =>
    /\ \A f \in Sampled : averaged[f] = lastReport.mean[f]
    /\ \A i \in 1..(uploadField - 1) :
         ResetOrder[i] \in Sampled => included[ResetOrder[i]] = <<>>
    /\ \A i, j \in uploadField..Last :
         ResetOrder[i] \in Sampled /\ ResetOrder[j] \in Sampled =>
           included[ResetOrder[i]] = included[ResetOrder[j]]

Snapshot ==
  /\ uploadMutex = None => OneWindow
  /\ MeansKept /\ Recording /\ Populating /\ Resetting
  /\ ReportIsSnapshot

\* Recording one more field, ...
LEMMA RecordKeepsSnapshot ==
  ASSUME LifeInv, Snapshot, RecordField
  PROVE  Snapshot'
<1> DEFINE k == weatherField
<1>0. /\ weatherPc = "record" /\ uploadMutex = "weather"
      /\ uploadPc \notin {"populate", "reset"} /\ uploadPc' = uploadPc
      /\ k \in 1..Last /\ included \in [Sampled -> Seq(Numbers)]
      /\ sensorData' = sensorData
  BY ConstantsAssumption DEF RecordField, uploadVars, LifeInv, TypeOK, MutexOwner
<1>1. PICK window \in Seq(Numbers) :
        \A i \in 1..Last :
          RecordOrder[i] \in Sampled =>
            included[RecordOrder[i]] = IF i < k THEN Append(window, sensorData) ELSE window
  BY <1>0 DEF Snapshot, Recording
<1>2. \A i \in 1..Last :
        RecordOrder[i] \in Sampled =>
          included'[RecordOrder[i]] = IF i < k + 1 THEN Append(window, sensorData) ELSE window
  <2>1. CASE IncludeValue(RecordOrder[k])
    <3>1. included' = [included EXCEPT ![RecordOrder[k]] = Append(@, sensorData)]
      BY <2>1 DEF IncludeValue
    <3>2. \A i \in 1..Last : RecordOrder[i] = RecordOrder[k] => i = k
      BY <1>0, OrderFacts
    <3>3. QED
      BY <1>0, <1>1, <3>1, <3>2
  <2>2. CASE StoreValue(RecordOrder[k])
    <3>1. RecordOrder[k] \notin Sampled /\ included' = included
      BY <2>2 DEF StoreValue, Stored, Sampled
    <3>2. QED
      BY <1>0, <1>1, <3>1
  <2>3. QED
    BY <2>1, <2>2 DEF RecordField
<1>3. ReportIsSnapshot' /\ Populating' /\ Resetting'
  BY <1>0 DEF RecordField, reportVars, Snapshot, ReportIsSnapshot, Populating, Resetting
<1>k. MeansKept'
  <2>1. lastReport' = lastReport /\ MeansKept
    BY DEF RecordField, reportVars, Snapshot
  <2>2. CASE IncludeValue(RecordOrder[k])
    <3> DEFINE f == RecordOrder[k]
    <3>1. /\ included' = [included EXCEPT ![f] = Append(@, sensorData)]
          /\ averaged' = [averaged EXCEPT ![f] = Append(included[f], sensorData)]
          /\ averaged \in [Sampled -> Seq(Numbers)] /\ f \in Sampled
      BY <2>2 DEF IncludeValue, LifeInv, TypeOK
    <3>2. Append(included[f], sensorData) # <<>>
      <4>1. included[f] \in Seq(Numbers)
        BY <1>0, <3>1
      <4> HIDE DEF f
      <4> QED BY <4>1
    <3> HIDE DEF f
    <3>3. included'[f] = Append(included[f], sensorData) /\ averaged'[f] = included'[f]
      BY <1>0, <3>1
    <3>4. \A g \in Sampled : g # f => included'[g] = included[g] /\ averaged'[g] = averaged[g]
      BY <1>0, <3>1
    <3> QED BY <2>1, <3>2, <3>3, <3>4 DEF MeansKept
  <2>3. CASE StoreValue(RecordOrder[k])
    BY <2>1, <2>3 DEF StoreValue, MeansKept
  <2> QED BY <2>2, <2>3 DEF RecordField
<1>4. CASE k < Last
  <2>1. weatherField' = k + 1 /\ uploadMutex' = uploadMutex
    BY <1>4 DEF RecordField
  <2>2. Recording'
    BY <1>0, <1>2, <2>1 DEF Recording
  <2>3. QED
    BY <1>0, <1>3, <1>k, <2>1, <2>2, ConstantsAssumption DEF Snapshot
<1>5. CASE ~(k < Last)
  <2>1. k = Last /\ weatherPc' = "clock"
    BY <1>0, <1>5 DEF RecordField
  <2>2. \A i \in 1..Last :
          RecordOrder[i] \in Sampled => included'[RecordOrder[i]] = Append(window, sensorData)
    BY <1>2, <2>1
  <2>3. \A f \in Sampled : included'[f] = Append(window, sensorData)
    BY <2>2, OrderFacts
  <2>4. OneWindow'
    BY <2>3 DEF OneWindow
  <2>5. QED
    BY <1>3, <1>k, <2>1, <2>4 DEF Snapshot, Recording
<1>6. QED
  BY <1>4, <1>5

\* ... reading one more, ...
LEMMA PopulateKeepsSnapshot ==
  ASSUME LifeInv, Snapshot, PopulateField
  PROVE  Snapshot'
<1> DEFINE k == uploadField
           f == PopulateOrder[k]
<1>0. /\ uploadPc = "populate" /\ uploadMutex = "upload"
      /\ weatherPc # "record" /\ weatherPc' = weatherPc
      /\ k \in 1..Last /\ report \in Reports /\ f \in Fields
      /\ UNCHANGED <<included, averaged, uploadMutex>>
      /\ averaged \in [Sampled -> Seq(Numbers)] /\ lastReport \in Reports
  BY ConstantsAssumption, OrderFacts
  DEF PopulateField, weatherVars, dataVars, LifeInv, TypeOK, MutexOwner
<1>1. OneWindow /\ OneWindow'
  BY <1>0 DEF Snapshot, Populating, OneWindow
<1>2. \A i \in 1..k :
        PopulateOrder[i] \in Sampled =>
          Populated(f).mean[PopulateOrder[i]] = averaged[PopulateOrder[i]]
  <2>1. \A i \in 1..(k - 1) :
          PopulateOrder[i] \in Sampled =>
            report.mean[PopulateOrder[i]] = averaged[PopulateOrder[i]]
    BY <1>0 DEF Snapshot, Populating
  <2>2. CASE f \in Sampled
    <3>1. Populated(f).mean = [report.mean EXCEPT ![f] = averaged[f]]
      BY <1>0, <2>2 DEF Populated, Sampled, Reports
    <3>2. \A i \in 1..k : i # k => i \in 1..(k - 1)
      BY <1>0
    <3>3. report.mean \in [Sampled -> Seq(Numbers)]
      BY <1>0 DEF Reports
    <3>4. QED
      BY <2>1, <2>2, <3>1, <3>2, <3>3
  <2>3. CASE f \notin Sampled
    <3>1. Populated(f).mean = report.mean
      BY <1>0, <2>3 DEF Populated, Reports, Fields, Stored, Sampled
    <3>2. \A i \in 1..k : PopulateOrder[i] \in Sampled => i \in 1..(k - 1)
      BY <1>0, <2>3
    <3>3. QED
      BY <2>1, <3>1, <3>2
  <2>4. QED
    BY <2>2, <2>3
<1>k. k + 1 > 4 => Populated(f).max = included["WindSpeed"]
  <2>1. CASE k = 4
    <3>1. f = "WindSpeed"
      BY <2>1 DEF PopulateOrder
    <3> QED BY <1>0, <3>1 DEF Populated, Reports
  <2>2. CASE k > 4
    <3>1. f \in Fields \ {"WindSpeed"}
      BY <1>0, <2>2 DEF PopulateOrder, Fields, Sampled, Stored
    <3>2. Populated(f).max = report.max
      BY <1>0, <3>1 DEF Populated, Reports, Fields, Sampled, Stored
    <3> QED BY <1>0, <2>2, <3>2 DEF Snapshot, Populating
  <2> QED BY <1>0, <2>1, <2>2
<1>3. Recording'
  BY <1>0 DEF Recording
<1> HIDE DEF f
<1>4. CASE k < Last
  <2>1. report' = Populated(f) /\ uploadField' = k + 1 /\ UNCHANGED <<uploadPc, reportVars>>
    BY <1>4 DEF PopulateField, f
  <2>2. Populating'
    BY <1>0, <1>1, <1>2, <1>k, <2>1 DEF Populating
  <2>3. Resetting' /\ ReportIsSnapshot' /\ MeansKept'
    BY <1>0, <2>1 DEF Resetting, ReportIsSnapshot, MeansKept, Snapshot, reportVars
  <2>4. QED
    BY <1>1, <1>3, <2>2, <2>3 DEF Snapshot
<1>5. CASE ~(k < Last)
  <2>1. /\ k = Last /\ lastReport' = Populated(f) /\ priorReport' = lastReport
        /\ uploadField' = 1 /\ uploadPc' = "reset"
    BY <1>0, <1>5 DEF PopulateField, Publish, f
  <2>2. \A g \in Sampled : lastReport'.mean[g] = averaged[g]
    BY <1>2, <2>1, OrderFacts
  <2>3. lastReport'.max = included["WindSpeed"]
    BY <1>k, <2>1
  <2>4. "WindSpeed" \in Sampled /\ MeansKept
    BY DEF Snapshot, Sampled
  <2>5. \A g \in Sampled : included[g] = included["WindSpeed"]
    BY <1>1, <2>4 DEF OneWindow
  <2>6. CASE included["WindSpeed"] = <<>>
    <3>1. \A g \in Sampled : averaged[g] = lastReport.mean[g]
      BY <2>4, <2>5, <2>6 DEF MeansKept
    <3>2. lastReport' \in Reports
      BY <1>0, <2>1, PopulatedType DEF LifeInv
    <3>3. lastReport'.mean = lastReport.mean
      BY <1>0, <2>2, <3>1, <3>2 DEF Reports
    <3>4. ReportIsSnapshot'
      BY <2>1, <2>3, <2>6, <3>3 DEF Snapshot, ReportIsSnapshot
    <3>5. MeansKept'
      BY <1>0, <2>4, <3>3 DEF MeansKept
    <3>6. Resetting' /\ Populating'
      BY <1>0, <1>1, <2>1, <2>2 DEF Resetting, Populating, OneWindow
    <3> QED BY <1>1, <1>3, <3>4, <3>5, <3>6 DEF Snapshot
  <2>7. CASE included["WindSpeed"] # <<>>
    <3>1. \A g \in Sampled : averaged[g] = included["WindSpeed"] /\ included[g] # <<>>
      BY <2>4, <2>5, <2>7 DEF MeansKept
    <3>2. ReportIsSnapshot'
      BY <2>2, <2>3, <2>4, <2>7, <3>1 DEF ReportIsSnapshot
    <3>3. MeansKept'
      BY <1>0, <2>4, <3>1 DEF MeansKept
    <3>4. Resetting' /\ Populating'
      BY <1>0, <1>1, <2>1, <2>2 DEF Resetting, Populating, OneWindow
    <3> QED BY <1>1, <1>3, <3>2, <3>3, <3>4 DEF Snapshot
  <2> QED BY <2>6, <2>7
<1>6. QED
  BY <1>4, <1>5

\* ... and resetting one more.
LEMMA ResetKeepsSnapshot ==
  ASSUME LifeInv, Snapshot, ResetField
  PROVE  Snapshot'
<1> DEFINE k == uploadField
           f == ResetOrder[k]
<1>0. /\ uploadPc = "reset" /\ weatherPc # "record" /\ weatherPc' = weatherPc
      /\ uploadMutex = "upload" /\ k \in 1..Last /\ included \in [Sampled -> Seq(Numbers)]
      /\ UNCHANGED <<lastReport, priorReport, averaged>>
  BY ConstantsAssumption DEF ResetField, weatherVars, reportVars, LifeInv, TypeOK, MutexOwner
<1>1. \A g \in Sampled : included'[g] = IF g = f THEN <<>> ELSE included[g]
  BY <1>0 DEF ResetField
<1>2. \A i \in 1..k : ResetOrder[i] \in Sampled => included'[ResetOrder[i]] = <<>>
  BY <1>0, <1>1 DEF Snapshot, Resetting
<1>3. Recording' /\ ReportIsSnapshot' /\ MeansKept'
  <2>1. Recording' /\ ReportIsSnapshot'
    BY <1>0 DEF Recording, ReportIsSnapshot, Snapshot
  <2>2. \A g \in Sampled : averaged[g] = lastReport.mean[g]
    BY <1>0 DEF Snapshot, Resetting
  <2>3. MeansKept'
    BY <1>0, <1>1, <2>2 DEF Snapshot, MeansKept
  <2> QED BY <2>1, <2>3
<1>4. CASE k < Last
  <2>1. uploadField' = k + 1 /\ uploadPc' = uploadPc /\ uploadMutex' = uploadMutex
    BY <1>4 DEF ResetField
  <2>2. \A i \in (k + 1)..Last :
          ResetOrder[i] \in Sampled => included'[ResetOrder[i]] = included[ResetOrder[i]]
    BY <1>0, <1>1, OrderFacts
  <2>3. Resetting'
    BY <1>0, <1>2, <2>1, <2>2 DEF Resetting, Snapshot
  <2>4. QED
    BY <1>0, <1>3, <2>1, <2>3, ConstantsAssumption DEF Snapshot, Populating
<1>5. CASE ~(k < Last)
  <2>1. k = Last /\ uploadPc' = "check"
    BY <1>0, <1>5 DEF ResetField
  <2>2. OneWindow'
    BY <1>2, <2>1, OrderFacts DEF OneWindow
  <2>3. QED
    BY <1>3, <2>1, <2>2 DEF Snapshot, Populating, Resetting
<1>6. QED
  BY <1>4, <1>5

\* No other step touches the sampled fields, and taking the mutex finds them equal.
LEMMA OthersKeepSnapshot ==
  ASSUME LifeInv, Snapshot,
         UNCHANGED <<included, averaged, lastReport, priorReport, report, uploadField>>,
         \/ UNCHANGED <<uploadMutex, weatherField, sensorData>>
            /\ (weatherPc' = "record" <=> weatherPc = "record")
            /\ (uploadPc' = "populate" <=> uploadPc = "populate")
            /\ (uploadPc' = "reset" <=> uploadPc = "reset")
         \/ LockRecord \/ LockUpload \/ PopMessage
  PROVE  Snapshot'
<1>0. MeansKept'
  BY DEF Snapshot, MeansKept
<1>1. CASE LockRecord
  <2>1. OneWindow /\ weatherField' = 1 /\ uploadMutex' = "weather" /\ uploadPc' = uploadPc
        /\ included \in [Sampled -> Seq(Numbers)] /\ uploadPc \notin {"populate", "reset"}
    BY <1>1, ConstantsAssumption
    DEF LockRecord, Snapshot, LifeInv, OnTheWay, TypeOK, MutexOwner, uploadVars
  <2>2. Recording'
    <3>1. "Humidity" \in Sampled
      BY DEF Sampled
    <3>2. \A i \in 1..Last :
            RecordOrder[i] \in Sampled => included'[RecordOrder[i]] = included["Humidity"]
      BY <2>1, <3>1 DEF OneWindow
    <3>3. QED
      BY <2>1, <3>1, <3>2 DEF Recording
  <2>3. QED
    BY <1>0, <2>1, <2>2, ConstantsAssumption
    DEF Snapshot, Populating, Resetting, ReportIsSnapshot
<1>2. CASE LockUpload
  <2>1. OneWindow /\ uploadField' = 1 /\ uploadMutex' = "upload" /\ uploadPc' = "populate"
        /\ weatherPc' = weatherPc /\ weatherPc # "record"
    BY <1>2, ConstantsAssumption
    DEF LockUpload, Snapshot, LifeInv, OnTheWay, MutexOwner, weatherVars
  <2>2. QED
    BY <1>0, <2>1, ConstantsAssumption
    DEF Snapshot, Recording, Populating, Resetting, ReportIsSnapshot, OneWindow
<1>3. CASE PopMessage
  BY <1>0, <1>3 DEF PopMessage, Snapshot, Recording, Populating, Resetting, ReportIsSnapshot,
              OneWindow, uploadVars
<1>4. CASE ~(LockRecord \/ LockUpload \/ PopMessage)
  BY <1>0, <1>4 DEF Snapshot, Recording, Populating, Resetting, ReportIsSnapshot, OneWindow
<1>5. QED
  BY <1>1, <1>2, <1>3, <1>4

\* Snapshot holds throughout.
LEMMA AlwaysSnapshot == SafeSpec => []Snapshot
<1>1. Init => Snapshot
  BY DEF Init, Snapshot, OneWindow, MeansKept, Recording, Populating, Resetting,
         ReportIsSnapshot, NoReport, Empty
<1>2. LifeInv /\ Snapshot /\ [Next]_vars => Snapshot'
  <2> SUFFICES ASSUME LifeInv, Snapshot, [Next]_vars PROVE Snapshot'
    OBVIOUS
  <2> USE DEF weatherVars, uploadVars, dataVars, reportVars
  <2>1. CASE Arrive \/ Reset \/ NewDay
    BY <2>1, OthersKeepSnapshot DEF Arrive, Reset, NewDay
  <2>2. CASE WeatherCheck \/ ReadClock \/ CrossedMidnight \/ ZeroRainfall \/ JoinUpload
    BY <2>2, OthersKeepSnapshot
    DEF WeatherCheck, ReadClock, CrossedMidnight, ZeroRainfall, JoinUpload
  <2>3. CASE UploadCheck \/ UploadWake
    BY <2>3, OthersKeepSnapshot DEF UploadCheck, UploadWake
  <2>4. CASE PopMessage \/ LockRecord
    BY <2>4, OthersKeepSnapshot DEF PopMessage, LockRecord
  <2>5. CASE LockUpload
    BY <2>5, OthersKeepSnapshot DEF LockUpload
  <2>6. CASE RecordField
    BY <2>6, RecordKeepsSnapshot
  <2>7. CASE PopulateField
    BY <2>7, PopulateKeepsSnapshot
  <2>8. CASE ResetField
    BY <2>8, ResetKeepsSnapshot
  <2>9. CASE UNCHANGED vars
    BY <2>9, OthersKeepSnapshot DEF vars
  <2>10. QED
    BY <2>1, <2>2, <2>3, <2>4, <2>5, <2>6, <2>7, <2>8, <2>9 DEF Next, WeatherStep, UploadStep
<1>3. QED
  BY <1>1, <1>2, TypeAndMutex, PTL DEF SafeSpec

\* For any number of messages, every report is a snapshot of the array: although
\* its fields are recorded, read and reset one by one, its means and its maximum
\* are of the same messages, and when there were none since the last report the
\* means are those of that report, which reset() has kept.
THEOREM ReportsAreSnapshots == SafeSpec => []ReportIsSnapshot
<1>1. Snapshot => ReportIsSnapshot
  BY DEF Snapshot
<1>2. QED
  BY <1>1, AlwaysSnapshot, PTL

-----------------------------------------------------------------------------
(* Every message in one report *)

\* The messages that weatherThread has popped are 1..Taken, the others wait in
\* order, and the one in hand is the last popped.
Taken == Len(sensed) - Len(weatherQueue)

InOrder ==
  /\ Taken >= 0
  /\ \A j \in 1..Len(weatherQueue) : weatherQueue[j] = Taken + j
  /\ Handling \/ sensorData # None => sensorData = Taken

Open == Range(included["Humidity"])

\* recordWeatherData has included the message in hand.
InHand == weatherPc = "record" /\ weatherField > 1

\* A recorded message is in the window or reported; a message is in the window
\* from when it is included; and what is not recorded is not reported.
Tally ==
  /\ \A i \in Recorded :
       timesReported[i] = IF uploadPc # "reset" /\ i \in Open THEN 0 ELSE 1
  /\ \A i \in Numbers : i \notin Recorded => timesReported[i] = 0
  /\ \A i \in Open : i \in Recorded \/ (InHand /\ i = sensorData)
  /\ InHand => sensorData \in Open

\* An appended element joins the elements of a sequence.
LEMMA RangeOfAppend ==
  ASSUME NEW S, NEW s \in Seq(S), NEW e
  PROVE  Range(Append(s, e)) = Range(s) \cup {e}
<1> DEFINE t == Append(s, e)
<1>1. /\ Len(s) \in Nat /\ DOMAIN s = 1..Len(s) /\ DOMAIN t = 1..(Len(s) + 1)
      /\ t[Len(s) + 1] = e /\ \A j \in 1..Len(s) : t[j] = s[j]
  OBVIOUS
<1> HIDE DEF t
<1>2. \A x : x \in Range(t) <=> x \in Range(s) \cup {e}
  BY <1>1 DEF Range
<1> QED BY <1>2 DEF t

\* The messages that are recorded.
LEMMA RecordedIs ==
  ASSUME LifeInv, InOrder
  PROVE  /\ Taken \in Nat /\ Len(sensed) \in Nat /\ Len(weatherQueue) \in Nat
         /\ \A i : i \in Recorded <=>
              i \in 1..Taken /\ (weatherPc \in {"lock", "record"} => i # Taken)
<1>1. /\ Len(sensed) \in Nat /\ Len(weatherQueue) \in Nat
      /\ DOMAIN weatherQueue = 1..Len(weatherQueue)
  BY DEF LifeInv, TypeOK
<1>2. \A x : x \in Range(weatherQueue) <=> x \in (Taken + 1)..Len(sensed)
  <2>1. ASSUME NEW x \in Range(weatherQueue) PROVE x \in (Taken + 1)..Len(sensed)
    <3>1. PICK j \in 1..Len(weatherQueue) : x = weatherQueue[j]
      BY <1>1 DEF Range
    <3>2. x = Taken + j
      BY <3>1 DEF InOrder
    <3> QED BY <1>1, <3>2 DEF Taken
  <2>2. ASSUME NEW x \in (Taken + 1)..Len(sensed) PROVE x \in Range(weatherQueue)
    <3>1. x - Taken \in 1..Len(weatherQueue)
      BY <1>1, <2>2 DEF Taken
    <3>2. weatherQueue[x - Taken] = x
      BY <1>1, <2>2, <3>1 DEF InOrder, Taken
    <3> QED BY <1>1, <3>1, <3>2 DEF Range
  <2> QED BY <2>1, <2>2
<1>3. Taken \in Nat /\ Taken <= Len(sensed)
  BY <1>1 DEF InOrder, Taken
<1> HIDE DEF Taken
<1>4. CASE weatherPc \in {"lock", "record"}
  BY <1>1, <1>2, <1>3, <1>4 DEF Recorded, Arrived, InOrder, Handling
<1>5. CASE weatherPc \notin {"lock", "record"}
  BY <1>1, <1>2, <1>3, <1>5 DEF Recorded, Arrived
<1> QED BY <1>1, <1>3, <1>4, <1>5

\* weatherQueue is first in, first out.
LEMMA NextInOrder == LifeInv /\ InOrder /\ [Next]_vars => InOrder'
<1> SUFFICES ASSUME LifeInv, InOrder, [Next]_vars PROVE InOrder'
  OBVIOUS
<1> USE DEF weatherVars, uploadVars, dataVars, aroundVars, reportVars
<1>0. /\ Len(sensed) \in Nat /\ Len(weatherQueue) \in Nat
      /\ weatherQueue \in Seq(Numbers) /\ sensed \in Seq(Messages)
  BY DEF LifeInv, TypeOK
<1>1. CASE Arrive
  <2>1. PICK m : sensed' = Append(sensed, m)
    BY <1>1 DEF Arrive
  <2>2. /\ weatherQueue' = Append(weatherQueue, Len(sensed) + 1)
        /\ (Handling' <=> Handling) /\ sensorData' = sensorData
    BY <1>1 DEF Arrive, Handling
  <2>3. Len(sensed') = Len(sensed) + 1
    BY <1>0, <2>1
  <2>4. /\ Len(weatherQueue') = Len(weatherQueue) + 1
        /\ weatherQueue'[Len(weatherQueue) + 1] = Len(sensed) + 1
        /\ \A j \in 1..Len(weatherQueue) : weatherQueue'[j] = weatherQueue[j]
    BY <1>0, <2>2
  <2>5. Taken' = Taken /\ Taken \in Int /\ Taken + (Len(weatherQueue) + 1) = Len(sensed) + 1
    BY <1>0, <2>3, <2>4 DEF Taken
  <2>6. \A j \in 1..Len(weatherQueue') : weatherQueue'[j] = Taken + j
    <3> SUFFICES ASSUME NEW j \in 1..Len(weatherQueue') PROVE weatherQueue'[j] = Taken + j
      OBVIOUS
    <3>1. j \in 1..Len(weatherQueue) \/ j = Len(weatherQueue) + 1
      BY <1>0, <2>4
    <3>2. \A l \in 1..Len(weatherQueue) : weatherQueue[l] = Taken + l
      BY DEF InOrder
    <3> QED BY <2>4, <2>5, <3>1, <3>2
  <2> QED BY <2>2, <2>5, <2>6 DEF InOrder
<1>2. CASE PopMessage
  <2>1. /\ weatherQueue # <<>> /\ sensorData' = weatherQueue[1]
        /\ weatherQueue' = Tail(weatherQueue) /\ sensed' = sensed
    BY <1>2 DEF PopMessage
  <2>2. /\ Len(weatherQueue) >= 1 /\ Len(weatherQueue') = Len(weatherQueue) - 1
        /\ \A j \in 1..(Len(weatherQueue) - 1) : weatherQueue'[j] = weatherQueue[j + 1]
    BY <1>0, <2>1
  <2>3. Taken' = Taken + 1 /\ Taken \in Int
    BY <1>0, <2>1, <2>2 DEF Taken
  <2>4. \A j \in 1..Len(weatherQueue) : weatherQueue[j] = Taken + j
    BY DEF InOrder
  <2>5. Taken' >= 0 /\ sensorData' = Taken'
    <3>1. 1 \in 1..Len(weatherQueue) /\ Taken >= 0
      BY <1>0, <2>2 DEF InOrder
    <3> QED BY <2>1, <2>3, <2>4, <3>1
  <2>6. ASSUME NEW j \in 1..Len(weatherQueue') PROVE weatherQueue'[j] = Taken' + j
    <3>1. j \in 1..(Len(weatherQueue) - 1) /\ j + 1 \in 1..Len(weatherQueue) /\ j \in Int
      BY <1>0, <2>2
    <3>2. weatherQueue'[j] = Taken + (j + 1)
      BY <2>2, <2>4, <3>1
    <3> QED BY <2>3, <3>1, <3>2
  <2> QED BY <2>5, <2>6 DEF InOrder
<1>3. CASE ~(Arrive \/ PopMessage)
  <2>1. UNCHANGED <<sensed, weatherQueue, sensorData>>
    BY <1>3 DEF Next, WeatherStep, UploadStep, Reset, NewDay, WeatherCheck, LockRecord,
                RecordField, ReadClock, CrossedMidnight, ZeroRainfall, JoinUpload, UploadCheck, UploadWake,
                LockUpload, PopulateField, ResetField, vars
  <2>2. Handling' => Handling
    BY <1>3 DEF Handling, Next, WeatherStep, UploadStep, Reset, NewDay, WeatherCheck, LockRecord,
                RecordField, ReadClock, CrossedMidnight, ZeroRainfall, JoinUpload, UploadCheck, UploadWake,
                LockUpload, PopulateField, ResetField, vars
  <2> QED BY <2>1, <2>2 DEF InOrder, Taken
<1> QED BY <1>1, <1>2, <1>3

\* A step that touches neither the window nor the counts.
LEMMA SameTally ==
  ASSUME Tally, Recorded' = Recorded, UNCHANGED <<included, timesReported>>,
         (uploadPc' = "reset") <=> (uploadPc = "reset"),
         InHand' <=> InHand, InHand => sensorData' = sensorData
  PROVE  Tally'
BY DEF Tally, Open

\* Recording includes the message in hand with the first field and is done with
\* it after the last.
LEMMA RecordTally ==
  ASSUME LifeInv, InOrder, Tally, RecordField
  PROVE  Tally'
<1> DEFINE k == weatherField
<1>0. /\ weatherPc = "record" /\ uploadPc \notin {"populate", "reset"} /\ uploadPc' = uploadPc
      /\ k \in 1..Last /\ included \in [Sampled -> Seq(Numbers)] /\ "Humidity" \in Sampled
      /\ UNCHANGED <<sensed, weatherQueue, sensorData, timesReported>>
  BY ConstantsAssumption
  DEF RecordField, uploadVars, reportVars, aroundVars, LifeInv, TypeOK, MutexOwner, Sampled
<1>1. sensorData = Taken /\ sensorData \in Numbers /\ Taken' = Taken
  BY <1>0, ArrivedFacts DEF InOrder, LifeInv, OnTheWay, Taken, Handling
<1>2. IF k = 1 THEN Open' = Open \cup {sensorData} ELSE Open' = Open
  <2>1. k = 1 <=> RecordOrder[k] = "Humidity"
    BY <1>0 DEF RecordOrder
  <2>2. CASE IncludeValue(RecordOrder[k])
    <3>1. included' = [included EXCEPT ![RecordOrder[k]] = Append(@, sensorData)]
      BY <2>2 DEF IncludeValue
    <3>2. CASE k = 1
      <4>1. included'["Humidity"] = Append(included["Humidity"], sensorData)
        BY <1>0, <2>1, <3>1, <3>2
      <4>2. included["Humidity"] \in Seq(Numbers)
        BY <1>0
      <4> QED BY <3>2, <4>1, <4>2, RangeOfAppend DEF Open
    <3>3. CASE k # 1
      BY <1>0, <2>1, <3>1, <3>3 DEF Open
    <3> QED BY <3>2, <3>3
  <2>3. CASE StoreValue(RecordOrder[k])
    BY <1>0, <2>1, <2>3 DEF StoreValue, Stored, Open
  <2> QED BY <2>2, <2>3 DEF RecordField
<1>3. sensorData \notin Recorded
  BY <1>0, <1>1, RecordedIs
<1>4. CASE k < Last
  <2>1. weatherPc' = "record" /\ weatherField' = k + 1
    BY <1>0, <1>4 DEF RecordField
  <2>2. Recorded' = Recorded
    BY <1>0, <2>1 DEF Recorded, Arrived
  <2>3. InHand' /\ (k # 1 => InHand) /\ (k = 1 => ~InHand)
    BY <1>0, <2>1 DEF InHand
  <2> QED BY <1>0, <1>2, <1>3, <2>2, <2>3 DEF Tally
<1>5. CASE k = Last
  <2>1. weatherPc' = "clock" /\ weatherField' = 1
    BY <1>0, <1>5 DEF RecordField
  <2>2. \A i : i \in Recorded' <=> i \in Recorded \/ i = sensorData
    <3>1. sensorData \notin Range(weatherQueue)
      <4>1. DOMAIN weatherQueue = 1..Len(weatherQueue)
        BY DEF LifeInv, TypeOK
      <4>2. Taken \in Nat /\ \A j \in 1..Len(weatherQueue) : weatherQueue[j] = Taken + j
        BY RecordedIs DEF InOrder
      <4>3. \A j \in 1..Len(weatherQueue) : weatherQueue[j] # sensorData
        BY <1>1, <4>2
      <4> QED BY <4>1, <4>3 DEF Range
    <3>2. sensorData \in Arrived
      BY <1>0 DEF LifeInv, OnTheWay, Handling
    <3>3. Recorded = Arrived \ (Range(weatherQueue) \cup {sensorData})
      BY <1>0 DEF Recorded
    <3>4. Recorded' = Arrived \ Range(weatherQueue)
      BY <1>0, <2>1 DEF Recorded, Arrived
    <3> QED BY <3>1, <3>2, <3>3, <3>4
  <2>3. InHand /\ ~InHand'
    BY <1>0, <1>5, <2>1 DEF InHand
  <2> QED BY <1>0, <1>1, <1>2, <1>3, <1>5, <2>2, <2>3 DEF Tally
<1> QED BY <1>0, <1>4, <1>5

\* The last field is read and the report published: what is in the window is
\* reported now.
LEMMA PopulateTally ==
  ASSUME LifeInv, Snapshot, Tally, PopulateField
  PROVE  Tally'
<1> DEFINE k == uploadField
           f == PopulateOrder[k]
<1>0. /\ uploadPc = "populate" /\ uploadMutex = "upload" /\ weatherPc # "record"
      /\ k \in 1..Last /\ report \in Reports /\ timesReported \in [Numbers -> Nat]
      /\ UNCHANGED <<sensed, weatherQueue, included, weatherPc, weatherField, sensorData>>
  BY ConstantsAssumption
  DEF PopulateField, weatherVars, dataVars, aroundVars, LifeInv, TypeOK, MutexOwner
<1>1. Recorded' = Recorded /\ ~InHand /\ ~InHand' /\ Open' = Open
  BY <1>0 DEF Recorded, Arrived, InHand, Open
<1>2. CASE k < Last
  <2>1. uploadPc' = uploadPc /\ timesReported' = timesReported
    BY <1>2 DEF PopulateField, reportVars
  <2> QED BY <1>0, <1>1, <2>1 DEF Tally
<1>3. CASE k = Last
  <2>1. Publish(Populated(f)) /\ uploadPc' = "reset"
    BY <1>3 DEF PopulateField
  <2>2. f = "WindDirectionAtMaxSpeed"
    BY <1>3 DEF PopulateOrder
  <2>3. Populated(f).max = report.max
    BY <1>0, <2>2 DEF Populated, Reports, Sampled
  <2>4. report.max = included["Humidity"]
    BY <1>0, <1>3 DEF Snapshot, Populating, OneWindow, Sampled
  <2>5. \A i : InReport(Populated(f), i) <=> i \in Open
    BY <2>3, <2>4 DEF InReport, Open
  <2>6. \A i \in Numbers : timesReported'[i] = timesReported[i] + IF i \in Open THEN 1 ELSE 0
    BY <2>1, <2>5 DEF Publish
  <2>7. Recorded \subseteq Numbers
    BY ArrivedFacts DEF Recorded, LifeInv
  <2>8. \A i \in Recorded : timesReported'[i] = 1
    BY <1>0, <1>1, <2>6, <2>7 DEF Tally
  <2>9. \A i \in Numbers : i \notin Recorded => timesReported'[i] = 0
    BY <1>0, <1>1, <2>6 DEF Tally
  <2> QED BY <1>1, <2>1, <2>8, <2>9 DEF Tally
<1> QED BY <1>0, <1>2, <1>3

\* The window is emptied with the first field; its messages are reported.
LEMMA ResetTally ==
  ASSUME LifeInv, Snapshot, Tally, ResetField
  PROVE  Tally'
<1> DEFINE k == uploadField
           f == ResetOrder[k]
<1>0. /\ uploadPc = "reset" /\ uploadMutex = "upload" /\ weatherPc # "record"
      /\ k \in 1..Last /\ included \in [Sampled -> Seq(Numbers)] /\ "Humidity" \in Sampled
      /\ UNCHANGED <<sensed, weatherQueue, weatherPc, weatherField, sensorData, timesReported>>
  BY ConstantsAssumption
  DEF ResetField, weatherVars, reportVars, aroundVars, LifeInv, TypeOK, MutexOwner, Sampled
<1>1. Recorded' = Recorded /\ ~InHand /\ ~InHand'
  BY <1>0 DEF Recorded, Arrived, InHand
<1>2. \A g \in Sampled : included'[g] = IF g = f THEN <<>> ELSE included[g]
  BY <1>0 DEF ResetField
<1>3. Open' \subseteq Open
  BY <1>0, <1>2 DEF Open, Range
<1>4. CASE k < Last
  <2>1. uploadPc' = "reset"
    BY <1>0, <1>4 DEF ResetField
  <2> QED BY <1>0, <1>1, <1>3, <2>1 DEF Tally
<1>5. CASE k = Last
  <2>1. 1 \in 1..(k - 1) /\ ResetOrder[1] = "Humidity" /\ f # "Humidity"
    BY <1>5 DEF ResetOrder
  <2>2. included'["Humidity"] = <<>>
    BY <1>0, <1>2, <2>1 DEF Snapshot, Resetting
  <2>3. \A i : i \notin Open'
    BY <2>2 DEF Open, Range
  <2> QED BY <1>0, <1>1, <2>3 DEF Tally
<1> QED BY <1>0, <1>4, <1>5

\* Every step keeps Tally.
LEMMA NextTally == LifeInv /\ Snapshot /\ InOrder /\ Tally /\ [Next]_vars => Tally'
<1> SUFFICES ASSUME LifeInv, Snapshot, InOrder, Tally, [Next]_vars PROVE Tally'
  OBVIOUS
<1> USE DEF weatherVars, uploadVars, dataVars, aroundVars, reportVars
<1>1. CASE Arrive
  <2>1. PICK m : sensed' = Append(sensed, m)
    BY <1>1 DEF Arrive
  <2>2. /\ weatherQueue' = Append(weatherQueue, Len(sensed) + 1)
        /\ UNCHANGED <<included, timesReported, uploadPc, weatherPc, weatherField, sensorData>>
    BY <1>1 DEF Arrive
  <2>3. /\ Len(sensed) \in Nat /\ sensed \in Seq(Messages) /\ weatherQueue \in Seq(Numbers)
        /\ Len(sensed') = Len(sensed) + 1
    BY <2>1 DEF LifeInv, TypeOK
  <2>4. Range(weatherQueue') = Range(weatherQueue) \cup {Len(sensed) + 1}
    BY <2>2, <2>3, RangeOfAppend
  <2>5. Arrived' = Arrived \cup {Len(sensed) + 1} /\ Len(sensed) + 1 \notin Arrived
    BY <2>3 DEF Arrived
  <2>6. Recorded' = Recorded
    BY <2>2, <2>4, <2>5 DEF Recorded
  <2> QED BY <2>2, <2>6, SameTally DEF InHand
<1>2. CASE PopMessage
  <2>1. /\ weatherPc = "pop" /\ weatherPc' = "lock" /\ weatherQueue # <<>>
        /\ sensorData' = Head(weatherQueue) /\ weatherQueue' = Tail(weatherQueue)
        /\ UNCHANGED <<sensed, included, timesReported, uploadPc, weatherField>>
    BY <1>2 DEF PopMessage
  <2>2. weatherQueue \in Seq(Numbers)
    BY DEF LifeInv, TypeOK
  <2>3. Range(weatherQueue) = Range(weatherQueue') \cup {sensorData'}
    <3>1. /\ DOMAIN weatherQueue = 1..Len(weatherQueue) /\ Len(weatherQueue) \in Nat
          /\ Len(weatherQueue) >= 1 /\ DOMAIN weatherQueue' = 1..(Len(weatherQueue) - 1)
          /\ weatherQueue[1] = sensorData'
          /\ \A j \in 1..(Len(weatherQueue) - 1) : weatherQueue'[j] = weatherQueue[j + 1]
      BY <2>1, <2>2
    <3>2. ASSUME NEW x \in Range(weatherQueue), x # sensorData' PROVE x \in Range(weatherQueue')
      <4>1. PICK j \in 1..Len(weatherQueue) : x = weatherQueue[j]
        BY <3>1 DEF Range
      <4>2. j - 1 \in 1..(Len(weatherQueue) - 1) /\ (j - 1) + 1 = j
        BY <3>1, <3>2, <4>1
      <4>3. weatherQueue'[j - 1] = x
        BY <3>1, <4>1, <4>2
      <4> QED BY <3>1, <4>2, <4>3 DEF Range
    <3>3. ASSUME NEW x \in Range(weatherQueue') PROVE x \in Range(weatherQueue)
      <4>1. PICK j \in 1..(Len(weatherQueue) - 1) : x = weatherQueue'[j]
        BY <3>1 DEF Range
      <4>2. j + 1 \in 1..Len(weatherQueue) /\ x = weatherQueue[j + 1]
        BY <3>1, <4>1
      <4> QED BY <3>1, <4>2 DEF Range
    <3>4. sensorData' \in Range(weatherQueue)
      <4>1. 1 \in DOMAIN weatherQueue
        BY <3>1
      <4> QED BY <3>1, <4>1 DEF Range
    <3> QED BY <3>2, <3>3, <3>4
  <2>4. Recorded' = Recorded
    BY <2>1, <2>3 DEF Recorded, Arrived
  <2> QED BY <2>1, <2>4, SameTally DEF InHand
<1>3. CASE LockRecord
  <2>1. /\ weatherPc = "lock" /\ weatherPc' = "record" /\ weatherField = 1
        /\ UNCHANGED <<sensed, weatherQueue, included, timesReported, uploadPc, weatherField,
                       sensorData>>
    BY <1>3 DEF LockRecord, LifeInv, OnTheWay
  <2>2. Recorded' = Recorded /\ ~InHand /\ ~InHand'
    BY <2>1 DEF Recorded, Arrived, InHand
  <2> QED BY <2>1, <2>2, SameTally
<1>4. CASE RecordField
  BY <1>4, RecordTally
<1>5. CASE PopulateField
  BY <1>5, PopulateTally
<1>6. CASE ResetField
  BY <1>6, ResetTally
<1>7. CASE UploadCheck \/ UploadWake \/ LockUpload
  <2>1. /\ UNCHANGED <<sensed, weatherQueue, included, timesReported, weatherPc, weatherField,
                       sensorData>>
        /\ uploadPc # "reset" /\ uploadPc' # "reset"
    BY <1>7 DEF UploadCheck, UploadWake, LockUpload
  <2>2. Recorded' = Recorded /\ (InHand' <=> InHand)
    BY <2>1 DEF Recorded, Arrived, InHand
  <2> QED BY <2>1, <2>2, SameTally
<1>8. CASE WeatherCheck \/ ReadClock \/ CrossedMidnight \/ ZeroRainfall \/ JoinUpload
  <2>1. /\ UNCHANGED <<sensed, weatherQueue, included, timesReported, uploadPc, sensorData>>
        /\ weatherPc \notin {"lock", "record"} /\ weatherPc' \notin {"lock", "record"}
    BY <1>8 DEF WeatherCheck, ReadClock, CrossedMidnight, ZeroRainfall, JoinUpload
  <2>2. Recorded' = Recorded /\ ~InHand /\ ~InHand'
    BY <2>1 DEF Recorded, Arrived, InHand
  <2> QED BY <2>1, <2>2, SameTally
<1>9. CASE Reset \/ NewDay \/ UNCHANGED vars
  <2>1. UNCHANGED <<sensed, weatherQueue, included, timesReported, uploadPc, sensorData,
                    weatherPc, weatherField>>
    BY <1>9 DEF Reset, NewDay, vars
  <2>2. Recorded' = Recorded /\ (InHand' <=> InHand)
    BY <2>1 DEF Recorded, Arrived, InHand
  <2> QED BY <2>1, <2>2, SameTally
<1> QED BY <1>1, <1>2, <1>3, <1>4, <1>5, <1>6, <1>7, <1>8, <1>9
        DEF Next, WeatherStep, UploadStep

\* InOrder and Tally hold at first.
LEMMA InitTally == Init => InOrder /\ Tally
<1> SUFFICES ASSUME Init PROVE InOrder /\ Tally
  OBVIOUS
<1>1. sensed = <<>> /\ weatherQueue = <<>> /\ weatherPc = "check" /\ sensorData = None
  BY DEF Init
<1>2. Recorded = {} /\ ~InHand
  BY <1>1 DEF Recorded, Arrived, InHand
<1>3. Open = {}
  BY DEF Init, Open, Empty, Range, Sampled
<1>4. timesReported = [i \in Numbers |-> 0]
  BY DEF Init
<1>5. Tally
  BY <1>2, <1>3, <1>4 DEF Tally
<1> QED BY <1>1, <1>5 DEF InOrder, Taken, Handling

\* Windows neither overlap nor leave a gap: for any number of messages, each one
\* that is recorded is in the open window or in exactly one report.
THEOREM MessagesCountedOnce == SafeSpec => []CountedOnce
<1>1. Init => InOrder /\ Tally
  BY InitTally
<1>2. Tally => CountedOnce
  BY DEF Tally, CountedOnce, Open
<1> QED BY <1>1, <1>2, NextInOrder, NextTally, TypeAndMutex, AlwaysSnapshot, PTL DEF SafeSpec

-----------------------------------------------------------------------------
(* The direction of the gust *)

\* i is the first message of S with the greatest wind speed of S.
FirstFastest(i, S) ==
  /\ i \in S
  /\ \A j \in S : /\ sensed[i].speed >= sensed[j].speed
                  /\ sensed[i].speed = sensed[j].speed => i <= j

Window == Range(included["WindSpeed"])

\* The wind speed of the message in hand is included, its direction not yet.
Speeded == weatherPc = "record" /\ weatherField > 2

\* The messages of the window whose direction has been looked at.
Judged == IF Speeded THEN Window \ {sensorData} ELSE Window

\* The stored direction is that of the messages judged; the message in hand is
\* newer than they are, and newMax tells whether it is faster.
Gust ==
  /\ Window \subseteq 1..Taken
  /\ weatherPc \in {"lock", "record"} /\ ~Speeded => Taken \notin Window
  /\ Speeded =>
       /\ sensorData \in Window
       /\ newMax <=> \A i \in Judged : sensed[sensorData].speed > sensed[i].speed
  /\ Judged # {} => FirstFastest(stored["WindDirectionAtMaxSpeed"], Judged)

\* And so is the direction in the last report.
GustReported ==
  LET window == Range(lastReport.max)
  IN /\ window \subseteq 1..Taken
     /\ window # {} => FirstFastest(lastReport.stored["WindDirectionAtMaxSpeed"], window)

\* Messages keep their speed, and more and more are taken.
LEMMA SpeedsKept ==
  ASSUME LifeInv, InOrder, InOrder', [Next]_vars
  PROVE  /\ Taken \in Nat /\ Taken' \in Nat /\ Taken <= Taken' /\ Taken <= Len(sensed)
         /\ \A i \in 1..Taken : sensed'[i] = sensed[i]
         /\ \A i \in 1..Taken : sensed[i].speed \in Nat
<1> USE DEF weatherVars, uploadVars, dataVars, aroundVars, reportVars
<1>1. /\ Len(sensed) \in Nat /\ Len(weatherQueue) \in Nat /\ sensed \in Seq(Messages)
      /\ weatherQueue \in Seq(Numbers)
  BY DEF LifeInv, TypeOK
<1>2. Taken \in Nat /\ Taken <= Len(sensed)
  BY <1>1 DEF InOrder, Taken
<1>3. \A m \in Messages : m.speed \in Nat
  BY ConstantsAssumption DEF Messages
<1>4. \A i \in 1..Taken : sensed[i].speed \in Nat
  BY <1>1, <1>2, <1>3
<1>5. CASE Arrive
  <2>1. PICK m : sensed' = Append(sensed, m)
    BY <1>5 DEF Arrive
  <2>2. weatherQueue' = Append(weatherQueue, Len(sensed) + 1)
    BY <1>5 DEF Arrive
  <2>3. Taken' = Taken
    BY <1>1, <2>1, <2>2 DEF Taken
  <2>4. \A i \in 1..Taken : sensed'[i] = sensed[i]
    BY <1>1, <1>2, <2>1
  <2> QED BY <1>2, <1>4, <2>3, <2>4
<1>6. CASE PopMessage
  <2>1. Len(weatherQueue') = Len(weatherQueue) - 1 /\ sensed' = sensed
    BY <1>1, <1>6 DEF PopMessage
  <2>2. Taken' = Taken + 1
    BY <1>1, <2>1 DEF Taken
  <2> QED BY <1>2, <1>4, <2>1, <2>2
<1>7. CASE ~(Arrive \/ PopMessage)
  <2>1. UNCHANGED <<sensed, weatherQueue>>
    BY <1>7 DEF Next, WeatherStep, UploadStep, Reset, NewDay, WeatherCheck, LockRecord,
                RecordField, ReadClock, CrossedMidnight, ZeroRainfall, JoinUpload, UploadCheck, UploadWake,
                LockUpload, PopulateField, ResetField, vars
  <2> QED BY <1>2, <1>4, <2>1 DEF Taken
<1> QED BY <1>5, <1>6, <1>7

\* What holds of messages that were taken goes on to hold.
LEMMA FastestKept ==
  ASSUME LifeInv, InOrder, InOrder', [Next]_vars, NEW S, S \subseteq 1..Taken,
         NEW i, FirstFastest(i, S)
  PROVE  /\ i \in S
         /\ \A j \in S : /\ sensed'[i].speed >= sensed'[j].speed
                         /\ sensed'[i].speed = sensed'[j].speed => i <= j
BY SpeedsKept DEF FirstFastest

\* A step that leaves the window, the direction and the message in hand alone.
LEMMA SameGust ==
  ASSUME LifeInv, InOrder, InOrder', [Next]_vars, Gust,
         UNCHANGED <<included, newMax, stored["WindDirectionAtMaxSpeed"]>>,
         weatherPc' \in {"lock", "record"} => weatherPc \in {"lock", "record"},
         Speeded' <=> Speeded,
         weatherPc \in {"lock", "record"} => sensorData' = sensorData
  PROVE  Gust'
<1>1. /\ Taken \in Nat /\ Taken' \in Nat /\ Taken <= Taken'
      /\ Window \subseteq 1..Taken /\ Judged \subseteq Window
      /\ \A i \in 1..Taken : sensed'[i] = sensed[i]
  BY SpeedsKept DEF Gust, Judged
<1>2. Window' = Window
  BY DEF Window
<1>3. Judged' = Judged
  BY <1>2 DEF Judged, Speeded
<1>4. Window' \subseteq 1..Taken'
  BY <1>1, <1>2
<1>5. weatherPc' \in {"lock", "record"} /\ ~Speeded' => Taken' \notin Window'
  BY <1>2 DEF Gust, InOrder, Handling
<1>6. Speeded' => /\ sensorData' \in Window'
                  /\ newMax' <=> \A i \in Judged' : sensed'[sensorData'].speed > sensed'[i].speed
  <2> SUFFICES ASSUME Speeded
               PROVE  /\ sensorData' \in Window'
                      /\ newMax' <=> \A i \in Judged' : sensed'[sensorData'].speed > sensed'[i].speed
    OBVIOUS
  <2>1. sensorData' = sensorData /\ sensorData \in Window
    BY DEF Gust, Speeded
  <2>2. /\ sensed'[sensorData] = sensed[sensorData]
        /\ \A i \in Judged : sensed'[i] = sensed[i]
    BY <1>1, <2>1
  <2> QED BY <1>2, <1>3, <2>1, <2>2 DEF Gust
<1>7. Judged' # {} => FirstFastest(stored["WindDirectionAtMaxSpeed"], Judged)'
  BY <1>1, <1>3, FastestKept DEF Gust, FirstFastest
<1> QED BY <1>4, <1>5, <1>6, <1>7 DEF Gust

\* A step that leaves the last report alone.
LEMMA SameGustReported ==
  ASSUME LifeInv, InOrder, InOrder', [Next]_vars, GustReported, UNCHANGED lastReport
  PROVE  GustReported'
<1>1. Taken \in Nat /\ Taken' \in Nat /\ Taken <= Taken'
  BY SpeedsKept
<1> QED BY <1>1, FastestKept DEF GustReported, FirstFastest

\* recordWeatherData: the wind speed comes in with the second field, the
\* direction is kept, if it is that of a new maximum, with the last.
LEMMA RecordGust ==
  ASSUME LifeInv, InOrder, InOrder', Gust, [Next]_vars, RecordField
  PROVE  Gust'
<1> DEFINE k == weatherField  d == "WindDirectionAtMaxSpeed"
<1>0. /\ weatherPc = "record" /\ k \in 1..6
      /\ UNCHANGED <<sensed, weatherQueue, sensorData>>
      /\ included \in [Sampled -> Seq(Numbers)] /\ stored \in [Stored -> Int]
      /\ newMax \in BOOLEAN
  BY DEF RecordField, aroundVars, LifeInv, TypeOK
<1>1. sensorData = Taken /\ Taken' = Taken /\ Taken \in Nat /\ sensorData \in 1..Taken
  <2>1. sensorData \in Nat /\ sensorData >= 1
    BY <1>0, ArrivedFacts DEF LifeInv, OnTheWay, Arrived, Handling
  <2> QED BY <1>0, <2>1, SpeedsKept DEF InOrder, Taken, Handling
<1>2. k < 6 => weatherPc' = "record" /\ weatherField' = k + 1
  BY <1>0 DEF RecordField
<1>3. k = 6 => weatherPc' = "clock"
  BY <1>0 DEF RecordField
<1>4. CASE k = 2
  <2>1. RecordOrder[k] = "WindSpeed" /\ "WindSpeed" \in Sampled /\ "WindSpeed" \notin Stored
    BY <1>4 DEF RecordOrder, Sampled, Stored
  <2>2. IncludeValue("WindSpeed")
    BY <2>1 DEF RecordField, StoreValue
  <2>3. /\ included'["WindSpeed"] = Append(included["WindSpeed"], sensorData)
        /\ newMax' = \A i \in Window : sensed[sensorData].speed > sensed[i].speed
        /\ stored' = stored
    BY <1>0, <2>1, <2>2 DEF IncludeValue, Window
  <2>4. Window' = Window \cup {sensorData}
    BY <1>0, <2>1, <2>3, RangeOfAppend DEF Window
  <2>5. ~Speeded /\ Speeded'
    BY <1>0, <1>2, <1>4 DEF Speeded
  <2>6. sensorData \notin Window /\ Judged = Window
    BY <1>0, <1>1, <2>5 DEF Gust, Judged
  <2>7. Judged' = Window
    BY <1>0, <2>4, <2>5, <2>6 DEF Judged
  <2>8. newMax' <=> \A i \in Judged' : sensed'[sensorData'].speed > sensed'[i].speed
    BY <1>0, <2>3, <2>7
  <2>9. Judged' # {} => FirstFastest(stored[d], Judged)'
    BY <1>0, <2>3, <2>6, <2>7 DEF Gust, FirstFastest
  <2>10. Window' \subseteq 1..Taken' /\ sensorData' \in Window'
    BY <1>0, <1>1, <2>4 DEF Gust
  <2> QED BY <2>5, <2>8, <2>9, <2>10 DEF Gust
<1>5. CASE k = 6
  <2>1. RecordOrder[k] = d /\ d \in Stored /\ d \notin Sampled /\ d # "Rainfall"
    BY <1>5 DEF RecordOrder, Sampled, Stored
  <2>2. StoreValue(d)
    BY <2>1 DEF RecordField, IncludeValue
  <2>3. stored'[d] = (IF newMax THEN sensorData ELSE stored[d]) /\ included' = included
    BY <1>0, <2>1, <2>2 DEF StoreValue
  <2>4. Speeded /\ ~Speeded' /\ weatherPc' \notin {"lock", "record"}
    BY <1>0, <1>3, <1>5 DEF Speeded
  <2>5. /\ sensorData \in Window /\ Judged = Window \ {sensorData}
        /\ newMax <=> \A i \in Judged : sensed[sensorData].speed > sensed[i].speed
        /\ Judged # {} => FirstFastest(stored[d], Judged)
        /\ Window \subseteq 1..Taken
    BY <2>4 DEF Gust, Judged
  <2>6. Window' = Window /\ Judged' = Window
    BY <2>3, <2>4 DEF Window, Judged
  <2>7. \A i \in Window : sensed[i].speed \in Nat /\ i \in Nat /\ i <= sensorData
    BY <1>1, <2>5, SpeedsKept
  <2>8. FirstFastest(stored'[d], Window)
    <3>1. CASE newMax
      BY <2>3, <2>5, <2>7, <3>1 DEF FirstFastest
    <3>2. CASE ~newMax
      <4>1. PICK i \in Judged : ~(sensed[sensorData].speed > sensed[i].speed)
        BY <2>5, <3>2
      <4>2. FirstFastest(stored[d], Judged)
        BY <2>5, <4>1
      <4>3. /\ stored[d] \in Judged /\ sensed[stored[d]].speed >= sensed[sensorData].speed
            /\ stored[d] <= sensorData
        <5>1. /\ stored[d] \in Judged
              /\ sensed[stored[d]].speed >= sensed[i].speed
          BY <4>1, <4>2 DEF FirstFastest
        <5>2. /\ sensed[stored[d]].speed \in Nat /\ sensed[i].speed \in Nat
              /\ sensed[sensorData].speed \in Nat /\ stored[d] <= sensorData
          BY <2>5, <2>7, <4>1, <5>1
        <5> QED BY <4>1, <5>1, <5>2
      <4>4. \A j \in Window : j \in Judged \/ j = sensorData
        BY <2>5
      <4> QED BY <2>3, <2>5, <3>2, <4>2, <4>3, <4>4 DEF FirstFastest
    <3> QED BY <3>1, <3>2
  <2>9. FirstFastest(stored[d], Judged)'
    BY <1>0, <2>6, <2>8 DEF FirstFastest
  <2> QED BY <1>1, <2>4, <2>5, <2>6, <2>9 DEF Gust
<1>6. CASE k \in {1, 3, 4, 5}
  <2>1. /\ RecordOrder[k] # "WindSpeed" /\ RecordOrder[k] # d
        /\ RecordOrder[k] = "Rainfall" \/ RecordOrder[k] \in Sampled
    BY <1>6 DEF RecordOrder, Sampled
  <2>2. included'["WindSpeed"] = included["WindSpeed"] /\ newMax' = newMax
    <3>1. CASE IncludeValue(RecordOrder[k])
      BY <1>0, <2>1, <3>1 DEF IncludeValue, Sampled
    <3>2. CASE StoreValue(RecordOrder[k])
      BY <3>2 DEF StoreValue
    <3> QED BY <3>1, <3>2 DEF RecordField
  <2>3. stored'[d] = stored[d]
    <3>1. CASE IncludeValue(RecordOrder[k])
      BY <3>1 DEF IncludeValue
    <3>2. CASE StoreValue(RecordOrder[k])
      <4>1. RecordOrder[k] = "Rainfall"
        BY <2>1, <3>2 DEF StoreValue, Stored
      <4>2. stored' = [stored EXCEPT !["Rainfall"] = sensed[sensorData].rain + @]
        BY <3>2, <4>1 DEF StoreValue
      <4> QED BY <1>0, <4>2 DEF Stored
    <3> QED BY <3>1, <3>2 DEF RecordField
  <2>4. Window' = Window
    BY <2>2 DEF Window
  <2>5. (Speeded' <=> Speeded) /\ weatherPc' = "record"
    BY <1>0, <1>2, <1>6 DEF Speeded
  <2>6. Judged' = Judged
    BY <1>0, <2>4, <2>5 DEF Judged
  <2> QED BY <1>0, <1>1, <2>2, <2>3, <2>4, <2>5, <2>6 DEF Gust, FirstFastest
<1> QED BY <1>0, <1>4, <1>5, <1>6

\* weatherThread takes the next message, which is in no window yet.
LEMMA PopGust ==
  ASSUME LifeInv, InOrder, InOrder', Gust, [Next]_vars, PopMessage
  PROVE  Gust'
<1>1. /\ weatherPc = "pop" /\ weatherPc' = "lock"
      /\ UNCHANGED <<sensed, included, newMax, stored>>
  BY DEF PopMessage, aroundVars, dataVars
<1>2. /\ weatherQueue \in Seq(Numbers) /\ weatherQueue # <<>> /\ weatherQueue' = Tail(weatherQueue)
      /\ Len(sensed) \in Nat
  BY DEF PopMessage, LifeInv, TypeOK
<1>3. Len(weatherQueue') = Len(weatherQueue) - 1 /\ Len(weatherQueue) \in Nat
  BY <1>2
<1>4. Taken' = Taken + 1 /\ Taken \in Nat
  BY <1>1, <1>2, <1>3, SpeedsKept DEF Taken
<1>5. ~Speeded /\ ~Speeded'
  BY <1>1 DEF Speeded
<1>6. Window' = Window /\ Judged' = Window /\ Judged = Window
  BY <1>1, <1>5 DEF Window, Judged
<1>7. Window' \subseteq 1..Taken' /\ Taken' \notin Window'
  BY <1>4, <1>6 DEF Gust
<1> QED BY <1>1, <1>5, <1>6, <1>7 DEF Gust, FirstFastest

\* A reset of a field empties the window or leaves it.
LEMMA ResetGust ==
  ASSUME LifeInv, InOrder, InOrder', Gust, [Next]_vars, ResetField
  PROVE  Gust'
<1>1. /\ weatherPc # "record" /\ included \in [Sampled -> Seq(Numbers)] /\ "WindSpeed" \in Sampled
      /\ UNCHANGED <<sensed, weatherQueue, weatherPc, weatherField, sensorData, stored, newMax>>
  BY ConstantsAssumption
  DEF ResetField, weatherVars, aroundVars, LifeInv, TypeOK, MutexOwner, Sampled
<1>2. \/ included'["WindSpeed"] = included["WindSpeed"]
      \/ included'["WindSpeed"] = <<>>
  BY <1>1 DEF ResetField
<1>3. Window' = Window \/ Window' = {}
  BY <1>2 DEF Window, Range
<1>4. ~Speeded /\ ~Speeded' /\ Judged = Window /\ Judged' = Window' /\ Taken' = Taken
  BY <1>1 DEF Speeded, Judged, Taken
<1> QED BY <1>1, <1>3, <1>4 DEF Gust, FirstFastest

\* The report takes the window and its direction together: it is read under the
\* mutex.
LEMMA PopulateGust ==
  ASSUME LifeInv, Snapshot, InOrder, InOrder', Gust, GustReported, [Next]_vars, PopulateField
  PROVE  GustReported'
<1> DEFINE k == uploadField  f == PopulateOrder[k]  d == "WindDirectionAtMaxSpeed"
<1>0. /\ uploadPc = "populate" /\ weatherPc # "record" /\ k \in 1..Last /\ report \in Reports
      /\ UNCHANGED <<sensed, weatherQueue>>
  BY ConstantsAssumption
  DEF PopulateField, aroundVars, LifeInv, TypeOK, MutexOwner
<1>1. CASE k < Last
  <2>1. UNCHANGED lastReport
    BY <1>1 DEF PopulateField, reportVars
  <2> QED BY <2>1, SameGustReported
<1>2. CASE k = Last
  <2>1. lastReport' = Populated(f)
    BY <1>2 DEF PopulateField, Publish
  <2>2. f = d
    BY <1>2 DEF PopulateOrder
  <2>3. Populated(f) = [report EXCEPT !.stored[d] = stored[d]]
    BY <2>2 DEF Populated, Sampled
  <2>4. lastReport'.max = report.max /\ lastReport'.stored[d] = stored[d]
    BY <1>0, <2>1, <2>3 DEF Reports, Stored
  <2>5. report.max = included["WindSpeed"]
    BY <1>0, <1>2 DEF Snapshot, Populating
  <2>6. Range(lastReport'.max) = Window
    BY <2>4, <2>5 DEF Window
  <2>7. Judged = Window /\ Taken' = Taken
    BY <1>0 DEF Judged, Speeded, Taken
  <2> QED BY <1>0, <2>4, <2>6, <2>7 DEF GustReported, Gust, FirstFastest
<1> QED BY <1>0, <1>1, <1>2

\* Every step keeps Gust and GustReported.
LEMMA NextGust ==
  ASSUME LifeInv, Snapshot, InOrder, InOrder', Gust, GustReported, [Next]_vars
  PROVE  Gust' /\ GustReported'
<1> USE DEF weatherVars, uploadVars, dataVars, aroundVars, reportVars
<1>1. CASE PopMessage
  BY <1>1, PopGust, SameGustReported DEF PopMessage
<1>2. CASE RecordField
  BY <1>2, RecordGust, SameGustReported DEF RecordField
<1>3. CASE ResetField
  BY <1>3, ResetGust, SameGustReported DEF ResetField
<1>4. CASE PopulateField
  <2>1. UNCHANGED <<included, newMax, stored, weatherPc, weatherField, sensorData>>
    BY <1>4 DEF PopulateField
  <2>2. Gust'
    BY <2>1, SameGust DEF Speeded
  <2> QED BY <1>4, <2>2, PopulateGust
<1>5. CASE LockRecord
  <2>1. /\ weatherPc = "lock" /\ weatherField = 1
        /\ UNCHANGED <<included, newMax, stored, weatherField, sensorData, lastReport>>
    BY <1>5 DEF LockRecord, LifeInv, OnTheWay
  <2>2. ~Speeded /\ ~Speeded'
    BY <2>1 DEF Speeded
  <2> QED BY <2>1, <2>2, SameGust, SameGustReported
<1>6. CASE ZeroRainfall
  <2>1. /\ weatherPc = "zero" /\ weatherPc' = "check"
        /\ stored' = [stored EXCEPT !["Rainfall"] = 0]
        /\ UNCHANGED <<included, newMax, lastReport>>
    BY <1>6 DEF ZeroRainfall
  <2>2. stored'["WindDirectionAtMaxSpeed"] = stored["WindDirectionAtMaxSpeed"]
    BY <2>1 DEF LifeInv, TypeOK, Stored
  <2>3. ~Speeded /\ ~Speeded'
    BY <2>1 DEF Speeded
  <2> QED BY <2>1, <2>2, <2>3, SameGust, SameGustReported
<1>7. CASE WeatherCheck \/ ReadClock \/ CrossedMidnight \/ JoinUpload
  <2>1. /\ weatherPc \notin {"lock", "record"} /\ weatherPc' \notin {"lock", "record"}
        /\ UNCHANGED <<included, newMax, stored, lastReport>>
    BY <1>7 DEF WeatherCheck, ReadClock, CrossedMidnight, JoinUpload
  <2>2. ~Speeded /\ ~Speeded'
    BY <2>1 DEF Speeded
  <2> QED BY <2>1, <2>2, SameGust, SameGustReported
<1>8. CASE \/ Arrive \/ Reset \/ NewDay \/ UploadCheck \/ UploadWake \/ LockUpload
           \/ UNCHANGED vars
  <2>1. UNCHANGED <<included, newMax, stored, weatherPc, weatherField, sensorData, lastReport>>
    BY <1>8 DEF Arrive, Reset, NewDay, UploadCheck, UploadWake, LockUpload, vars
  <2> QED BY <2>1, SameGust, SameGustReported DEF Speeded
<1> QED BY <1>1, <1>2, <1>3, <1>4, <1>5, <1>6, <1>7, <1>8 DEF Next, WeatherStep, UploadStep

\* The direction in the report is that of the first message of its window that
\* had the window's greatest wind speed.
LEMMA ReportedIsMin ==
  ASSUME LifeInv, InOrder, GustReported
  PROVE  GustDirection
<1> DEFINE window  == Range(lastReport.max)
           fastest == {i \in window : \A j \in window : sensed[i].speed >= sensed[j].speed}
           x       == lastReport.stored["WindDirectionAtMaxSpeed"]
<1> SUFFICES ASSUME window # {} PROVE x = Min(fastest)
  BY DEF GustDirection
<1>1. FirstFastest(x, window) /\ window \subseteq 1..Taken
  BY DEF GustReported
<1>2. Taken \in Nat /\ Taken <= Len(sensed) /\ Len(sensed) \in Nat
  BY DEF InOrder, Taken, LifeInv, TypeOK
<1>3. \A i \in window : i \in Nat /\ sensed[i].speed \in Nat
  <2>1. \A m \in Messages : m.speed \in Nat
    BY ConstantsAssumption DEF Messages
  <2>2. \A i \in 1..Len(sensed) : sensed[i] \in Messages
    BY DEF LifeInv, TypeOK
  <2> QED BY <1>1, <1>2, <2>1, <2>2
<1> HIDE DEF window, x
<1>4. x \in fastest
  BY <1>1 DEF FirstFastest
<1>5. \A y \in fastest : x <= y
  <2> SUFFICES ASSUME NEW y \in fastest PROVE x <= y
    OBVIOUS
  <2>1. y \in window /\ x \in window /\ sensed[y].speed >= sensed[x].speed
        /\ sensed[x].speed >= sensed[y].speed
    BY <1>1 DEF FirstFastest
  <2> QED BY <1>1, <1>3, <2>1 DEF FirstFastest
<1>6. \A y \in fastest : y \in Nat
  BY <1>3
<1> HIDE DEF fastest
<1>7. \A y \in fastest : (\A z \in fastest : y =< z) => y = x
  BY <1>4, <1>5, <1>6
<1> QED BY <1>4, <1>5, <1>7 DEF Min

\* Gust and GustReported hold at first.
LEMMA InitGust == Init => InOrder /\ Gust /\ GustReported
<1> SUFFICES ASSUME Init PROVE InOrder /\ Gust /\ GustReported
  OBVIOUS
<1>1. sensed = <<>> /\ weatherQueue = <<>> /\ weatherPc = "check" /\ included = Empty
      /\ lastReport = NoReport
  BY DEF Init
<1>2. InOrder
  BY InitTally
<1>3. Window = {} /\ ~Speeded /\ Judged = {}
  BY <1>1 DEF Window, Empty, Range, Sampled, Speeded, Judged
<1>4. Range(lastReport.max) = {}
  BY <1>1 DEF NoReport, Empty, Range, Sampled
<1> QED BY <1>1, <1>2, <1>3, <1>4 DEF Gust, GustReported

\* windDirectionAtMaxWindSpeed is right in every report, for any number of
\* messages and any speeds, none among them: although speed, maximum and
\* direction are recorded one by one.
THEOREM GustDirectionIsRight == SafeSpec => []GustDirection
<1>1. Init => InOrder /\ Gust /\ GustReported
  BY InitGust
<1>2. LifeInv /\ Snapshot /\ InOrder /\ InOrder' /\ Gust /\ GustReported /\ [Next]_vars
        => Gust' /\ GustReported'
  BY NextGust
<1>3. LifeInv /\ InOrder /\ GustReported => GustDirection
  BY ReportedIsMin
<1> QED BY <1>1, <1>2, <1>3, NextInOrder, TypeAndMutex, AlwaysSnapshot, PTL DEF SafeSpec

-----------------------------------------------------------------------------
(* The rainfall *)

\* RainOf, of some messages.
RainIn(messages, S) == SumFunction([i \in S |-> messages[i].rain])

\* The messages of the window whose rain is in the stored rainfall; a report that
\* has been published begins a new window.
Rained ==
  CASE uploadPc = "reset" -> {}
    [] uploadPc # "reset" /\ weatherPc = "record" /\ weatherField \in 2..3 -> Open \ {sensorData}
    [] OTHER -> Open

\* The rainfall has been read for the report that is being made.
RainRead == uploadPc = "populate" /\ uploadField > 2

\* No report has rainfall of a day that is still to be zeroed.
MidnightsInOrder ==
  /\ lastReport.midnights <= midnights
  /\ RainRead => report.midnights <= midnights

\* Since the last report what rained was added to what it tells, ...
StoredSince ==
  lastReport # NoReport /\ lastReport.midnights = midnights =>
    stored["Rainfall"] = lastReport.stored["Rainfall"] + RainIn(sensed, Rained)

\* ... which is what the next report says, ...
ReadSince ==
  RainRead =>
    /\ report.midnights = midnights => stored["Rainfall"] = report.stored["Rainfall"]
    /\ lastReport # NoReport /\ lastReport.midnights = report.midnights =>
         report.stored["Rainfall"] = lastReport.stored["Rainfall"] + RainIn(sensed, Open)

\* ... and what the last one said.
ReportedSince ==
  priorReport # NoReport /\ priorReport.midnights = lastReport.midnights =>
    lastReport.stored["Rainfall"] =
      priorReport.stored["Rainfall"] + RainIn(sensed, Range(lastReport.max))

RainInv == MidnightsInOrder /\ StoredSince /\ ReadSince /\ ReportedSince

\* What the theorems above have shown of every state.
Ordered == LifeInv /\ Snapshot /\ InOrder /\ Tally /\ GustReported

\* Messages that were taken are finitely many, and their rain is a number.
LEMMA RainFacts ==
  ASSUME Ordered, NEW S, S \subseteq 1..Taken
  PROVE  /\ IsFiniteSet(S) /\ \A i \in S : sensed[i].rain \in Nat
         /\ RainIn(sensed, S) \in Nat
<1>1. Taken \in Nat /\ Taken <= Len(sensed) /\ Len(sensed) \in Nat
  BY DEF Ordered, InOrder, Taken, LifeInv, TypeOK
<1>2. S \subseteq Arrived
  BY <1>1 DEF Arrived
<1>3. \A i \in S : sensed[i].rain \in Nat
  BY <1>2, ArrivedFacts DEF Ordered, LifeInv
<1>4. IsFiniteSet(S)
  <2>1. IsFiniteSet(1..Taken)
    BY <1>1, FS_Interval
  <2> QED BY <2>1, FS_Subset
<1> DEFINE f == [i \in S |-> sensed[i].rain]
<1>5. DOMAIN f = S /\ \A i \in S : f[i] \in Nat
  BY <1>3
<1> HIDE DEF f
<1>6. SumFunctionOnSet(f, S) \in Nat
  BY <1>4, <1>5, SumType, 0 \in Nat, \A m, n \in Nat : m + n \in Nat
<1> QED BY <1>3, <1>4, <1>5, <1>6 DEF SumFunction, RainIn, f

\* The rain of one message more.
LEMMA RainAdd ==
  ASSUME Ordered, NEW S, S \subseteq 1..Taken, NEW y \in 1..Taken, y \notin S
  PROVE  RainIn(sensed, S \cup {y}) = RainIn(sensed, S) + sensed[y].rain
<1> DEFINE T == S \cup {y}
           f == [i \in S |-> sensed[i].rain]
           g == [i \in T |-> sensed[i].rain]
<1>1. T \subseteq 1..Taken
  OBVIOUS
<1>2. IsFiniteSet(S) /\ \A i \in T : sensed[i].rain \in Nat
  <2> HIDE DEF T
  <2> QED BY <1>1, RainFacts
<1>3. DOMAIN f = S /\ DOMAIN g = T /\ \A i \in S : f[i] = g[i]
  OBVIOUS
<1>4. \A i \in S \cup {y} : g[i] \in Int
  BY <1>2
<1>5. g[y] = sensed[y].rain
  OBVIOUS
<1> HIDE DEF f, g
<1>6. SumFunctionOnSet(g, S \cup {y}) = SumFunctionOnSet(g, S) + g[y]
  BY <1>2, <1>4, SumAdd
<1>7. SumFunctionOnSet(f, S) = SumFunctionOnSet(g, S)
  BY <1>2, <1>3, SumSame
<1>8. SumFunction(f) = SumFunctionOnSet(f, S) /\ SumFunction(g) = SumFunctionOnSet(g, T)
  BY <1>3 DEF SumFunction
<1> QED BY <1>5, <1>6, <1>7, <1>8 DEF RainIn, f, g

\* What rained does not change.
LEMMA RainKept ==
  ASSUME Ordered, Ordered', [Next]_vars, NEW S, S \subseteq 1..Taken
  PROVE  RainIn(sensed', S) = RainIn(sensed, S)
<1>1. \A i \in S : sensed'[i] = sensed[i]
  BY SpeedsKept DEF Ordered
<1>2. [i \in S |-> sensed'[i].rain] = [i \in S |-> sensed[i].rain]
  BY <1>1
<1> QED BY <1>2 DEF RainIn

\* No messages bring no rain.
LEMMA NoRain == ASSUME NEW q PROVE RainIn(q, {}) = 0
<1> DEFINE f == [i \in {} |-> q[i].rain]
<1>1. DOMAIN f = {}
  OBVIOUS
<1> HIDE DEF f
<1>2. SumFunction(f) = 0
  BY <1>1, SumEmpty DEF SumFunction
<1> QED BY <1>2 DEF RainIn, f

\* The messages that are summed up have been taken.
LEMMA WindowTaken ==
  ASSUME Ordered
  PROVE  /\ Taken \in Nat /\ Open \subseteq 1..Taken /\ Rained \subseteq Open
         /\ Range(lastReport.max) \subseteq 1..Taken
         /\ Handling => sensorData = Taken /\ sensorData \in 1..Taken
         /\ weatherPc \in {"lock", "record"} /\ ~InHand => sensorData \notin Open
         /\ InHand => sensorData \in Open
<1>1. Taken \in Nat /\ Taken <= Len(sensed) /\ Len(sensed) \in Nat
  BY DEF Ordered, InOrder, Taken, LifeInv, TypeOK
<1>2. Handling => sensorData = Taken /\ sensorData \in 1..Taken
  BY <1>1 DEF Ordered, LifeInv, OnTheWay, InOrder, Arrived
<1>3. \A i : i \in Recorded => i \in 1..Taken /\ (weatherPc \in {"lock", "record"} => i # Taken)
  BY RecordedIs DEF Ordered
<1>4. Open \subseteq 1..Taken
  BY <1>2, <1>3 DEF Ordered, Tally, InHand, Handling
<1>5. weatherPc \in {"lock", "record"} /\ ~InHand => sensorData \notin Open
  BY <1>2, <1>3 DEF Ordered, Tally, Handling
<1>6. Range(lastReport.max) \subseteq 1..Taken
  BY DEF Ordered, GustReported
<1>7. InHand => sensorData \in Open
  BY DEF Ordered, Tally
<1> QED BY <1>1, <1>2, <1>4, <1>5, <1>6, <1>7 DEF Rained

-----------------------------------------------------------------------------
\* What each step does to the rainfall.  Recording adds the rain of the message
\* in hand with the third field.
LEMMA RecordRain ==
  ASSUME Ordered, RecordField
  PROVE  /\ ~RainRead /\ ~RainRead' /\ Taken' = Taken
         /\ UNCHANGED <<sensed, midnights, reportVars, report, checkedOn, raced>>
         /\ \/ /\ weatherField # 3
               /\ Rained' = Rained /\ stored'["Rainfall"] = stored["Rainfall"]
            \/ /\ weatherField = 3
               /\ Rained' = Rained \cup {sensorData} /\ sensorData \notin Rained
               /\ stored'["Rainfall"] = stored["Rainfall"] + sensed[sensorData].rain
<1> DEFINE k == weatherField
<1>0. /\ weatherPc = "record" /\ uploadPc \notin {"populate", "reset"} /\ uploadPc' = uploadPc
      /\ k \in 1..6 /\ included \in [Sampled -> Seq(Numbers)] /\ stored \in [Stored -> Int]
      /\ UNCHANGED <<sensed, weatherQueue, sensorData, midnights, reportVars, report,
                     checkedOn, raced>>
  BY ConstantsAssumption
  DEF RecordField, uploadVars, aroundVars, dayVars, Ordered, LifeInv, TypeOK, MutexOwner
<1>1. ~RainRead /\ ~RainRead' /\ Taken' = Taken
  BY <1>0 DEF RainRead, Taken
<1>2. /\ sensorData \in Numbers /\ sensed[sensorData].rain \in Nat
  BY <1>0, ArrivedFacts DEF Ordered, LifeInv, OnTheWay, Handling
<1>3. k < 6 => weatherPc' = "record" /\ weatherField' = k + 1
  BY <1>0 DEF RecordField
<1>4. k = 6 => weatherPc' = "clock"
  BY <1>0 DEF RecordField
<1>5. CASE k = 1
  <2>1. RecordOrder[k] = "Humidity" /\ "Humidity" \in Sampled /\ "Humidity" \notin Stored
    BY <1>5 DEF RecordOrder, Sampled, Stored
  <2>2. IncludeValue("Humidity")
    BY <2>1 DEF RecordField, StoreValue
  <2>3. included'["Humidity"] = Append(included["Humidity"], sensorData) /\ stored' = stored
    BY <1>0, <2>1, <2>2 DEF IncludeValue
  <2>4. Open' = Open \cup {sensorData}
    BY <1>0, <2>1, <2>3, RangeOfAppend DEF Open
  <2>5. sensorData \notin Open
    BY <1>0, <1>5, WindowTaken DEF InHand
  <2>6. Rained = Open
    BY <1>0, <1>5 DEF Rained
  <2>7. Rained' = Open' \ {sensorData}
    BY <1>0, <1>3, <1>5 DEF Rained
  <2> QED BY <1>0, <1>1, <1>5, <2>3, <2>4, <2>5, <2>6, <2>7
<1>6. CASE k = 3
  <2>1. RecordOrder[k] = "Rainfall" /\ "Rainfall" \in Stored /\ "Rainfall" \notin Sampled
    BY <1>6 DEF RecordOrder, Sampled, Stored
  <2>2. StoreValue("Rainfall")
    BY <2>1 DEF RecordField, IncludeValue
  <2>3. included' = included /\ stored' = [stored EXCEPT !["Rainfall"] = sensed[sensorData].rain + @]
    BY <2>2 DEF StoreValue
  <2>4. stored'["Rainfall"] = stored["Rainfall"] + sensed[sensorData].rain
    BY <1>0, <1>2, <2>1, <2>3
  <2>5. Open' = Open /\ sensorData \in Open
    BY <1>0, <1>6, <2>3, WindowTaken DEF Open, InHand
  <2>6. Rained = Open \ {sensorData}
    BY <1>0, <1>6 DEF Rained
  <2>7. Rained' = Open'
    BY <1>0, <1>3, <1>6 DEF Rained
  <2> QED BY <1>0, <1>1, <1>6, <2>4, <2>5, <2>6, <2>7
<1>7. CASE k \in {2, 4, 5, 6}
  <2>1. /\ RecordOrder[k] # "Humidity" /\ RecordOrder[k] # "Rainfall"
        /\ RecordOrder[k] = "WindDirectionAtMaxSpeed" \/ RecordOrder[k] \in Sampled
    BY <1>7 DEF RecordOrder, Sampled
  <2>2. included'["Humidity"] = included["Humidity"]
    <3>1. CASE IncludeValue(RecordOrder[k])
      BY <1>0, <2>1, <3>1 DEF IncludeValue, Sampled
    <3>2. CASE StoreValue(RecordOrder[k])
      BY <3>2 DEF StoreValue
    <3> QED BY <3>1, <3>2 DEF RecordField
  <2>3. stored'["Rainfall"] = stored["Rainfall"]
    <3>1. CASE IncludeValue(RecordOrder[k])
      BY <3>1 DEF IncludeValue
    <3>2. CASE StoreValue(RecordOrder[k])
      <4>1. RecordOrder[k] = "WindDirectionAtMaxSpeed"
        BY <2>1, <3>2 DEF StoreValue, Stored, Sampled
      <4> QED BY <1>0, <3>2, <4>1 DEF StoreValue, Stored
    <3> QED BY <3>1, <3>2 DEF RecordField
  <2>4. Open' = Open
    BY <2>2 DEF Open
  <2>5. Rained' = Rained
    <3>1. CASE k = 2
      BY <1>0, <1>3, <2>4, <3>1 DEF Rained
    <3>2. CASE k \in {4, 5}
      BY <1>0, <1>3, <2>4, <3>2 DEF Rained
    <3>3. CASE k = 6
      BY <1>0, <1>4, <2>4, <3>3 DEF Rained
    <3> QED BY <1>7, <3>1, <3>2, <3>3
  <2> QED BY <1>0, <1>1, <1>7, <2>3, <2>5
<1> QED BY <1>0, <1>5, <1>6, <1>7

\* r tells the rainfall that report tells.
SameRead(r) ==
  /\ r.stored["Rainfall"] = report.stored["Rainfall"]
  /\ r.midnights = report.midnights /\ r.upto = report.upto

\* Populating reads the rainfall with the second field and publishes it with the
\* last.
LEMMA PopulateRain ==
  ASSUME Ordered, PopulateField
  PROVE  /\ UNCHANGED <<sensed, weatherQueue, sensorData, stored, weatherPc, weatherField, dayVars>>
         /\ Rained = Open /\ Open' = Open
         /\ \/ ~RainRead /\ ~RainRead' /\ Rained' = Open /\ UNCHANGED reportVars
            \/ /\ ~RainRead /\ RainRead' /\ Rained' = Open /\ UNCHANGED reportVars
               /\ report'.stored["Rainfall"] = stored["Rainfall"]
               /\ report'.midnights = midnights /\ report'.upto = Settled
            \/ /\ RainRead /\ RainRead' /\ Rained' = Open /\ UNCHANGED reportVars
               /\ SameRead(report')
            \/ /\ RainRead /\ ~RainRead' /\ Rained' = {}
               /\ priorReport' = lastReport /\ SameRead(lastReport')
               /\ Range(lastReport'.max) = Open
<1> DEFINE k == uploadField
           f == PopulateOrder[k]
<1>0. /\ uploadPc = "populate" /\ weatherPc # "record"
      /\ k \in 1..6 /\ report \in Reports
      /\ UNCHANGED <<sensed, weatherQueue, sensorData, included, stored, weatherPc, weatherField,
                     dayVars>>
  BY ConstantsAssumption
  DEF PopulateField, weatherVars, dataVars, aroundVars, Ordered, LifeInv, TypeOK, MutexOwner
<1>1. Rained = Open /\ Open' = Open
  BY <1>0 DEF Rained, Open
<1>2. CASE k < 6
  <2>1. report' = Populated(f) /\ uploadField' = k + 1 /\ UNCHANGED <<uploadPc, reportVars>>
    BY <1>2 DEF PopulateField
  <2>2. Rained' = Open
    BY <1>0, <1>1, <2>1 DEF Rained
  <2>3. CASE k = 1
    <3>1. ~RainRead /\ ~RainRead'
      BY <2>1, <2>3 DEF RainRead
    <3> QED BY <1>0, <1>1, <2>1, <2>2, <3>1
  <2>4. CASE k = 2
    <3>1. ~RainRead /\ RainRead'
      BY <1>0, <2>1, <2>4 DEF RainRead
    <3>2. f = "Rainfall"
      BY <2>4 DEF PopulateOrder
    <3>3. report' = [report EXCEPT !.stored["Rainfall"] = stored["Rainfall"],
                                   !.midnights = midnights, !.upto = Settled]
      BY <2>1, <3>2 DEF Populated, Sampled
    <3>4. /\ report'.stored["Rainfall"] = stored["Rainfall"]
          /\ report'.midnights = midnights /\ report'.upto = Settled
      BY <1>0, <3>3 DEF Reports, Stored
    <3> QED BY <1>0, <1>1, <2>1, <2>2, <3>1, <3>4
  <2>5. CASE k \in 3..5
    <3>1. RainRead /\ RainRead'
      BY <1>0, <2>1, <2>5 DEF RainRead
    <3>2. f \in Sampled
      BY <2>5 DEF PopulateOrder, Sampled
    <3>3. /\ report'.stored = report.stored /\ report'.midnights = report.midnights
          /\ report'.upto = report.upto
      BY <1>0, <2>1, <3>2 DEF Populated, Sampled, Reports
    <3>4. SameRead(report')
      BY <3>3 DEF SameRead
    <3> QED BY <1>0, <1>1, <2>1, <2>2, <3>1, <3>4
  <2> QED BY <1>0, <1>2, <2>3, <2>4, <2>5
<1>3. CASE k = 6
  <2>1. Publish(Populated(f)) /\ uploadPc' = "reset"
    BY <1>3 DEF PopulateField
  <2>2. f = "WindDirectionAtMaxSpeed"
    BY <1>3 DEF PopulateOrder
  <2>3. Populated(f) = [report EXCEPT !.stored[f] = stored[f]]
    BY <2>2 DEF Populated, Sampled
  <2>4. lastReport' = [report EXCEPT !.stored[f] = stored[f]] /\ priorReport' = lastReport
    BY <2>1, <2>3 DEF Publish
  <2>5. lastReport'.max = report.max /\ SameRead(lastReport')
    BY <1>0, <2>2, <2>4 DEF Reports, SameRead, Stored
  <2>6. report.max = included["Humidity"]
    BY <1>0, <1>3 DEF Ordered, Snapshot, Populating, OneWindow, Sampled
  <2>7. Range(lastReport'.max) = Open
    BY <2>5, <2>6 DEF Open
  <2>8. RainRead /\ ~RainRead' /\ Rained' = {}
    BY <1>0, <1>3, <2>1 DEF RainRead, Rained
  <2> QED BY <1>0, <1>1, <2>4, <2>5, <2>7, <2>8
<1> QED BY <1>0, <1>2, <1>3

\* A new window has nothing that rained, also when its fields are all reset.
LEMMA ResetRain ==
  ASSUME Ordered, ResetField
  PROVE  /\ UNCHANGED <<sensed, weatherQueue, sensorData, stored, weatherPc, weatherField, dayVars,
                        reportVars>>
         /\ ~RainRead /\ ~RainRead' /\ Rained = {} /\ Rained' = {}
<1> DEFINE k == uploadField
<1>0. /\ uploadPc = "reset" /\ weatherPc # "record"
      /\ k \in 1..6 /\ included \in [Sampled -> Seq(Numbers)] /\ "Humidity" \in Sampled
      /\ UNCHANGED <<sensed, weatherQueue, sensorData, stored, weatherPc, weatherField, dayVars,
                     reportVars>>
  BY ConstantsAssumption
  DEF ResetField, weatherVars, aroundVars, Ordered, LifeInv, TypeOK, MutexOwner, Sampled
<1>1. Rained = {} /\ ~RainRead
  BY <1>0 DEF Rained, RainRead
<1>2. CASE k < 6
  <2>1. uploadPc' = "reset"
    BY <1>0, <1>2 DEF ResetField
  <2> QED BY <1>0, <1>1, <2>1 DEF Rained, RainRead
<1>3. CASE k = 6
  <2>1. 1 \in 1..(k - 1) /\ ResetOrder[1] = "Humidity" /\ ResetOrder[k] # "Humidity"
    BY <1>3 DEF ResetOrder
  <2>2. included["Humidity"] = <<>>
    BY <1>0, <2>1 DEF Ordered, Snapshot, Resetting
  <2>3. included'["Humidity"] = <<>>
    BY <1>0, <2>1, <2>2 DEF ResetField
  <2>4. Open' = {} /\ uploadPc' = "check"
    BY <1>3, <2>3 DEF Open, Range, ResetField
  <2> QED BY <1>0, <1>1, <2>4 DEF Rained, RainRead
<1> QED BY <1>0, <1>2, <1>3

\* The other steps leave all of it alone, but for the one at midnight.
LEMMA OthersRain ==
  ASSUME Ordered, [Next]_vars, ~RecordField, ~PopulateField, ~ResetField, ~ZeroRainfall
  PROVE  /\ UNCHANGED <<stored, midnights, reportVars, report>>
         /\ Open' = Open /\ Rained' = Rained /\ (RainRead' <=> RainRead)
<1> USE DEF weatherVars, uploadVars, dataVars, aroundVars, reportVars, dayVars
<1>1. CASE LockRecord
  <2>1. /\ weatherPc = "lock" /\ weatherField = 1 /\ weatherField' = weatherField
        /\ UNCHANGED <<included, uploadPc, uploadField, stored, midnights, reportVars, report>>
    BY <1>1 DEF LockRecord, Ordered, LifeInv, OnTheWay
  <2> QED BY <2>1 DEF Open, Rained, RainRead
<1>2. CASE LockUpload
  <2>1. /\ uploadField = 1 /\ uploadField' = uploadField /\ uploadPc = "lock" /\ uploadPc' = "populate"
        /\ UNCHANGED <<included, weatherPc, weatherField, sensorData, stored, midnights, reportVars, report>>
    BY <1>2 DEF LockUpload, Ordered, LifeInv, OnTheWay
  <2> QED BY <2>1 DEF Open, Rained, RainRead
<1>3. CASE UploadCheck \/ UploadWake
  <2>1. /\ uploadPc \notin {"populate", "reset"} /\ uploadPc' \notin {"populate", "reset"}
        /\ UNCHANGED <<included, weatherPc, weatherField, sensorData, stored, midnights, reportVars, report>>
    BY <1>3 DEF UploadCheck, UploadWake
  <2> QED BY <2>1 DEF Open, Rained, RainRead
<1>4. CASE WeatherCheck \/ PopMessage \/ ReadClock \/ CrossedMidnight \/ JoinUpload
  <2>1. /\ weatherPc # "record" /\ weatherPc' # "record"
        /\ UNCHANGED <<included, uploadPc, uploadField, stored, midnights, reportVars, report>>
    BY <1>4 DEF WeatherCheck, PopMessage, ReadClock, CrossedMidnight, JoinUpload
  <2> QED BY <2>1 DEF Open, Rained, RainRead
<1>5. CASE Arrive \/ Reset \/ NewDay \/ UNCHANGED vars
  <2>1. /\ UNCHANGED <<included, uploadPc, uploadField, stored, midnights, reportVars, report,
                       weatherPc, weatherField, sensorData>>
    BY <1>5 DEF Arrive, Reset, NewDay, vars
  <2> QED BY <2>1 DEF Open, Rained, RainRead
<1> QED BY <1>1, <1>2, <1>3, <1>4, <1>5 DEF Next, WeatherStep, UploadStep

-----------------------------------------------------------------------------
\* The integers the sums are compared with.
LEMMA RainTypes ==
  ASSUME Ordered
  PROVE  /\ stored["Rainfall"] \in Int /\ midnights \in Nat
         /\ report.stored["Rainfall"] \in Int /\ report.midnights \in Nat
         /\ lastReport.stored["Rainfall"] \in Int /\ lastReport.midnights \in Nat
         /\ priorReport.stored["Rainfall"] \in Int /\ priorReport.midnights \in Nat
         /\ RainIn(sensed, Rained) \in Nat /\ RainIn(sensed, Open) \in Nat
<1>1. stored \in [Stored -> Int] /\ midnights \in Nat /\ "Rainfall" \in Stored
      /\ report \in Reports /\ lastReport \in Reports /\ priorReport \in Reports
  BY DEF Ordered, LifeInv, TypeOK, Stored
<1>2. RainIn(sensed, Rained) \in Nat /\ RainIn(sensed, Open) \in Nat
  <2>1. Open \subseteq 1..Taken /\ Rained \subseteq 1..Taken
    BY WindowTaken
  <2> QED BY <2>1, RainFacts
<1> QED BY <1>1, <1>2 DEF Reports

\* A step that leaves the stored rainfall and the reports alone.
LEMMA SameRain ==
  ASSUME Ordered, Ordered', [Next]_vars, RainInv,
         UNCHANGED <<stored["Rainfall"], midnights, reportVars>>, Rained' = Rained,
         RainRead' => /\ RainRead /\ Open' = Open /\ SameRead(report')
  PROVE  RainInv'
<1> DEFINE mine == Range(lastReport.max)
<1>1. UNCHANGED <<lastReport, priorReport>>
  BY DEF reportVars
<1>2. Rained \subseteq 1..Taken /\ Open \subseteq 1..Taken /\ mine \subseteq 1..Taken
  BY WindowTaken
<1> HIDE DEF mine
<1>3. /\ RainIn(sensed', Rained) = RainIn(sensed, Rained)
      /\ RainIn(sensed', Open) = RainIn(sensed, Open)
      /\ RainIn(sensed', mine) = RainIn(sensed, mine)
  BY <1>2, RainKept
<1>4. mine' = mine
  BY <1>1 DEF mine
<1>5. MidnightsInOrder'
  BY <1>1 DEF RainInv, MidnightsInOrder, SameRead
<1>6. StoredSince'
  BY <1>1, <1>3 DEF RainInv, StoredSince
<1>7. ReadSince'
  BY <1>1, <1>3 DEF RainInv, ReadSince, SameRead
<1>8. ReportedSince'
  BY <1>1, <1>3, <1>4 DEF RainInv, ReportedSince, mine
<1> QED BY <1>5, <1>6, <1>7, <1>8 DEF RainInv

\* Every step keeps RainInv.
LEMMA NextRain ==
  ASSUME Ordered, Ordered', [Next]_vars, RainInv
  PROVE  RainInv'
<1> DEFINE mine == Range(lastReport.max)
           rain == stored["Rainfall"]
<1>0. Rained \subseteq 1..Taken /\ Open \subseteq 1..Taken /\ mine \subseteq 1..Taken
  BY WindowTaken
<1>1. CASE RecordField
  <2>1. /\ ~RainRead /\ ~RainRead'
        /\ UNCHANGED <<sensed, midnights, lastReport, priorReport, report>>
    BY <1>1, RecordRain DEF reportVars
  <2>2. /\ rain' - RainIn(sensed, Rained') = rain - RainIn(sensed, Rained)
        /\ rain' \in Int /\ RainIn(sensed, Rained') \in Nat
    <3>1. CASE Rained' = Rained /\ rain' = rain
      BY <3>1, RainTypes
    <3>2. CASE /\ Rained' = Rained \cup {sensorData} /\ sensorData \notin Rained
               /\ rain' = rain + sensed[sensorData].rain
      <4>1. sensorData \in 1..Taken /\ weatherPc = "record"
        BY <1>1, WindowTaken DEF RecordField, Handling
      <4>2. RainIn(sensed, Rained') = RainIn(sensed, Rained) + sensed[sensorData].rain
        BY <1>0, <3>2, <4>1, RainAdd
      <4>3. sensed[sensorData].rain \in Nat
        BY <4>1, RainFacts
      <4> QED BY <3>2, <4>2, <4>3, RainTypes
    <3> QED BY <1>1, <3>1, <3>2, RecordRain
  <2>4. StoredSince'
    BY <2>1, <2>2, RainTypes DEF RainInv, StoredSince
  <2>5. MidnightsInOrder' /\ ReadSince'
    BY <2>1 DEF RainInv, MidnightsInOrder, ReadSince
  <2>6. ReportedSince'
    BY <2>1 DEF RainInv, ReportedSince
  <2> QED BY <2>4, <2>5, <2>6 DEF RainInv
<1>2. CASE ZeroRainfall
  <2>1. /\ midnights' = midnights + 1
        /\ UNCHANGED <<sensed, lastReport, priorReport, report, included, uploadPc, uploadField>>
    BY <1>2 DEF ZeroRainfall, aroundVars, reportVars, uploadVars
  <2>2. (RainRead' <=> RainRead) /\ Open' = Open
    BY <2>1 DEF RainRead, Open
  <2>3. MidnightsInOrder'
    BY <2>1, <2>2, RainTypes DEF RainInv, MidnightsInOrder
  <2>4. StoredSince'
    BY <2>1, RainTypes DEF RainInv, MidnightsInOrder, StoredSince
  <2>5. ReadSince'
    BY <2>1, <2>2, RainTypes DEF RainInv, MidnightsInOrder, ReadSince
  <2>6. ReportedSince'
    BY <2>1 DEF RainInv, ReportedSince
  <2> QED BY <2>3, <2>4, <2>5, <2>6 DEF RainInv
<1>3. CASE PopulateField
  <2>1. /\ UNCHANGED <<sensed, stored, midnights>> /\ Rained = Open /\ Open' = Open
    BY <1>3, PopulateRain DEF dayVars
  <2>2. CASE Rained' = Open /\ UNCHANGED reportVars /\ (RainRead' => RainRead /\ SameRead(report'))
    BY <2>1, <2>2, SameRain
  <2>3. CASE /\ RainRead' /\ Rained' = Open /\ UNCHANGED reportVars
             /\ report'.stored["Rainfall"] = rain /\ report'.midnights = midnights
    <3>1. UNCHANGED <<lastReport, priorReport>>
      BY <2>3 DEF reportVars
    <3>2. MidnightsInOrder'
      BY <2>1, <2>3, <3>1, RainTypes DEF RainInv, MidnightsInOrder
    <3>3. StoredSince'
      BY <2>1, <2>3, <3>1 DEF RainInv, StoredSince
    <3>4. ReadSince'
      BY <2>1, <2>3, <3>1 DEF RainInv, StoredSince, ReadSince
    <3>5. ReportedSince'
      BY <2>1, <3>1 DEF RainInv, ReportedSince
    <3> QED BY <3>2, <3>3, <3>4, <3>5 DEF RainInv
  <2>4. CASE /\ RainRead /\ ~RainRead' /\ Rained' = {} /\ priorReport' = lastReport
             /\ SameRead(lastReport') /\ Range(lastReport'.max) = Open
    <3>1. MidnightsInOrder'
      BY <2>1, <2>4 DEF RainInv, MidnightsInOrder, SameRead
    <3>2. StoredSince'
      <4>1. RainIn(sensed', Rained') = 0
        BY <2>4, NoRain
      <4>2. lastReport'.midnights = midnights => rain = lastReport'.stored["Rainfall"] + 0
        BY <2>4, RainTypes DEF RainInv, ReadSince, SameRead
      <4> QED BY <2>1, <4>1, <4>2 DEF StoredSince
    <3>3. ReadSince'
      BY <2>4 DEF ReadSince
    <3>4. ReportedSince'
      BY <2>1, <2>4 DEF RainInv, ReadSince, ReportedSince, SameRead
    <3> QED BY <3>1, <3>2, <3>3, <3>4 DEF RainInv
  <2> QED BY <1>3, <2>2, <2>3, <2>4, PopulateRain
<1>4. CASE ResetField
  BY <1>4, ResetRain, SameRain DEF dayVars
<1>5. CASE ~(RecordField \/ ZeroRainfall \/ PopulateField \/ ResetField)
  BY <1>5, OthersRain, SameRain DEF SameRead
<1> QED BY <1>1, <1>2, <1>3, <1>4, <1>5

\* Ordered holds throughout.
LEMMA AlwaysOrdered == SafeSpec => []Ordered
<1>1. Init => InOrder /\ Tally /\ Gust /\ GustReported
  BY InitTally, InitGust
<1>2. LifeInv /\ Snapshot /\ InOrder /\ InOrder' /\ Gust /\ GustReported /\ [Next]_vars
        => Gust' /\ GustReported'
  BY NextGust
<1>3. LifeInv /\ Snapshot /\ InOrder /\ Tally /\ GustReported => Ordered
  BY DEF Ordered
<1> QED BY <1>1, <1>2, <1>3, NextInOrder, NextTally, TypeAndMutex, AlwaysSnapshot, PTL DEF SafeSpec

\* For any number of messages, days and amounts of rain, the rainfall of a report
\* is that of the one before and what fell in between, unless midnight did.
THEOREM RainfallIsAddedUp == SafeSpec => []RainfallAddsUp
<1>1. Init => RainInv
  <2> SUFFICES ASSUME Init PROVE RainInv
    OBVIOUS
  <2>1. lastReport = NoReport /\ priorReport = NoReport /\ uploadPc = "check" /\ midnights = 0
    BY DEF Init
  <2>2. lastReport.midnights = 0 /\ ~RainRead
    BY <2>1 DEF NoReport, RainRead
  <2> QED BY <2>1, <2>2 DEF RainInv, MidnightsInOrder, StoredSince, ReadSince, ReportedSince
<1>2. Ordered /\ Ordered' /\ RainInv /\ [Next]_vars => RainInv'
  BY NextRain
<1>3. RainInv => RainfallAddsUp
  BY DEF RainInv, ReportedSince, RainfallAddsUp, RainOf, RainIn
<1> QED BY <1>1, <1>2, <1>3, AlwaysOrdered, PTL DEF SafeSpec

-----------------------------------------------------------------------------
(* The rainfall of a day *)

\* weatherThread is through with the messages 1..Through.
Through == IF Handling THEN Taken - 1 ELSE Taken

\* The day of message n, and before the first message that of the start.
DayOf(days, n) == IF n = 0 THEN 0 ELSE days[n]

\* The messages up to n that are of its day, but for the first of these, ...
LaterOf(days, n) ==
  {i \in 1..n : days[i] = days[n] /\ \E j \in 1..n : j < i /\ days[j] = days[n]}

\* ... and their rain.
LaterRain(messages, days, n) == RainIn(messages, LaterOf(days, n))

(***************************************************************************)
(* The days of the messages follow each other.  previousDay is that of the *)
(* last message that weatherThread is through with; between the comparison *)
(* and the zero it is that of the message in hand, the first of its day.   *)
(***************************************************************************)
DaysInOrder ==
  ~raced =>
    /\ \A i, j \in 1..Through : i <= j => checkedOn[i] <= checkedOn[j]
    /\ \A i \in 1..Through : checkedOn[i] <= today
    /\ weatherPc # "zero" => previousDay = DayOf(checkedOn, Through)
    /\ weatherPc = "midnight" =>
         /\ checkedOn[Taken] = rawDay /\ rawDay <= today
         /\ \A i \in 1..Through : checkedOn[i] <= rawDay
    /\ weatherPc = "zero" =>
         /\ checkedOn[Taken] = previousDay /\ previousDay <= today
         /\ \A i \in 1..Through : checkedOn[i] < previousDay

\* What the message in hand has added to the stored rainfall.
Added ==
  IF weatherPc \in {"clock", "midnight"} \/ (weatherPc = "record" /\ weatherField > 3)
    THEN sensed[sensorData].rain ELSE 0

\* The rain of the day is stored, but for what its first message brought, ...
StoredToday ==
  ~raced /\ weatherPc # "zero" /\ DayOf(checkedOn, Through) # 0 =>
    stored["Rainfall"] = LaterRain(sensed, checkedOn, Through) + Added

\* ... read and reported.
ReadToday ==
  RainRead =>
    /\ report.upto <= Through
    /\ ~raced /\ DayOf(checkedOn, report.upto) # 0 =>
         report.stored["Rainfall"] = LaterRain(sensed, checkedOn, report.upto)

ReportedToday ==
  /\ lastReport.upto <= Through
  /\ ~raced /\ DayOf(checkedOn, lastReport.upto) # 0 =>
       lastReport.stored["Rainfall"] = LaterRain(sensed, checkedOn, lastReport.upto)

DayInv == DaysInOrder /\ StoredToday /\ ReadToday /\ ReportedToday

\* The message in hand is the one after those.
LEMMA ThroughIs ==
  ASSUME Ordered
  PROVE  /\ Taken \in Nat /\ Through \in Nat /\ Through <= Taken
         /\ Handling => Taken = Through + 1 /\ sensorData = Taken /\ Taken \in Numbers
         /\ \A i \in 1..Taken : checkedOn[i] \in Nat
         /\ today \in Nat /\ previousDay \in Nat /\ rawDay \in Nat
<1>1. Taken \in Nat /\ (Handling => sensorData = Taken /\ sensorData \in 1..Taken)
  BY WindowTaken
<1>2. 1..Taken \subseteq Numbers
  <2>1. Taken <= Len(sensed) /\ Len(sensed) \in Nat /\ Len(sensed) <= MaxMessages
    BY DEF Ordered, InOrder, Taken, LifeInv, TypeOK, OnTheWay
  <2> QED BY <1>1, <2>1, ConstantsAssumption DEF Numbers
<1>3. Days \subseteq Nat
  BY DEF Days
<1>4. checkedOn \in [Numbers -> Days] /\ {today, previousDay, rawDay} \subseteq Days
  BY DEF Ordered, LifeInv, TypeOK
<1>5. \A i \in 1..Taken : checkedOn[i] \in Nat
  BY <1>2, <1>3, <1>4
<1>6. Handling => Taken \in 1..Taken /\ Taken \in Numbers
  BY <1>1, <1>2
<1>7. CASE Handling
  <2>1. Through = Taken - 1
    BY <1>7 DEF Through
  <2>2. Taken >= 1
    BY <1>1, <1>6, <1>7
  <2>3. Through \in Nat /\ Through <= Taken /\ Taken = Through + 1
    BY <1>1, <2>1, <2>2
  <2> QED BY <1>1, <1>3, <1>4, <1>5, <1>6, <1>7, <2>3
<1>8. CASE ~Handling
  <2>1. Through = Taken
    BY <1>8 DEF Through
  <2>2. Through \in Nat /\ Through <= Taken
    BY <1>1, <2>1
  <2> QED BY <1>1, <1>3, <1>4, <1>5, <1>8, <2>2
<1> QED BY <1>7, <1>8

\* weatherThread is through with more and more messages, whose days stay.
LEMMA DaysKept ==
  ASSUME Ordered, Ordered', [Next]_vars
  PROVE  /\ Through' \in Nat /\ Through <= Through' /\ (raced => raced')
         /\ \A i \in 1..Through : checkedOn'[i] = checkedOn[i]
         /\ ~CrossedMidnight /\ ~ZeroRainfall => Through' = Through
<1> USE DEF weatherVars, uploadVars, dataVars, aroundVars, reportVars, dayVars
<1>1. Taken \in Nat /\ Taken' \in Nat
  BY SpeedsKept DEF Ordered
<1>0. Through \in Nat /\ Through' \in Int
  BY <1>1, ThroughIs DEF Through
<1>2. CASE Arrive
  <2>1. /\ Len(sensed) \in Nat /\ weatherQueue \in Seq(Numbers) /\ sensed \in Seq(Messages)
    BY DEF Ordered, LifeInv, TypeOK
  <2>2. PICK m : sensed' = Append(sensed, m)
    BY <1>2 DEF Arrive
  <2>3. /\ weatherQueue' = Append(weatherQueue, Len(sensed) + 1)
        /\ UNCHANGED <<weatherPc, checkedOn, raced>>
    BY <1>2 DEF Arrive
  <2>4. Taken' = Taken
    BY <2>1, <2>2, <2>3 DEF Taken
  <2> QED BY <1>0, <1>1, <2>3, <2>4 DEF Through, Handling
<1>3. CASE PopMessage
  <2>1. /\ weatherQueue \in Seq(Numbers) /\ weatherQueue # <<>> /\ weatherQueue' = Tail(weatherQueue)
        /\ Len(sensed) \in Nat /\ sensed' = sensed /\ weatherPc = "pop" /\ weatherPc' = "lock"
        /\ UNCHANGED <<checkedOn, raced>>
    BY <1>3 DEF PopMessage, Ordered, LifeInv, TypeOK
  <2>2. Taken' = Taken + 1
    BY <2>1 DEF Taken
  <2> QED BY <1>0, <1>1, <2>1, <2>2 DEF Through, Handling
<1>4. CASE ReadClock
  <2>1. /\ Handling /\ Handling' /\ UNCHANGED <<sensed, weatherQueue, raced>>
        /\ checkedOn' = [checkedOn EXCEPT ![sensorData] = today]
    BY <1>4 DEF ReadClock, Handling
  <2>2. Taken' = Taken /\ Through' = Through
    BY <2>1 DEF Taken, Through
  <2>3. sensorData = Through + 1 /\ Through \in Nat
    BY <2>1, ThroughIs
  <2> QED BY <1>0, <2>1, <2>2, <2>3
<1>5. CASE CrossedMidnight \/ ZeroRainfall
  <2>1. Handling /\ UNCHANGED <<sensed, weatherQueue, checkedOn>>
    BY <1>5 DEF CrossedMidnight, ZeroRainfall, Handling
  <2>3. raced => raced'
    <3>1. CASE CrossedMidnight
      BY <3>1 DEF CrossedMidnight
    <3>2. CASE ZeroRainfall
      BY <3>2 DEF ZeroRainfall
    <3> QED BY <1>5, <3>1, <3>2
  <2>2. Taken' = Taken
    BY <2>1 DEF Taken
  <2> QED BY <1>0, <1>1, <1>5, <2>1, <2>2, <2>3 DEF Through
<1>6. CASE ~(Arrive \/ PopMessage \/ ReadClock \/ CrossedMidnight \/ ZeroRainfall)
  <2>1. UNCHANGED <<sensed, weatherQueue, checkedOn, raced>>
    BY <1>6 DEF Next, WeatherStep, UploadStep, Reset, NewDay, WeatherCheck, LockRecord,
                RecordField, JoinUpload, UploadCheck, UploadWake, LockUpload, PopulateField,
                ResetField, vars
  <2>2. Handling' <=> Handling
    BY <1>6 DEF Handling, Next, WeatherStep, UploadStep, Reset, NewDay, WeatherCheck, LockRecord,
                RecordField, JoinUpload, UploadCheck, UploadWake, LockUpload, PopulateField,
                ResetField, vars
  <2> QED BY <1>0, <1>1, <2>1, <2>2 DEF Taken, Through
<1> QED BY <1>2, <1>3, <1>4, <1>5, <1>6

\* What rained on the day of a message goes on to hold.
LEMMA LaterKept ==
  ASSUME Ordered, Ordered', [Next]_vars, NEW n \in Nat, n <= Through
  PROVE  /\ LaterRain(sensed', checkedOn', n) = LaterRain(sensed, checkedOn, n)
         /\ DayOf(checkedOn', n) = DayOf(checkedOn, n)
         /\ n <= Through'
<1>1. /\ Through \in Nat /\ Through' \in Nat /\ Through <= Taken /\ Through <= Through'
      /\ \A i \in 1..Through : checkedOn'[i] = checkedOn[i]
  BY ThroughIs, DaysKept
<1>2. Taken \in Nat
  BY ThroughIs
<1>3. \A i \in 1..n : checkedOn'[i] = checkedOn[i] /\ i \in 1..Taken
  BY <1>1, <1>2
<1>4. n # 0 => n \in 1..n
  OBVIOUS
<1>5. LaterOf(checkedOn', n) = LaterOf(checkedOn, n)
  BY <1>3, <1>4 DEF LaterOf
<1>6. LaterOf(checkedOn, n) \subseteq 1..Taken
  BY <1>3 DEF LaterOf
<1>7. RainIn(sensed', LaterOf(checkedOn, n)) = RainIn(sensed, LaterOf(checkedOn, n))
  BY <1>6, RainKept
<1> QED BY <1>1, <1>3, <1>4, <1>5, <1>7 DEF LaterRain, DayOf

\* The rain of a day is a number; the next message of the day adds its own, ...
LEMMA LaterOneMore ==
  ASSUME Ordered, NEW n \in Nat, n # 0, n + 1 <= Taken, checkedOn[n + 1] = checkedOn[n]
  PROVE  LaterRain(sensed, checkedOn, n + 1)
           = LaterRain(sensed, checkedOn, n) + sensed[n + 1].rain
<1>1. Taken \in Nat /\ n \in 1..(n + 1) /\ n + 1 \in 1..Taken /\ n \in 1..n
  BY ThroughIs
<1>2. ASSUME NEW i \in 1..(n + 1)
      PROVE  i \in LaterOf(checkedOn, n + 1) <=> i \in LaterOf(checkedOn, n) \/ i = n + 1
  <2>1. CASE i = n + 1
    BY <1>1, <2>1 DEF LaterOf
  <2>2. CASE i # n + 1
    <3>1. i \in 1..n /\ \A j \in 1..(n + 1) : j < i => j \in 1..n
      BY <2>2
    <3>2. \A j \in 1..n : j \in 1..(n + 1)
      OBVIOUS
    <3> QED BY <2>2, <3>1, <3>2 DEF LaterOf
  <2> QED BY <2>1, <2>2
<1>3. LaterOf(checkedOn, n + 1) = LaterOf(checkedOn, n) \cup {n + 1}
  <2>1. LaterOf(checkedOn, n + 1) \subseteq 1..(n + 1) /\ LaterOf(checkedOn, n) \subseteq 1..(n + 1)
    BY DEF LaterOf
  <2> QED BY <1>2, <2>1
<1>4. LaterOf(checkedOn, n) \subseteq 1..Taken /\ n + 1 \notin LaterOf(checkedOn, n)
  BY <1>1 DEF LaterOf
<1>5. RainIn(sensed, LaterOf(checkedOn, n) \cup {n + 1})
        = RainIn(sensed, LaterOf(checkedOn, n)) + sensed[n + 1].rain
  BY <1>1, <1>4, RainAdd
<1> QED BY <1>3, <1>5 DEF LaterRain

\* ... and the first message of a day has none before it.
LEMMA LaterNone ==
  ASSUME NEW n \in Nat, NEW days, NEW messages, \A i \in 1..n : i # n => days[i] # days[n]
  PROVE  LaterRain(messages, days, n) = 0
<1>1. LaterOf(days, n) = {}
  BY DEF LaterOf
<1> QED BY <1>1, NoRain DEF LaterRain

LEMMA LaterType ==
  ASSUME Ordered, NEW n \in Nat, n <= Taken
  PROVE  LaterRain(sensed, checkedOn, n) \in Nat
<1>1. LaterOf(checkedOn, n) \subseteq 1..Taken
  BY ThroughIs DEF LaterOf
<1> QED BY <1>1, RainFacts DEF LaterRain

-----------------------------------------------------------------------------
\* Every step keeps DaysInOrder.
LEMMA NextDaysInOrder ==
  ASSUME Ordered, Ordered', DaysInOrder, [Next]_vars
  PROVE  DaysInOrder'
<1> SUFFICES ASSUME ~raced' PROVE DaysInOrder'
  BY DEF DaysInOrder
<1> USE DEF weatherVars, uploadVars, dataVars, aroundVars, reportVars, dayVars
<1>0. ~raced
  BY DaysKept
<1>1. /\ Through \in Nat /\ Taken \in Nat /\ (Handling => Taken = Through + 1 /\ sensorData = Taken)
      /\ \A i \in 1..Through : checkedOn'[i] = checkedOn[i] /\ i \in 1..Taken
      /\ \A i \in 1..Taken : checkedOn[i] \in Nat
      /\ today \in Nat /\ previousDay \in Nat /\ rawDay \in Nat
  BY ThroughIs, DaysKept
<1>2. CASE ReadClock
  <2>1. /\ weatherPc = "clock" /\ weatherPc' = "midnight" /\ Handling
        /\ rawDay' = today /\ checkedOn' = [checkedOn EXCEPT ![sensorData] = today]
        /\ UNCHANGED <<sensed, weatherQueue, today, previousDay>>
    BY <1>2 DEF ReadClock, Handling
  <2>2. Taken' = Taken /\ Through' = Through
    BY <1>2, <2>1, DaysKept DEF Taken, CrossedMidnight, ZeroRainfall
  <2>3. checkedOn'[Taken] = today
    BY <1>1, <2>1, ThroughIs DEF Ordered, LifeInv, TypeOK
  <2>4. DayOf(checkedOn', Through) = DayOf(checkedOn, Through)
    BY <1>1 DEF DayOf
  <2> QED BY <1>0, <1>1, <2>1, <2>2, <2>3, <2>4 DEF DaysInOrder
<1>3. CASE CrossedMidnight
  <2>1. PICK compared \in 0..today, copied \in 0..today :
          /\ weatherPc' = (IF previousDay # compared THEN "zero" ELSE "check")
          /\ previousDay' = copied
          /\ raced' = (raced \/ {compared, copied} # {rawDay})
    BY <1>3 DEF CrossedMidnight
  <2>2. compared = rawDay /\ copied = rawDay
    BY <2>1
  <2>3. /\ weatherPc = "midnight" /\ Handling /\ UNCHANGED <<sensed, weatherQueue, today, checkedOn>>
    BY <1>3 DEF CrossedMidnight, Handling
  <2>4. Taken' = Taken
    BY <2>3 DEF Taken
  <2>5. /\ checkedOn[Taken] = rawDay /\ rawDay <= today
        /\ \A i \in 1..Through : checkedOn[i] <= rawDay
        /\ \A i, j \in 1..Through : i <= j => checkedOn[i] <= checkedOn[j]
        /\ \A i \in 1..Through : checkedOn[i] <= today
        /\ previousDay = DayOf(checkedOn, Through)
    BY <1>0, <2>3 DEF DaysInOrder
  <2>6. CASE previousDay = rawDay
    <3>1. weatherPc' = "check" /\ ~Handling' /\ Through' = Taken
      BY <2>1, <2>2, <2>4, <2>6 DEF Handling, Through
    <3>2. \A i \in 1..Taken : i \in 1..Through \/ i = Taken
      BY <1>1, <2>3
    <3>3. \A i \in 1..Taken : checkedOn[i] <= rawDay
      BY <1>1, <2>5, <3>2
    <3>4. DayOf(checkedOn, Taken) = rawDay
      BY <1>1, <2>3, <2>5 DEF DayOf
    <3>5. \A i, j \in 1..Taken : i <= j => checkedOn[i] <= checkedOn[j]
      BY <1>1, <2>3, <2>5, <3>2, <3>3
    <3> QED BY <1>1, <2>1, <2>2, <2>3, <2>5, <3>1, <3>3, <3>4, <3>5 DEF DaysInOrder
  <2>7. CASE previousDay # rawDay
    <3>1. weatherPc' = "zero" /\ Handling' /\ Through' = Through
      BY <2>1, <2>2, <2>3, <2>4, <2>7 DEF Handling, Through
    <3>2. \A i \in 1..Through : checkedOn[i] < rawDay
      <4> SUFFICES ASSUME NEW i \in 1..Through PROVE checkedOn[i] < rawDay
        OBVIOUS
      <4>1. Through \in 1..Through /\ i <= Through
        BY <1>1
      <4>2. checkedOn[i] <= checkedOn[Through] /\ checkedOn[Through] <= rawDay
        BY <2>5, <4>1
      <4>3. checkedOn[Through] # rawDay
        BY <2>5, <2>7, <4>1 DEF DayOf
      <4> QED BY <1>1, <4>1, <4>2, <4>3
    <3> QED BY <2>1, <2>2, <2>3, <2>4, <2>5, <3>1, <3>2 DEF DaysInOrder
  <2> QED BY <2>6, <2>7
<1>4. CASE ZeroRainfall
  <2>1. /\ weatherPc = "zero" /\ weatherPc' = "check" /\ Handling /\ ~Handling'
        /\ UNCHANGED <<sensed, weatherQueue, today, previousDay, checkedOn>>
    BY <1>4 DEF ZeroRainfall, Handling
  <2>2. Taken' = Taken /\ Through' = Taken
    BY <2>1 DEF Taken, Through
  <2>3. \A i \in 1..Taken : i \in 1..Through \/ i = Taken
    BY <1>1, <2>1
  <2>4. /\ checkedOn[Taken] = previousDay /\ previousDay <= today
        /\ \A i \in 1..Through : checkedOn[i] < previousDay
        /\ \A i, j \in 1..Through : i <= j => checkedOn[i] <= checkedOn[j]
    BY <1>0, <2>1 DEF DaysInOrder
  <2>5. \A i, j \in 1..Taken : i <= j => checkedOn[i] <= checkedOn[j]
    BY <1>1, <2>1, <2>3, <2>4
  <2>6. \A i \in 1..Taken : checkedOn[i] <= today
    BY <1>1, <2>3, <2>4
  <2>7. DayOf(checkedOn, Taken) = previousDay
    BY <1>1, <2>1, <2>4 DEF DayOf
  <2> QED BY <2>1, <2>2, <2>5, <2>6, <2>7 DEF DaysInOrder
<1>5. CASE ~(ReadClock \/ CrossedMidnight \/ ZeroRainfall)
  <2>1. UNCHANGED <<checkedOn, previousDay, rawDay>> /\ Through' = Through
    <3>1. Through' = Through
      BY <1>5, DaysKept
    <3> QED BY <1>5, <3>1
            DEF Next, WeatherStep, UploadStep, Arrive, Reset, NewDay, WeatherCheck, PopMessage,
                LockRecord, RecordField, JoinUpload, UploadCheck, UploadWake, LockUpload,
                PopulateField, ResetField, vars
  <2>2. today <= today' /\ today' \in Nat
    <3>1. CASE NewDay
      BY <1>1, <3>1 DEF NewDay
    <3>2. CASE ~NewDay
      BY <1>1, <1>5, <3>2
      DEF Next, WeatherStep, UploadStep, Arrive, Reset, WeatherCheck, PopMessage,
          LockRecord, RecordField, JoinUpload, UploadCheck, UploadWake, LockUpload,
          PopulateField, ResetField, vars
    <3> QED BY <3>1, <3>2
  <2>3. /\ weatherPc' \in {"midnight", "zero"} <=> weatherPc \in {"midnight", "zero"}
        /\ weatherPc' \in {"midnight", "zero"} => weatherPc' = weatherPc
    BY <1>5
    DEF Next, WeatherStep, UploadStep, Arrive, Reset, NewDay, WeatherCheck, PopMessage,
        LockRecord, RecordField, JoinUpload, UploadCheck, UploadWake, LockUpload,
        PopulateField, ResetField, vars
  <2>4. weatherPc \in {"midnight", "zero"} => Taken' = Taken
    <3> SUFFICES ASSUME weatherPc \in {"midnight", "zero"} PROVE Taken' = Taken
      OBVIOUS
    <3>1. Handling /\ Handling'
      BY <2>3 DEF Handling
    <3>2. Taken' \in Nat
      BY SpeedsKept DEF Ordered
    <3>3. Through = Taken - 1
      BY <3>1 DEF Through
    <3>4. Through' = Taken' - 1
      BY <3>1 DEF Through
    <3>5. Through' = Through /\ Taken \in Nat
      BY <1>1, <2>1
    <3>6. Taken' - 1 = Taken - 1
      BY <3>3, <3>4, <3>5
    <3>7. \A m, n \in Nat : m - 1 = n - 1 => m = n
      OBVIOUS
    <3> QED BY <3>2, <3>5, <3>6, <3>7
  <2>5. \A i \in 1..Through : checkedOn[i] <= today'
    BY <1>0, <1>1, <2>2 DEF DaysInOrder
  <2>6. weatherPc' = "midnight" => rawDay <= today'
    BY <1>0, <1>1, <2>2, <2>3 DEF DaysInOrder
  <2>7. weatherPc' = "zero" => previousDay <= today'
    BY <1>0, <1>1, <2>2, <2>3 DEF DaysInOrder
  <2> QED BY <1>0, <2>1, <2>3, <2>4, <2>5, <2>6, <2>7 DEF DaysInOrder
<1> QED BY <1>2, <1>3, <1>4, <1>5

\* What was read or reported of the rain of a day goes on to be right.
LEMMA ToldKept ==
  ASSUME Ordered, Ordered', [Next]_vars, DayInv
  PROVE  /\ RainRead' /\ RainRead /\ SameRead(report') => ReadToday'
         /\ UNCHANGED lastReport => ReportedToday'
<1>1. report.upto \in Nat /\ lastReport.upto \in Nat
  BY DEF Ordered, LifeInv, TypeOK, Reports
<1>2. raced => raced'
  BY DaysKept
<1>3. ASSUME RainRead', RainRead, SameRead(report') PROVE ReadToday'
  BY <1>1, <1>2, <1>3, LaterKept DEF DayInv, ReadToday, SameRead
<1>4. ASSUME UNCHANGED lastReport PROVE ReportedToday'
  BY <1>1, <1>2, <1>4, LaterKept DEF DayInv, ReportedToday
<1> QED BY <1>3, <1>4

\* A step that leaves the stored rainfall and the message in hand alone.
LEMMA SameDay ==
  ASSUME Ordered, Ordered', [Next]_vars, DayInv, Through' = Through,
         UNCHANGED <<stored["Rainfall"], Added>>, weatherPc' = "zero" <=> weatherPc = "zero"
  PROVE  StoredToday'
<1>1. Through \in Nat /\ Through <= Through
  BY ThroughIs
<1>2. raced => raced'
  BY DaysKept
<1> QED BY <1>1, <1>2, LaterKept DEF DayInv, StoredToday

\* Recording adds the rain of the message in hand with the third field.
LEMMA RecordToday ==
  ASSUME Ordered, Ordered', [Next]_vars, DayInv, RecordField
  PROVE  StoredToday'
<1>1. /\ weatherPc = "record" /\ weatherField \in 1..6
      /\ (weatherField < 6 => weatherPc' = "record" /\ weatherField' = weatherField + 1)
      /\ (weatherField = 6 => weatherPc' = "clock")
      /\ sensorData' = sensorData /\ sensed' = sensed
  BY DEF RecordField, aroundVars, Ordered, LifeInv, TypeOK
<1>2. Through' = Through /\ Through \in Nat /\ (raced => raced')
  BY ThroughIs, DaysKept, <1>1 DEF CrossedMidnight, ZeroRainfall
<1>3. \/ weatherField # 3 /\ stored'["Rainfall"] = stored["Rainfall"]
      \/ /\ weatherField = 3
         /\ stored'["Rainfall"] = stored["Rainfall"] + sensed[sensorData].rain
  BY RecordRain
<1>4. CASE weatherField # 3
  <2>1. Added' = Added
    BY <1>1, <1>4 DEF Added
  <2> QED BY <1>1, <1>2, <1>3, <1>4, <2>1, SameDay
<1>5. CASE weatherField = 3
  <2>1. Added = 0 /\ Added' = sensed[sensorData].rain
    BY <1>1, <1>5 DEF Added
  <2>2. LaterRain(sensed', checkedOn', Through) = LaterRain(sensed, checkedOn, Through)
        /\ DayOf(checkedOn', Through) = DayOf(checkedOn, Through)
    BY <1>2, LaterKept
  <2>3. LaterRain(sensed, checkedOn, Through) \in Nat
    BY LaterType, ThroughIs
  <2>4. stored["Rainfall"] \in Int /\ sensed[sensorData].rain \in Nat
    <3>1. sensorData \in Arrived
      BY <1>1 DEF Ordered, LifeInv, OnTheWay, Handling
    <3> QED BY <3>1, RainTypes, ArrivedFacts DEF Ordered, LifeInv
  <2> QED BY <1>1, <1>2, <1>3, <1>5, <2>1, <2>2, <2>3, <2>4 DEF DayInv, StoredToday
<1> QED BY <1>4, <1>5

\* After a message of the day before, its rain counts; midnight takes that of
\* the first message of its day.
LEMMA MidnightToday ==
  ASSUME Ordered, Ordered', [Next]_vars, DayInv, CrossedMidnight \/ ZeroRainfall
  PROVE  StoredToday'
<1> SUFFICES ASSUME ~raced', weatherPc' # "zero", DayOf(checkedOn, Through)' # 0
             PROVE  stored'["Rainfall"] = (LaterRain(sensed, checkedOn, Through) + Added)'
  BY DEF StoredToday
<1>0. ~raced /\ weatherPc' = "check" /\ Handling /\ ~Handling'
      /\ UNCHANGED <<sensed, weatherQueue, sensorData, checkedOn>>
  BY DaysKept DEF CrossedMidnight, ZeroRainfall, Handling, aroundVars
<1>1. /\ Taken' = Taken /\ Through' = Taken /\ Taken \in Nat /\ Taken = Through + 1
      /\ sensorData = Taken /\ Through \in Nat /\ \A i \in 1..Taken : checkedOn[i] \in Nat
  BY <1>0, ThroughIs DEF Taken, Through
<1>2. Added' = 0
  BY <1>0 DEF Added
<1>3. LaterRain(sensed, checkedOn, Taken) \in Nat
  BY <1>1, LaterType
<1>4. CASE CrossedMidnight
  <2>1. PICK compared \in 0..today, copied \in 0..today :
          /\ weatherPc' = (IF previousDay # compared THEN "zero" ELSE "check")
          /\ raced' = (raced \/ {compared, copied} # {rawDay})
    BY <1>4 DEF CrossedMidnight
  <2>2. previousDay = rawDay /\ weatherPc = "midnight" /\ stored' = stored
    BY <1>0, <1>4, <2>1 DEF CrossedMidnight, dataVars
  <2>3. checkedOn[Taken] = rawDay /\ rawDay = DayOf(checkedOn, Through)
    BY <1>0, <2>2 DEF DayInv, DaysInOrder
  <2>4. DayOf(checkedOn, Through) # 0
    BY <1>0, <1>1, <2>3 DEF DayOf
  <2>5. Through # 0 /\ checkedOn[Through + 1] = checkedOn[Through]
    BY <1>1, <2>3, <2>4 DEF DayOf
  <2>6. LaterRain(sensed, checkedOn, Taken)
          = LaterRain(sensed, checkedOn, Through) + sensed[Taken].rain
    BY <1>1, <2>5, LaterOneMore
  <2>7. Added = sensed[Taken].rain
    BY <1>1, <2>2 DEF Added
  <2>8. stored["Rainfall"] = LaterRain(sensed, checkedOn, Through) + Added
    BY <1>0, <2>2, <2>4 DEF DayInv, StoredToday
  <2> QED BY <1>0, <1>1, <1>2, <1>3, <2>2, <2>6, <2>7, <2>8
<1>5. CASE ZeroRainfall
  <2>1. weatherPc = "zero" /\ stored' = [stored EXCEPT !["Rainfall"] = 0]
    BY <1>5 DEF ZeroRainfall
  <2>2. stored'["Rainfall"] = 0
    BY <2>1 DEF Ordered, LifeInv, TypeOK, Stored
  <2>3. /\ checkedOn[Taken] = previousDay
        /\ \A i \in 1..Through : checkedOn[i] < previousDay
    BY <1>0, <2>1 DEF DayInv, DaysInOrder
  <2>4. \A i \in 1..Taken : i # Taken => checkedOn[i] # checkedOn[Taken]
    BY <1>1, <2>3
  <2>5. LaterRain(sensed, checkedOn, Taken) = 0
    BY <1>1, <2>4, LaterNone
  <2> QED BY <1>0, <1>1, <1>2, <2>2, <2>5
<1> QED BY <1>4, <1>5

\* The rainfall is read between two messages, or while the next one waits.
LEMMA SettledIs ==
  ASSUME Ordered, DayInv, weatherPc # "record"
  PROVE  /\ Settled \in Nat /\ Settled <= Through
         /\ ~raced /\ DayOf(checkedOn, Settled) # 0 =>
              stored["Rainfall"] = LaterRain(sensed, checkedOn, Settled)
<1>1. /\ Taken \in Nat /\ Through \in Nat
      /\ Handling => Taken = Through + 1 /\ sensorData = Taken
  BY ThroughIs
<1>2. CASE sensorData = None \/ weatherPc \in {"clock", "midnight", "zero"}
  BY <1>1, <1>2 DEF Settled, DayOf
<1>3. CASE ~(sensorData = None \/ weatherPc \in {"clock", "midnight", "zero"})
  <2>1. sensorData = Taken
    BY <1>3 DEF Ordered, InOrder
  <2>2. Settled = Through
    BY <1>1, <1>3, <2>1 DEF Settled, Through, Handling
  <2>3. Added = 0
    BY <1>3 DEF Added
  <2>4. LaterRain(sensed, checkedOn, Through) \in Nat
    BY LaterType, ThroughIs
  <2> QED BY <1>1, <1>3, <2>2, <2>3, <2>4 DEF DayInv, StoredToday
<1> QED BY <1>2, <1>3

\* Every step keeps DayInv.
LEMMA NextDayInv ==
  ASSUME Ordered, Ordered', [Next]_vars, DayInv
  PROVE  DayInv'
<1> USE DEF dayVars
<1>1. DaysInOrder'
  BY NextDaysInOrder DEF DayInv
<1>2. CASE RecordField
  <2>1. ~RainRead' /\ UNCHANGED lastReport
    BY <1>2, RecordRain DEF reportVars
  <2> QED BY <1>1, <1>2, <2>1, RecordToday, ToldKept DEF DayInv, ReadToday
<1>3. CASE CrossedMidnight \/ ZeroRainfall
  <2>1. UNCHANGED <<lastReport, report, uploadPc, uploadField>>
    BY <1>3 DEF CrossedMidnight, ZeroRainfall, reportVars, uploadVars
  <2>2. RainRead' <=> RainRead
    BY <2>1 DEF RainRead
  <2> QED BY <1>1, <1>3, <2>1, <2>2, MidnightToday, ToldKept DEF DayInv, ReadToday, SameRead
<1>4. CASE PopulateField
  <2>1. /\ UNCHANGED <<sensed, weatherQueue, sensorData, stored, weatherPc, weatherField,
                       checkedOn, raced>>
        /\ weatherPc # "record"
    BY <1>4, PopulateRain
    DEF PopulateField, Ordered, LifeInv, MutexOwner
  <2>2. Through' = Through /\ Added' = Added
    BY <2>1 DEF Through, Added, Taken, Handling
  <2>3. StoredToday'
    BY <2>1, <2>2, SameDay
  <2>4. CASE UNCHANGED reportVars /\ (RainRead' => RainRead /\ SameRead(report'))
    <3>1. UNCHANGED lastReport
      BY <2>4 DEF reportVars
    <3> QED BY <1>1, <2>3, <2>4, <3>1, ToldKept DEF DayInv, ReadToday
  <2>5. CASE /\ RainRead' /\ UNCHANGED reportVars
             /\ report'.stored["Rainfall"] = stored["Rainfall"] /\ report'.upto = Settled
    <3>1. UNCHANGED lastReport
      BY <2>5 DEF reportVars
    <3>2. ReadToday'
      BY <2>1, <2>2, <2>5, SettledIs DEF ReadToday
    <3> QED BY <1>1, <2>3, <3>1, <3>2, ToldKept DEF DayInv
  <2>6. CASE RainRead /\ ~RainRead' /\ SameRead(lastReport')
    <3>1. ReadToday'
      BY <2>6 DEF ReadToday
    <3>2. ReportedToday'
      BY <2>1, <2>2, <2>6 DEF DayInv, ReadToday, ReportedToday, SameRead
    <3> QED BY <1>1, <2>3, <3>1, <3>2 DEF DayInv
  <2> QED BY <1>4, <2>4, <2>5, <2>6, PopulateRain
<1>5. CASE ResetField
  <2>1. /\ UNCHANGED <<sensed, weatherQueue, sensorData, stored, weatherPc, weatherField, lastReport>>
        /\ ~RainRead'
    BY <1>5, ResetRain DEF reportVars
  <2>2. Through' = Through /\ Added' = Added
    BY <2>1 DEF Through, Added, Taken, Handling
  <2> QED BY <1>1, <2>1, <2>2, SameDay, ToldKept DEF DayInv, ReadToday
<1>6. CASE ~(RecordField \/ CrossedMidnight \/ ZeroRainfall \/ PopulateField \/ ResetField)
  <2>1. UNCHANGED <<stored, lastReport, report>> /\ (RainRead' <=> RainRead)
    BY <1>6, OthersRain DEF reportVars
  <2>2. Through' = Through
    BY <1>6, DaysKept
  <2>3. Added' = Added /\ (weatherPc' = "zero" <=> weatherPc = "zero")
    <3> USE DEF weatherVars, aroundVars
    <3>1. CASE Arrive
      <4>1. Handling => sensorData \in 1..Len(sensed)
        BY DEF Ordered, LifeInv, OnTheWay, Arrived
      <4>2. PICK m : sensed' = Append(sensed, m)
        BY <3>1 DEF Arrive
      <4>3. Handling => sensed'[sensorData] = sensed[sensorData]
        BY <4>1, <4>2 DEF Ordered, LifeInv, TypeOK
      <4>4. UNCHANGED <<weatherPc, weatherField, sensorData>>
        BY <3>1 DEF Arrive
      <4> QED BY <4>3, <4>4 DEF Added, Handling
    <3>2. CASE LockRecord
      <4>1. weatherPc = "lock" /\ weatherPc' = "record" /\ weatherField' = 1
        BY <3>2 DEF LockRecord, Ordered, LifeInv, OnTheWay
      <4> QED BY <4>1 DEF Added
    <3>3. CASE WeatherCheck \/ PopMessage \/ JoinUpload
      <4>1. /\ weatherPc \notin {"record", "clock", "midnight", "zero"}
            /\ weatherPc' \notin {"record", "clock", "midnight", "zero"}
        BY <3>3 DEF WeatherCheck, PopMessage, JoinUpload
      <4> QED BY <4>1 DEF Added
    <3>4. CASE ReadClock
      <4>1. weatherPc = "clock" /\ weatherPc' = "midnight" /\ UNCHANGED <<sensed, sensorData>>
        BY <3>4 DEF ReadClock
      <4> QED BY <4>1 DEF Added
    <3>5. CASE Reset \/ NewDay \/ UploadCheck \/ UploadWake \/ LockUpload \/ UNCHANGED vars
      <4>1. UNCHANGED <<sensed, weatherPc, weatherField, sensorData>>
        BY <3>5 DEF Reset, NewDay, UploadCheck, UploadWake, LockUpload, vars
      <4> QED BY <4>1 DEF Added
    <3> QED BY <1>6, <3>1, <3>2, <3>3, <3>4, <3>5 DEF Next, WeatherStep, UploadStep
  <2> QED BY <1>1, <2>1, <2>2, <2>3, SameDay, ToldKept DEF DayInv, ReadToday, SameRead
<1> QED BY <1>2, <1>3, <1>4, <1>5, <1>6

\* The least of a set of numbers is in it and bounds it.
LEMMA MinIs ==
  ASSUME NEW S, S \subseteq Nat, S # {}
  PROVE  Min(S) \in S /\ \A x \in S : Min(S) <= x
<1>1. PICK m \in S : \A k \in S : <<k, m>> \notin OpToRel(<, Nat)
  BY WFMin, NatLessThanWellFounded
<1>2. ASSUME NEW k \in S PROVE m <= k
  <2>1. m \in Nat /\ k \in Nat
    OBVIOUS
  <2>2. ~(k < m)
    BY <1>1, <2>1 DEF OpToRel
  <2> QED BY <2>1, <2>2
<1> QED BY <1>1, <1>2 DEF Min

\* The later messages of a day are those that are not its first.
LEMMA LaterIsNotMin ==
  ASSUME NEW days, NEW n \in Nat, n # 0
  PROVE  LET day == {i \in 1..n : days[i] = days[n]} IN LaterOf(days, n) = day \ {Min(day)}
<1> DEFINE day == {i \in 1..n : days[i] = days[n]}
           m == Min(day)
<1>1. day \subseteq Nat /\ n \in day
  OBVIOUS
<1>2. m \in day /\ \A x \in day : m <= x
  <2> HIDE DEF day
  <2> QED BY <1>1, MinIs
<1> HIDE DEF m
<1>3. ASSUME NEW i \in LaterOf(days, n) PROVE i \in day /\ i # m
  <2>1. i \in day
    BY DEF LaterOf
  <2>2. PICK j \in day : j < i
    BY DEF LaterOf
  <2>3. m <= j /\ m \in Nat /\ j \in Nat /\ i \in Nat
    BY <1>1, <1>2, <2>1
  <2> QED BY <2>1, <2>2, <2>3
<1>4. ASSUME NEW i \in day, i # m PROVE i \in LaterOf(days, n)
  <2>1. m < i /\ m \in 1..n /\ days[m] = days[n]
    BY <1>2, <1>4
  <2> QED BY <2>1 DEF LaterOf
<1> QED BY <1>3, <1>4 DEF m

\* What ReportedToday says is what RainfallOfToday says.
LEMMA ReportedIsOfToday == Ordered /\ DayInv => RainfallOfToday
<1> SUFFICES ASSUME Ordered, DayInv, ~raced, lastReport.upto # 0, checkedOn[lastReport.upto] # 0
             PROVE  LET n   == lastReport.upto
                        day == {i \in 1..n : checkedOn[i] = checkedOn[n]}
                    IN  lastReport.stored["Rainfall"] = RainOf(day \ {Min(day)})
  BY DEF RainfallOfToday
<1> DEFINE n   == lastReport.upto
           day == {i \in 1..n : checkedOn[i] = checkedOn[n]}
<1>1. n \in Nat
  BY DEF Ordered, LifeInv, TypeOK, Reports
<1>2. lastReport.stored["Rainfall"] = LaterRain(sensed, checkedOn, n)
  BY DEF DayInv, ReportedToday, DayOf
<1>3. LaterOf(checkedOn, n) = day \ {Min(day)}
  BY <1>1, LaterIsNotMin
<1> QED BY <1>2, <1>3 DEF LaterRain, RainOf, RainIn

\* For any number of messages and days, whenever the upload thread reads the
\* rainfall, a report has exactly what fell on the day of the last message, less
\* what the first message of that day brought: however late midnight is noticed,
\* it takes away that and no more.  The day of the start is left out, and runs
\* in which another thread's localtime() has come in between.
THEOREM RainfallIsOfToday == SafeSpec => []RainfallOfToday
<1>1. Init => DayInv
  <2> SUFFICES ASSUME Init PROVE DayInv
    OBVIOUS
  <2>1. /\ lastReport = NoReport /\ sensed = <<>> /\ weatherQueue = <<>>
        /\ uploadPc = "check" /\ weatherPc = "check" /\ previousDay = 0
    BY DEF Init
  <2>2. Through = 0 /\ ~RainRead
    BY <2>1 DEF Through, Handling, Taken, RainRead
  <2>3. lastReport.upto = 0
    BY <2>1 DEF NoReport
  <2>4. DayOf(checkedOn, 0) = 0
    BY DEF DayOf
  <2> QED BY <2>1, <2>2, <2>3, <2>4
          DEF DayInv, DaysInOrder, StoredToday, ReadToday, ReportedToday
<1>2. Ordered /\ Ordered' /\ DayInv /\ [Next]_vars => DayInv'
  BY NextDayInv
<1>3. Ordered /\ DayInv => RainfallOfToday
  BY ReportedIsOfToday
<1> QED BY <1>1, <1>2, <1>3, AlwaysOrdered, PTL DEF SafeSpec
=============================================================================
