------------------------- MODULE StatusThreadProofs -------------------------
(***************************************************************************)
(* The status threads for any number of messages and days: although the    *)
(* reset of midnight takes no mutex, reports do not mix windows, and no    *)
(* message is counted twice or lost but at a midnight.                     *)
(***************************************************************************)
EXTENDS StatusThread, TLAPS

\* The upload thread owns the mutex while it makes a report and resets.
Owner == uploadMutex = "upload" <=> upload.pc \in {"populate", "reset"}

\* It resets kinds that there are, and statusThread is at a message it has popped.
InBounds ==
  /\ upload.pc = "reset" => upload.step \in 1..KindCount
  /\ Len(arrived) <= MaxMessages
  /\ status.pc \in {"lock", "clock", "midnight"} => popped > 0

\* The states of the two threads.
StatusStates ==
  [pc : {"check", "pop", "lock", "clock", "midnight", "reset", "join", "done"},
   kind : 1..KindCount, raw : Days, previous : Days]

UploadStates ==
  [pc : {"check", "sleep", "lock", "populate", "reset", "done"}, step : 1..4, report : Reports]

Base == TypeOK /\ Owner /\ InBounds

\* Each field of the array has a kind.
LEMMA KindOrderType == \A n \in 1..KindCount : KindOrder[n] \in Kinds
BY DEF KindOrder, Kinds, KindCount

\* The initial state is well formed.
LEMMA InitBase == Init => Base
<1> SUFFICES ASSUME Init PROVE Base
  OBVIOUS
<1>1. arrived \in Seq(Kinds) /\ popped \in 0..Len(arrived) /\ Len(arrived) = 0
  BY DEF Init
<1>2. NoReport \in Reports
  BY DEF NoReport, Reports
<1>3. 0 \in Days /\ 1 \in 1..KindCount
  BY ConstantsAssumption DEF Days, KindCount
<1>4. /\ status \in StatusStates
      /\ upload \in UploadStates
  BY <1>2, <1>3 DEF Init, StatusStates, UploadStates
<1>5. storedUptime \in Nat
  BY ConstantsAssumption DEF Init
<1>6. TypeOK
  BY <1>1, <1>2, <1>3, <1>4, <1>5 DEF Init, TypeOK, StatusStates, UploadStates
<1> QED BY <1>1, <1>6, ConstantsAssumption DEF Init, Base, Owner, InBounds

\* Messages, resets and midnights keep the types.
LEMMA AroundBase == Base /\ Around => Base'
<1> SUFFICES ASSUME Base, Around PROVE Base'
  OBVIOUS
<1> USE DEF aroundVars, statusVars, uploadVars, dataVars, reportVars, historyVars
<1>1. CASE Arrive
  <2>1. PICK k \in Kinds : arrived' = Append(arrived, k)
    BY <1>1 DEF Arrive
  <2>2. /\ arrived \in Seq(Kinds) /\ arrived' \in Seq(Kinds) /\ Len(arrived') = Len(arrived) + 1
        /\ Len(arrived) \in Nat
    BY <2>1 DEF Base, TypeOK
  <2>3. Len(arrived') <= MaxMessages /\ popped' \in 0..Len(arrived')
    BY <1>1, <2>2, ConstantsAssumption DEF Arrive, Base, TypeOK, InBounds, Around
  <2> QED BY <1>1, <2>2, <2>3 DEF Arrive, Around, Base, TypeOK, Owner, InBounds
<1>2. CASE Reset
  BY <1>2 DEF Reset, Around, Base, TypeOK, Owner, InBounds
<1>3. CASE NewDay
  BY <1>3, ConstantsAssumption DEF NewDay, Around, Base, TypeOK, Owner, InBounds, Days
<1> QED BY <1>1, <1>2, <1>3 DEF Around

\* statusThread keeps the types.
LEMMA StatusBase == Base /\ StatusStep => Base'
<1> SUFFICES ASSUME Base, StatusStep PROVE Base'
  OBVIOUS
<1> USE DEF aroundVars, statusVars, uploadVars, dataVars, reportVars, historyVars
<1>0. /\ UNCHANGED <<serverRunning, today, arrived, upload, uploadMutex, lastReport, timesReported>>
      /\ Len(arrived) \in Nat
  BY DEF StatusStep, Base, TypeOK
<1>1. CASE StatusCheck
  BY <1>0, <1>1 DEF StatusCheck, StatusGoto, Base, TypeOK, Owner, InBounds
<1>2. CASE PopMessage
  <2>1. popped' \in 0..Len(arrived') /\ popped' > 0
    BY <1>0, <1>2 DEF PopMessage, QueueEmpty, Base, TypeOK
  <2>2. status' \in StatusStates /\ status'.pc = "lock"
    BY <1>2 DEF PopMessage, StatusGoto, Base, TypeOK, StatusStates
  <2> QED BY <1>0, <1>2, <2>1, <2>2
          DEF PopMessage, Base, TypeOK, Owner, InBounds, StatusStates
<1>3. CASE RecordStatusData
  <2>1. popped \in Numbers /\ arrived[popped] \in Kinds
    BY <1>0, <1>3, ConstantsAssumption
       DEF RecordStatusData, StatusGoto, Base, TypeOK, InBounds, Numbers
  <2>2. included' \in [Kinds -> SUBSET Numbers] /\ averaged' \in [Kinds -> SUBSET Numbers]
    BY <1>3, <2>1 DEF RecordStatusData, Base, TypeOK
  <2>3. storedUptime' \in Nat
    BY <1>3, <2>1, ConstantsAssumption DEF RecordStatusData, Base, TypeOK, Numbers
  <2> QED BY <1>0, <1>3, <2>2, <2>3
          DEF RecordStatusData, StatusGoto, Base, TypeOK, Owner, InBounds
<1>4. CASE ReadClock
  BY <1>0, <1>4 DEF ReadClock, Base, TypeOK, Owner, InBounds
<1>5. CASE CrossedMidnight
  <2>1. PICK compared \in 0..today, copied \in 0..today :
          /\ status' = [pc |-> IF status.previous # compared THEN "reset" ELSE "check",
                        kind |-> 1, raw |-> 0, previous |-> copied]
          /\ raced' = (raced \/ {compared, copied} # {status.raw})
    BY <1>5 DEF CrossedMidnight
  <2>2. copied \in Days /\ 0 \in Days /\ 1 \in 1..KindCount
    BY ConstantsAssumption DEF Base, TypeOK, Days, KindCount
  <2>3. raced' \in BOOLEAN
    BY <2>1
  <2>4. status' \in StatusStates /\ status'.pc \in {"reset", "check"}
    BY <2>1, <2>2 DEF StatusStates
  <2> QED BY <1>0, <1>5, <2>3, <2>4
          DEF CrossedMidnight, Base, TypeOK, Owner, InBounds, StatusStates
<1>6. CASE MidnightReset
  <2> DEFINE k == KindOrder[status.kind]
  <2>1. k \in Kinds /\ included' = [included EXCEPT ![k] = {}]
        /\ averaged' = averaged /\ storedUptime' = storedUptime
        /\ forgotten' = forgotten \cup included[k]
    BY <1>6, KindOrderType DEF MidnightReset, ResetCell, Base, TypeOK
  <2>2. included' \in [Kinds -> SUBSET Numbers] /\ forgotten' \subseteq Numbers
    BY <2>1 DEF Base, TypeOK
  <2>3. CASE status.kind < KindCount
    <3>1. status.kind + 1 \in 1..KindCount /\ status \in StatusStates
      BY <2>3 DEF Base, TypeOK, StatusStates, KindCount
    <3>2. status' = [status EXCEPT !.kind = @ + 1] /\ status.pc = "reset"
      BY <1>6, <2>3 DEF MidnightReset
    <3>3. status' \in StatusStates /\ status'.pc \in {"reset", "check"}
      BY <3>1, <3>2 DEF StatusStates
    <3> QED BY <1>0, <1>6, <2>1, <2>2, <3>3
            DEF MidnightReset, Base, TypeOK, Owner, InBounds, StatusStates
  <2>4. CASE ~(status.kind < KindCount)
    <3>1. 1 \in 1..KindCount /\ status \in StatusStates
      BY DEF Base, TypeOK, StatusStates, KindCount
    <3>2. status' = [status EXCEPT !.kind = 1, !.pc = "check"]
      BY <1>6, <2>4 DEF MidnightReset
    <3>3. status' \in StatusStates /\ status'.pc \in {"reset", "check"}
      BY <3>1, <3>2 DEF StatusStates
    <3> QED BY <1>0, <1>6, <2>1, <2>2, <3>3
            DEF MidnightReset, Base, TypeOK, Owner, InBounds, StatusStates
  <2> QED BY <2>3, <2>4
<1>7. CASE JoinUpload
  BY <1>0, <1>7 DEF JoinUpload, StatusGoto, Base, TypeOK, Owner, InBounds
<1> QED BY <1>1, <1>2, <1>3, <1>4, <1>5, <1>6, <1>7 DEF StatusStep

\* What a getter of populateRecordedStatusData makes of the report.
LEMMA PopulatedType ==
  ASSUME Base, NEW r \in Populated(upload.step)
  PROVE  /\ r \in Reports
         /\ upload.step # 2 => r.mean[Timed] = upload.report.mean[Timed]
         /\ upload.step = 2 => r.mean[Timed] = averaged[Timed]
         /\ upload.step # 3 => r.max = upload.report.max
         /\ upload.step = 3 => r.max = included[Timed]
<1>1. upload.step \in {1, 2, 3, 4} /\ upload.report \in Reports
  BY DEF Base, TypeOK
<1>2. /\ Timed \in Averaged /\ "Battery_Voltage" \in Averaged /\ Timed # "Battery_Voltage"
      /\ Averaged \subseteq Kinds
  BY DEF Timed, Averaged, Kinds
<1>3. /\ included[Timed] \in SUBSET Numbers /\ averaged[Timed] \in SUBSET Numbers
      /\ averaged["Battery_Voltage"] \in SUBSET Numbers
  BY <1>2 DEF Base, TypeOK
<1>4. CASE upload.step = 1
  <2>1. PICK u \in AsUnsigned(storedUptime) : r = [upload.report EXCEPT !.uptime = u]
    BY <1>4 DEF Populated
  <2>2. u \in Nat
    BY <2>1 DEF AsUnsigned, Base, TypeOK
  <2> QED BY <1>1, <1>4, <2>1, <2>2 DEF Reports
<1>5. CASE upload.step = 2
  <2>1. r = [upload.report EXCEPT !.mean[Timed] = averaged[Timed]]
    BY <1>5 DEF Populated
  <2> QED BY <1>1, <1>2, <1>3, <1>5, <2>1 DEF Reports
<1>6. CASE upload.step = 3
  <2>1. r = [upload.report EXCEPT !.max = included[Timed]]
    BY <1>6 DEF Populated, Maximum
  <2> QED BY <1>1, <1>3, <1>6, <2>1 DEF Reports
<1>7. CASE upload.step = 4
  <2>1. r = [upload.report EXCEPT !.mean["Battery_Voltage"] = averaged["Battery_Voltage"]]
    BY <1>7 DEF Populated
  <2> QED BY <1>1, <1>2, <1>3, <1>7, <2>1 DEF Reports
<1> QED BY <1>1, <1>4, <1>5, <1>6, <1>7

\* The report before the first is a report.
LEMMA NoReportType == NoReport \in Reports
BY DEF NoReport, Reports

\* The upload thread keeps the types.
LEMMA UploadBase == Base /\ UploadStep => Base'
<1> SUFFICES ASSUME Base, UploadStep PROVE Base'
  OBVIOUS
<1> USE DEF aroundVars, statusVars, uploadVars, dataVars, reportVars, historyVars
<1>0. UNCHANGED <<serverRunning, today, arrived, status, popped, forgotten, checkedOn, raced>>
  BY DEF UploadStep
<1>1. CASE UploadCheck
  BY <1>0, <1>1 DEF UploadCheck, UploadGoto, Base, TypeOK, Owner, InBounds
<1>2. CASE UploadWake
  BY <1>0, <1>2 DEF UploadWake, UploadGoto, Base, TypeOK, Owner, InBounds
<1>3. CASE LockUpload
  BY <1>0, <1>3 DEF LockUpload, UploadGoto, MutexFree, Base, TypeOK, Owner, InBounds
<1>4. CASE Populate
  <2>1. PICK r \in Populated(upload.step) :
       IF upload.step < 4
         THEN upload' = [upload EXCEPT !.step = @ + 1, !.report = r] /\ UNCHANGED reportVars
         ELSE /\ upload' = [pc |-> "reset", step |-> 1, report |-> NoReport]
              /\ lastReport' = r
              /\ timesReported' = [i \in Numbers |->
                                     timesReported[i] + IF i \in r.max THEN 1 ELSE 0]
    BY <1>4 DEF Populate
  <2>2. r \in Reports
    BY PopulatedType
  <2>3. UNCHANGED <<uploadMutex, included, averaged, storedUptime>> /\ upload.pc = "populate"
    BY <1>4 DEF Populate
  <2>4. CASE upload.step < 4
    <3>1. upload.step + 1 \in 1..4 /\ upload \in UploadStates
      BY <2>4 DEF Base, TypeOK, UploadStates
    <3>2. upload' \in UploadStates /\ upload'.pc = "populate" /\ UNCHANGED reportVars
      BY <2>1, <2>2, <2>3, <2>4, <3>1 DEF UploadStates
    <3> QED BY <1>0, <2>3, <3>2 DEF Base, TypeOK, Owner, InBounds, UploadStates
  <2>5. CASE ~(upload.step < 4)
    <3>1. timesReported' \in [Numbers -> Nat]
      BY <2>1, <2>5 DEF Base, TypeOK
    <3>2. upload' \in UploadStates /\ upload'.pc = "reset" /\ upload'.step = 1
      BY <2>1, <2>5, NoReportType DEF UploadStates
    <3> QED BY <1>0, <2>1, <2>2, <2>3, <2>5, <3>1, <3>2
            DEF Base, TypeOK, Owner, InBounds, KindCount, UploadStates
  <2> QED BY <2>4, <2>5
<1>5. CASE UploadReset
  <2> DEFINE k == KindOrder[upload.step]
  <2>1. k \in Kinds /\ included' = [included EXCEPT ![k] = {}]
        /\ averaged' = averaged /\ storedUptime' = storedUptime
    BY <1>5, KindOrderType DEF UploadReset, ResetCell, Base, InBounds
  <2>2. included' \in [Kinds -> SUBSET Numbers]
    BY <2>1 DEF Base, TypeOK
  <2>3. upload \in UploadStates /\ upload.pc = "reset" /\ uploadMutex = "upload"
    BY <1>5 DEF UploadReset, Base, TypeOK, Owner, UploadStates
  <2>4. CASE upload.step < KindCount
    <3>1. upload' = [upload EXCEPT !.step = @ + 1] /\ uploadMutex' = uploadMutex
      BY <1>5, <2>4 DEF UploadReset
    <3>2. upload.step + 1 \in 1..KindCount
      BY <2>3, <2>4 DEF UploadStates, KindCount
    <3>3. upload' \in UploadStates /\ upload'.pc = "reset" /\ upload'.step \in 1..KindCount
      BY <2>3, <3>1, <3>2 DEF UploadStates, KindCount
    <3> QED BY <1>0, <1>5, <2>1, <2>2, <2>3, <3>1, <3>3
            DEF UploadReset, Base, TypeOK, Owner, InBounds, UploadStates
  <2>5. CASE ~(upload.step < KindCount)
    <3>1. upload' = [upload EXCEPT !.step = 1, !.pc = "check"] /\ uploadMutex' = "free"
      BY <1>5, <2>5 DEF UploadReset
    <3>2. upload' = [pc |-> "check", step |-> 1, report |-> upload.report]
      BY <2>3, <3>1 DEF UploadStates
    <3>3. upload' \in UploadStates /\ upload'.pc = "check"
      BY <2>3, <3>2 DEF UploadStates
    <3> QED BY <1>0, <1>5, <2>1, <2>2, <3>1, <3>3
            DEF UploadReset, Base, TypeOK, Owner, InBounds, UploadStates
  <2> QED BY <2>4, <2>5
<1> QED BY <1>1, <1>2, <1>3, <1>4, <1>5 DEF UploadStep

\* Every step keeps the types.
LEMMA NextBase == Base /\ [Next]_vars => Base'
<1>1. Base /\ UNCHANGED vars => Base'
  BY DEF vars, aroundVars, statusVars, uploadVars, dataVars, reportVars, historyVars,
         Base, TypeOK, Owner, InBounds
<1> QED BY <1>1, AroundBase, StatusBase, UploadBase DEF Next

\* The types hold throughout.
LEMMA AlwaysBase == SafeSpec => []Base
BY InitBase, NextBase, PTL DEF SafeSpec

\* Every state is well formed, for any number of messages and days.
THEOREM TypeCorrect == SafeSpec => []TypeOK
<1>1. Base => TypeOK
  BY DEF Base
<1> QED BY <1>1, AlwaysBase, PTL

-----------------------------------------------------------------------------
(***************************************************************************)
(* Unless the struct tm was overwritten: but for the message in hand, all  *)
(* messages of the open windows were checked on the day that statusThread  *)
(* has copied, or on one day while midnight clears the kinds one by one.   *)
(***************************************************************************)
Dated ==
  ~raced =>
    /\ status.pc \in {"check", "pop", "lock", "join", "done"} =>
         \A k \in Kinds : \A i \in included[k] : checkedOn[i] = status.previous
    /\ status.pc \in {"clock", "midnight"} =>
         \A k \in Kinds : \A i \in included[k] : i # popped => checkedOn[i] = status.previous
    /\ status.pc = "midnight" => checkedOn[popped] = status.raw
    /\ status.pc = "reset" =>
         /\ \A n \in 1..KindCount : n < status.kind => included[KindOrder[n]] = {}
         /\ \E day \in Days :
              \A k \in Kinds : \A i \in included[k] : i # popped => checkedOn[i] = day

\* Dated holds at first.
LEMMA InitDated == Init => Dated
BY DEF Init, Dated

\* Messages, resets and midnights keep Dated.
LEMMA AroundDated == Around /\ Dated => Dated'
BY DEF Around, Dated, statusVars, dataVars, historyVars

\* The upload thread only ever empties a window.
LEMMA UploadShrinks ==
  ASSUME Base, UploadStep
  PROVE  /\ UNCHANGED <<status, popped, forgotten, checkedOn, raced>>
         /\ \A k \in Kinds : included'[k] \subseteq included[k]
<1> USE DEF uploadVars, dataVars, statusVars, historyVars
<1>1. CASE UploadReset
  BY <1>1 DEF UploadStep, UploadReset, ResetCell, Base, TypeOK
<1>2. CASE ~UploadReset
  BY <1>2 DEF UploadStep, UploadCheck, UploadWake, LockUpload, Populate
<1> QED BY <1>1, <1>2

\* The upload thread keeps Dated.
LEMMA UploadDated == Base /\ UploadStep /\ Dated => Dated'
<1> SUFFICES ASSUME Base, UploadStep, Dated PROVE Dated'
  OBVIOUS
<1>1. /\ UNCHANGED <<status, popped, forgotten, checkedOn, raced>>
      /\ \A k \in Kinds : included'[k] \subseteq included[k]
  BY UploadShrinks
<1>2. \A n \in 1..KindCount : KindOrder[n] \in Kinds
  BY KindOrderType
<1> QED BY <1>1, <1>2 DEF Dated

\* statusThread keeps Dated.
LEMMA StatusDated == Base /\ StatusStep /\ Dated => Dated'
<1> SUFFICES ASSUME Base, StatusStep, Dated PROVE Dated'
  OBVIOUS
<1> USE DEF dataVars
<1>1. CASE StatusCheck
  BY <1>1 DEF StatusCheck, StatusGoto, Dated, Base, TypeOK
<1>2. CASE PopMessage
  BY <1>2 DEF PopMessage, StatusGoto, Dated, Base, TypeOK
<1>3. CASE RecordStatusData
  <2>1. \A k \in Kinds : \A i \in included'[k] : i # popped => i \in included[k]
    BY <1>3 DEF RecordStatusData, Base, TypeOK
  <2>2. status.pc = "lock" /\ status'.pc = "clock" /\ status'.previous = status.previous
    BY <1>3 DEF RecordStatusData, StatusGoto, Base, TypeOK
  <2>3. UNCHANGED <<popped, checkedOn, raced>>
    BY <1>3 DEF RecordStatusData
  <2> QED BY <2>1, <2>2, <2>3 DEF Dated
<1>4. CASE ReadClock
  <2>1. popped \in Numbers
    BY <1>4, ConstantsAssumption DEF ReadClock, Base, TypeOK, InBounds, Numbers
  <2>2. /\ status.pc = "clock" /\ status'.pc = "midnight" /\ status'.previous = status.previous
        /\ status'.raw = today /\ checkedOn' = [checkedOn EXCEPT ![popped] = today]
        /\ UNCHANGED <<popped, included, raced>>
    BY <1>4 DEF ReadClock, Base, TypeOK
  <2>3. checkedOn'[popped] = today /\ \A i \in Numbers : i # popped => checkedOn'[i] = checkedOn[i]
    BY <2>1, <2>2 DEF Base, TypeOK
  <2>4. \A k \in Kinds : included[k] \subseteq Numbers
    BY DEF Base, TypeOK
  <2> QED BY <2>2, <2>3, <2>4 DEF Dated
<1>5. CASE CrossedMidnight
  <2>1. PICK compared \in 0..today, copied \in 0..today :
          /\ status' = [pc |-> IF status.previous # compared THEN "reset" ELSE "check",
                        kind |-> 1, raw |-> 0, previous |-> copied]
          /\ raced' = (raced \/ {compared, copied} # {status.raw})
    BY <1>5 DEF CrossedMidnight
  <2>2. status.pc = "midnight" /\ UNCHANGED <<popped, included, checkedOn>>
    BY <1>5 DEF CrossedMidnight
  <2>3. SUFFICES ASSUME ~raced' PROVE Dated'
    BY DEF Dated
  <2>4. ~raced /\ compared = status.raw /\ copied = status.raw
    BY <2>1, <2>3
  <2>5. CASE status.previous # compared
    <3>1. status'.pc = "reset" /\ status'.kind = 1
      BY <2>1, <2>5
    <3>2. /\ status.previous \in Days
          /\ \A k \in Kinds : \A i \in included[k] : i # popped => checkedOn[i] = status.previous
      BY <2>2, <2>4 DEF Dated, Base, TypeOK
    <3>3. \E day \in Days :
            \A k \in Kinds : \A i \in included'[k] : i # popped' => checkedOn'[i] = day
      BY <2>2, <3>2
    <3>4. \A n \in 1..KindCount : ~(n < status'.kind)
      BY <3>1 DEF KindCount
    <3> QED BY <3>1, <3>3, <3>4 DEF Dated
  <2>6. CASE status.previous = compared
    <3>1. status'.pc = "check" /\ status'.previous = status.previous
      BY <2>1, <2>4, <2>6
    <3>2. \A k \in Kinds : \A i \in included[k] : checkedOn[i] = status.previous
      BY <2>2, <2>4, <2>6 DEF Dated
    <3> QED BY <2>2, <3>1, <3>2 DEF Dated
  <2> QED BY <2>5, <2>6
<1>6. CASE MidnightReset
  <2> DEFINE k == KindOrder[status.kind]
  <2>1. /\ status.pc = "reset" /\ status.kind \in 1..KindCount
        /\ k \in Kinds /\ included' = [included EXCEPT ![k] = {}]
        /\ UNCHANGED <<popped, checkedOn, raced>>
    BY <1>6, KindOrderType DEF MidnightReset, ResetCell, Base, TypeOK
  <2>2. included'[k] = {} /\ \A j \in Kinds : j # k => included'[j] = included[j]
    BY <2>1 DEF Base, TypeOK
  <2>3. SUFFICES ASSUME ~raced PROVE Dated'
    BY <2>1 DEF Dated
  <2>4. \A n \in 1..KindCount : n <= status.kind => included'[KindOrder[n]] = {}
    <3> SUFFICES ASSUME NEW n \in 1..KindCount, n <= status.kind
                 PROVE  included'[KindOrder[n]] = {}
      OBVIOUS
    <3>1. CASE n = status.kind
      BY <2>2, <3>1
    <3>2. CASE n # status.kind
      <4>1. n < status.kind /\ KindOrder[n] \in Kinds
        BY <2>1, <3>2, KindOrderType
      <4>2. included[KindOrder[n]] = {}
        BY <2>1, <2>3, <4>1 DEF Dated
      <4> QED BY <2>2, <4>1, <4>2
    <3> QED BY <3>1, <3>2
  <2>5. CASE status.kind < KindCount
    <3>1. status'.pc = "reset" /\ status'.kind = status.kind + 1
      BY <1>6, <2>5 DEF MidnightReset, Base, TypeOK
    <3>2. \A n \in 1..KindCount : n < status'.kind => n <= status.kind
      BY <2>1, <3>1 DEF KindCount
    <3>3. PICK day \in Days :
            \A j \in Kinds : \A i \in included[j] : i # popped => checkedOn[i] = day
      BY <2>1, <2>3 DEF Dated
    <3>4. \E d \in Days :
            \A j \in Kinds : \A i \in included'[j] : i # popped' => checkedOn'[i] = d
      BY <2>1, <2>2, <3>3
    <3> QED BY <2>4, <3>1, <3>2, <3>4 DEF Dated
  <2>6. CASE ~(status.kind < KindCount)
    <3>1. status'.pc = "check"
      BY <1>6, <2>6 DEF MidnightReset, Base, TypeOK
    <3>2. status.kind = 3
      BY <2>1, <2>6 DEF KindCount
    <3>3. \A j \in Kinds : included'[j] = {}
      <4>1. included'[KindOrder[1]] = {} /\ included'[KindOrder[2]] = {} /\ included'[KindOrder[3]] = {}
        BY <2>4, <3>2 DEF KindCount
      <4> QED BY <4>1 DEF KindOrder, Kinds
    <3> QED BY <3>1, <3>3 DEF Dated
  <2> QED BY <2>5, <2>6
<1>7. CASE JoinUpload
  BY <1>7 DEF JoinUpload, StatusGoto, Dated, Base, TypeOK
<1> QED BY <1>1, <1>2, <1>3, <1>4, <1>5, <1>6, <1>7 DEF StatusStep

\* For any number of messages and days, all messages of the open windows but
\* the one in hand are of one day, at any moment of either thread, unless
\* another thread's localtime() has come in between.
THEOREM WindowsWithinDays == SafeSpec => []WindowWithinDay
<1>1. Base /\ Dated /\ [Next]_vars => Dated'
  <2>1. Dated /\ UNCHANGED vars => Dated'
    BY DEF Dated, vars, statusVars, dataVars, historyVars
  <2> QED BY <2>1, AroundDated, StatusDated, UploadDated DEF Next
<1>2. Base /\ Dated => WindowWithinDay
  <2> SUFFICES ASSUME Base, Dated, ~raced,
                      NEW i \in (UNION {included[k] : k \in Kinds}) \ InHand,
                      NEW j \in (UNION {included[k] : k \in Kinds}) \ InHand
               PROVE  checkedOn[i] = checkedOn[j]
    BY DEF WindowWithinDay
  <2>1. PICK k \in Kinds : i \in included[k]
    OBVIOUS
  <2>2. PICK l \in Kinds : j \in included[l]
    OBVIOUS
  <2>3. CASE status.pc \in {"check", "pop", "lock", "join", "done"}
    BY <2>1, <2>2, <2>3 DEF Dated
  <2>4. CASE status.pc \in {"clock", "midnight", "reset"}
    <3>1. i # popped /\ j # popped
      BY <2>4 DEF InHand
    <3> QED BY <2>1, <2>2, <2>4, <3>1 DEF Dated
  <2> QED BY <2>3, <2>4 DEF Base, TypeOK
<1> QED BY <1>1, <1>2, InitDated, AlwaysBase, PTL DEF SafeSpec

-----------------------------------------------------------------------------
(***************************************************************************)
(* What becomes of the messages of the kind that is reported by mean and   *)
(* maximum.                                                                *)
(***************************************************************************)
TimedRecorded == {i \in Recorded : arrived[i] = Timed}

\* A message has been reported, or a midnight has removed it.
Accounted(i) == timesReported[i] = 1 \/ i \in forgotten

\* The window is what the mean is of, or it is empty; it is open until it is reported.
Window ==
  /\ included[Timed] \in {{}, averaged[Timed]}
  /\ averaged[Timed] \subseteq TimedRecorded
  /\ \A i \in included[Timed] :
       timesReported[i] = IF upload.pc = "reset" /\ upload.step = 1 THEN 1 ELSE 0

\* Only recorded messages are reported, once; one that is not is still to come
\* or was forgotten.
Ledger ==
  /\ \A i \in Numbers : timesReported[i] \in {0, 1}
  /\ \A i \in Numbers : i \notin Recorded => timesReported[i] = 0
  /\ \A i \in TimedRecorded : i \in included[Timed] \/ Accounted(i)

\* The report being made: its mean, then its maximum, which may be of a window
\* that midnight is about to clear.
Making ==
  /\ upload.pc \notin {"populate", "reset"} => upload.step = 1
  /\ upload.pc = "populate" =>
       /\ upload.step = 3 => upload.report.mean[Timed] = averaged[Timed]
       /\ upload.step = 4 =>
            /\ upload.report.max \in {{}, upload.report.mean[Timed]}
            /\ included[Timed] \subseteq upload.report.max
            /\ upload.report.max \subseteq Recorded
            /\ \A i \in upload.report.max : timesReported[i] = 0
            /\ upload.report.max = {} => \A i \in upload.report.mean[Timed] : Accounted(i)

Counted == Window /\ Ledger /\ Making /\ MeanAndMaxAgree /\ StaleMeanIsMarked

\* The timed field is one of the array.
LEMMA TimedKind == Timed \in Kinds
BY DEF Timed, Kinds

\* Counted holds at first.
LEMMA InitCounted == Init => Counted
<1> SUFFICES ASSUME Init PROVE Counted
  OBVIOUS
<1>1. included[Timed] = {} /\ averaged[Timed] = {}
  BY TimedKind DEF Init
<1>2. popped = 0 /\ Recorded = {}
  BY DEF Init, Recorded
<1>3. NoReport.max = {} /\ NoReport.mean[Timed] = {}
  BY DEF NoReport, Timed, Averaged
<1> QED BY <1>1, <1>2, <1>3
        DEF Init, Counted, Window, Ledger, Making, MeanAndMaxAgree, StaleMeanIsMarked,
            TimedRecorded

\* Messages that have been recorded are among those that have arrived.
LEMMA RecordedType ==
  ASSUME Base
  PROVE  /\ Recorded \subseteq 1..Len(arrived) /\ Recorded \subseteq Numbers
         /\ Len(arrived) \in Nat /\ popped \in Nat /\ popped <= Len(arrived)
BY ConstantsAssumption DEF Base, TypeOK, InBounds, Recorded, Numbers

\* Messages, resets and midnights keep Counted.
LEMMA AroundCounted == Base /\ Around /\ Counted => Counted'
<1> SUFFICES ASSUME Base, Around, Counted PROVE Counted'
  OBVIOUS
<1>1. /\ UNCHANGED <<status, popped, upload, included, averaged, lastReport, timesReported>>
      /\ forgotten' = forgotten
  BY DEF Around, statusVars, uploadVars, dataVars, reportVars, historyVars
<1>2. Recorded' = Recorded
  BY <1>1 DEF Recorded
<1>3. \A i \in 1..Len(arrived) : arrived'[i] = arrived[i]
  <2>1. CASE Arrive
    <3>1. PICK k \in Kinds : arrived' = Append(arrived, k)
      BY <2>1 DEF Arrive
    <3> QED BY <3>1 DEF Base, TypeOK
  <2>2. CASE ~Arrive
    BY <2>2 DEF Around, Reset, NewDay
  <2> QED BY <2>1, <2>2
<1>4. TimedRecorded' = TimedRecorded
  BY <1>2, <1>3, RecordedType DEF TimedRecorded
<1> QED BY <1>1, <1>2, <1>4
        DEF Counted, Window, Ledger, Making, MeanAndMaxAgree, StaleMeanIsMarked, Accounted

\* A step of statusThread that changes no window.
LEMMA SameWindows ==
  ASSUME Base, Counted, Recorded' = Recorded,
         UNCHANGED <<arrived, upload, included, averaged, lastReport, timesReported, forgotten>>
  PROVE  Counted'
BY DEF Counted, Window, Ledger, Making, MeanAndMaxAgree, StaleMeanIsMarked, Accounted,
       TimedRecorded

\* statusThread stores a message: it becomes part of mean and maximum.
LEMMA RecordCounted ==
  ASSUME Base, Counted, StatusStep, RecordStatusData
  PROVE  Counted'
<1>1. /\ UNCHANGED <<arrived, upload, uploadMutex, lastReport, timesReported, popped, forgotten>>
      /\ upload.pc \notin {"populate", "reset"} /\ status.pc = "lock" /\ status'.pc = "clock"
  BY DEF StatusStep, RecordStatusData, StatusGoto, MutexFree, Base, Owner, TypeOK,
         aroundVars, uploadVars, reportVars
<1>2. popped \in Numbers /\ arrived[popped] \in Kinds
  BY <1>1, ConstantsAssumption DEF Base, TypeOK, InBounds, Numbers
<1>3. Recorded' = Recorded \cup {popped} /\ popped \notin Recorded
  BY <1>1, <1>2 DEF Recorded, Numbers
<1>4. CASE arrived[popped] = Timed
  <2>1. /\ included'[Timed] = included[Timed] \cup {popped}
        /\ averaged'[Timed] = included[Timed] \cup {popped}
    BY <1>4, TimedKind DEF RecordStatusData, Base, TypeOK
  <2>2. TimedRecorded' = TimedRecorded \cup {popped}
    BY <1>1, <1>3, <1>4 DEF TimedRecorded
  <2>3. included[Timed] \subseteq TimedRecorded
    BY DEF Counted, Window
  <2>4. Window'
    BY <1>1, <1>2, <1>3, <2>1, <2>2, <2>3 DEF Counted, Window, Ledger
  <2>5. Ledger'
    BY <1>1, <1>3, <2>1, <2>2 DEF Counted, Ledger, Accounted
  <2> QED BY <1>1, <2>4, <2>5 DEF Counted, Making, MeanAndMaxAgree, StaleMeanIsMarked
<1>5. CASE arrived[popped] # Timed
  <2>1. included'[Timed] = included[Timed] /\ averaged'[Timed] = averaged[Timed]
    BY <1>2, <1>5, TimedKind DEF RecordStatusData, Base, TypeOK
  <2>2. TimedRecorded' = TimedRecorded
    BY <1>1, <1>3, <1>5 DEF TimedRecorded
  <2> QED BY <1>1, <1>3, <2>1, <2>2
          DEF Counted, Window, Ledger, Making, MeanAndMaxAgree, StaleMeanIsMarked, Accounted
<1> QED BY <1>4, <1>5

\* Midnight clears a window, whatever the upload thread is at: what was in it
\* is forgotten.
LEMMA MidnightCounted ==
  ASSUME Base, Counted, StatusStep, MidnightReset
  PROVE  Counted'
<1> DEFINE k == KindOrder[status.kind]
<1>1. /\ UNCHANGED <<arrived, upload, lastReport, timesReported, popped, averaged>>
      /\ status.pc = "reset" /\ status'.pc # "lock"
      /\ k \in Kinds /\ included' = [included EXCEPT ![k] = {}]
      /\ forgotten' = forgotten \cup included[k]
  BY KindOrderType DEF StatusStep, MidnightReset, ResetCell, Base, TypeOK,
                       aroundVars, uploadVars, reportVars
<1>2. Recorded' = Recorded /\ TimedRecorded' = TimedRecorded
  BY <1>1 DEF Recorded, TimedRecorded
<1>3. CASE k = Timed
  <2>1. included'[Timed] = {} /\ forgotten' = forgotten \cup included[Timed]
    BY <1>1, <1>3 DEF Base, TypeOK
  <2> QED BY <1>1, <1>2, <2>1
          DEF Counted, Window, Ledger, Making, MeanAndMaxAgree, StaleMeanIsMarked, Accounted
<1>4. CASE k # Timed
  <2>1. included'[Timed] = included[Timed]
    BY <1>1, <1>4, TimedKind DEF Base, TypeOK
  <2> QED BY <1>1, <1>2, <2>1
          DEF Counted, Window, Ledger, Making, MeanAndMaxAgree, StaleMeanIsMarked, Accounted
<1> QED BY <1>3, <1>4

\* statusThread keeps Counted.
LEMMA StatusCounted == Base /\ StatusStep /\ Counted => Counted'
<1> SUFFICES ASSUME Base, StatusStep, Counted PROVE Counted'
  OBVIOUS
<1>0. UNCHANGED <<arrived, upload, lastReport, timesReported>>
  BY DEF StatusStep, aroundVars, uploadVars, reportVars
<1>1. ASSUME StatusCheck \/ ReadClock \/ CrossedMidnight \/ JoinUpload PROVE Counted'
  <2>1. status.pc # "lock" /\ status'.pc # "lock"
    <3>1. CASE CrossedMidnight
      BY <3>1 DEF CrossedMidnight
    <3>2. CASE StatusCheck \/ JoinUpload
      BY <3>2 DEF StatusCheck, JoinUpload, StatusGoto, Base, TypeOK
    <3>3. CASE ReadClock
      BY <3>3 DEF ReadClock, Base, TypeOK
    <3> QED BY <1>1, <3>1, <3>2, <3>3
  <2>2. UNCHANGED <<popped, included, averaged, forgotten>>
    BY <1>1 DEF StatusCheck, ReadClock, CrossedMidnight, JoinUpload, dataVars
  <2>3. Recorded' = Recorded
    BY <2>1, <2>2 DEF Recorded
  <2> QED BY <1>0, <2>2, <2>3, SameWindows
<1>2. CASE PopMessage
  <2>1. /\ status.pc = "pop" /\ status'.pc = "lock" /\ popped' = popped + 1
        /\ UNCHANGED <<included, averaged, forgotten>>
    BY <1>2 DEF PopMessage, StatusGoto, Base, TypeOK, dataVars
  <2>2. Recorded' = Recorded
    BY <2>1, RecordedType DEF Recorded
  <2> QED BY <1>0, <2>1, <2>2, SameWindows
<1> QED BY <1>1, <1>2, RecordCounted, MidnightCounted DEF StatusStep

\* The upload thread reads the next value; with the last one the report is
\* published, and all messages it counts are still marked as not reported.
LEMMA PopulateCounted ==
  ASSUME Base, Counted, UploadStep, Populate
  PROVE  Counted'
<1>1. PICK r \in Populated(upload.step) :
       IF upload.step < 4
         THEN upload' = [upload EXCEPT !.step = @ + 1, !.report = r] /\ UNCHANGED reportVars
         ELSE /\ upload' = [pc |-> "reset", step |-> 1, report |-> NoReport]
              /\ lastReport' = r
              /\ timesReported' = [i \in Numbers |->
                                     timesReported[i] + IF i \in r.max THEN 1 ELSE 0]
  BY DEF Populate
<1>2. /\ r \in Reports
      /\ upload.step # 2 => r.mean[Timed] = upload.report.mean[Timed]
      /\ upload.step = 2 => r.mean[Timed] = averaged[Timed]
      /\ upload.step # 3 => r.max = upload.report.max
      /\ upload.step = 3 => r.max = included[Timed]
  BY PopulatedType
<1>3. /\ UNCHANGED <<arrived, status, popped, included, averaged, forgotten>>
      /\ upload.pc = "populate" /\ upload.step \in 1..4
  BY DEF UploadStep, Populate, Base, TypeOK, aroundVars, statusVars, dataVars, historyVars
<1>4. Recorded' = Recorded /\ TimedRecorded' = TimedRecorded
  BY <1>3 DEF Recorded, TimedRecorded
<1>5. CASE upload.step < 4
  <2>1. /\ upload'.pc = "populate" /\ upload'.step = upload.step + 1 /\ upload'.report = r
        /\ lastReport' = lastReport /\ timesReported' = timesReported
    BY <1>1, <1>3, <1>5 DEF Base, TypeOK, reportVars
  <2>2. Window' /\ Ledger' /\ MeanAndMaxAgree' /\ StaleMeanIsMarked'
    BY <1>3, <1>4, <2>1
       DEF Counted, Window, Ledger, MeanAndMaxAgree, StaleMeanIsMarked, Accounted
  <2>3. CASE upload.step \in {1, 2}
    BY <1>2, <1>3, <2>1, <2>2, <2>3 DEF Counted, Making
  <2>4. CASE upload.step = 3
    <3>1. /\ r.mean[Timed] = averaged[Timed] /\ r.max = included[Timed]
          /\ r.max \in {{}, r.mean[Timed]}
      BY <1>2, <1>3, <2>4 DEF Counted, Making, Window
    <3>2. r.max \subseteq TimedRecorded /\ \A i \in r.max : timesReported[i] = 0
      BY <1>3, <3>1 DEF Counted, Window
    <3>3. r.max = {} => \A i \in r.mean[Timed] : Accounted(i)
      BY <3>1 DEF Counted, Window, Ledger
    <3>4. Making'
      BY <1>3, <1>4, <2>1, <2>4, <3>1, <3>2, <3>3 DEF Making, Accounted, TimedRecorded
    <3> QED BY <2>2, <3>4 DEF Counted
  <2> QED BY <1>3, <1>5, <2>3, <2>4
<1>6. CASE upload.step = 4
  <2>1. /\ upload'.pc = "reset" /\ upload'.step = 1 /\ lastReport' = r
        /\ timesReported' = [i \in Numbers |->
                               timesReported[i] + IF i \in r.max THEN 1 ELSE 0]
    BY <1>1, <1>6
  <2>2. /\ r.max \in {{}, r.mean[Timed]} /\ included[Timed] \subseteq r.max
        /\ r.max \subseteq Recorded /\ \A i \in r.max : timesReported[i] = 0
        /\ r.max = {} => \A i \in r.mean[Timed] : Accounted(i)
    BY <1>2, <1>3, <1>6 DEF Counted, Making
  <2>3. \A i \in Numbers : timesReported'[i] = IF i \in r.max THEN 1 ELSE timesReported[i]
    BY <2>1, <2>2 DEF Base, TypeOK
  <2>4. Recorded \subseteq Numbers
    BY RecordedType
  <2>5. Window'
    BY <1>3, <1>4, <2>1, <2>2, <2>3, <2>4 DEF Counted, Window
  <2>6. Ledger'
    BY <1>3, <1>4, <2>2, <2>3, <2>4 DEF Counted, Ledger, Accounted, TimedRecorded
  <2>7. Timed \in Averaged
    BY DEF Timed, Averaged
  <2>8. r.mean[Timed] \subseteq Numbers
    BY <1>2, <2>7 DEF Reports
  <2>9. MeanAndMaxAgree' /\ StaleMeanIsMarked'
    BY <1>3, <2>1, <2>2, <2>3, <2>8 DEF MeanAndMaxAgree, StaleMeanIsMarked, Accounted
  <2> QED BY <2>1, <2>5, <2>6, <2>9 DEF Counted, Making
<1> QED BY <1>3, <1>5, <1>6

\* The upload thread keeps Counted.
LEMMA UploadCounted == Base /\ UploadStep /\ Counted => Counted'
<1> SUFFICES ASSUME Base, UploadStep, Counted PROVE Counted'
  OBVIOUS
<1>0. /\ UNCHANGED <<arrived, status, popped, forgotten>>
      /\ Recorded' = Recorded /\ TimedRecorded' = TimedRecorded
  BY DEF UploadStep, aroundVars, statusVars, historyVars, Recorded, TimedRecorded
<1>1. ASSUME UploadCheck \/ UploadWake \/ LockUpload PROVE Counted'
  <2>1. /\ UNCHANGED <<included, averaged, lastReport, timesReported>>
        /\ upload.pc \in {"check", "sleep", "lock"} /\ upload'.pc # "reset"
        /\ upload'.step = upload.step
    BY <1>1 DEF UploadCheck, UploadWake, LockUpload, UploadGoto, Base, TypeOK,
                dataVars, reportVars
  <2>2. /\ upload'.pc \notin {"populate", "reset"} => upload'.step = 1
        /\ upload'.pc = "populate" => upload'.step = 1
    BY <2>1 DEF Counted, Making
  <2>3. Making'
    BY <2>2 DEF Making
  <2> QED BY <1>0, <2>1, <2>3
          DEF Counted, Window, Ledger, MeanAndMaxAgree, StaleMeanIsMarked, Accounted
<1>2. CASE UploadReset
  <2> DEFINE k == KindOrder[upload.step]
  <2>1. /\ k \in Kinds /\ included' = [included EXCEPT ![k] = {}]
        /\ UNCHANGED <<averaged, lastReport, timesReported>>
        /\ upload.pc = "reset" /\ upload.step \in 1..KindCount
    BY <1>2, KindOrderType
       DEF UploadReset, ResetCell, Base, InBounds, reportVars
  <2>2. KindOrder[1] = Timed
    BY DEF KindOrder, Timed
  <2>3. upload.step = 1 => included'[Timed] = {}
    BY <2>1, <2>2 DEF Base, TypeOK
  <2>4. \/ included'[Timed] = included[Timed]
        \/ included'[Timed] = {}
    BY <2>1, TimedKind DEF Base, TypeOK
  <2>5. /\ upload'.pc \in {"reset", "check"}
        /\ upload'.pc = "reset" => upload'.step # 1
        /\ upload'.pc = "check" => upload'.step = 1
    <3>1. CASE upload.step < KindCount
      BY <1>2, <2>1, <3>1 DEF UploadReset, Base, TypeOK
    <3>2. CASE ~(upload.step < KindCount)
      BY <1>2, <2>1, <3>2 DEF UploadReset, Base, TypeOK
    <3> QED BY <3>1, <3>2
  <2>6. Window'
    BY <1>0, <2>1, <2>3, <2>4, <2>5 DEF Counted, Window
  <2>7. Ledger'
    <3> SUFFICES ASSUME NEW i \in TimedRecorded, i \in included[Timed], i \notin included'[Timed]
                 PROVE  Accounted(i)
      BY <1>0, <2>1 DEF Counted, Ledger, Accounted
    <3>1. CASE upload.step = 1
      BY <2>1, <3>1 DEF Counted, Window, Accounted
    <3>2. CASE upload.step # 1
      <4>1. KindOrder[upload.step] # Timed
        BY <2>1, <3>2 DEF KindOrder, KindCount, Timed
      <4> QED BY <2>1, <4>1, TimedKind DEF Base, TypeOK
    <3> QED BY <3>1, <3>2
  <2> QED BY <1>0, <2>1, <2>5, <2>6, <2>7
          DEF Counted, Making, MeanAndMaxAgree, StaleMeanIsMarked, Accounted
<1> QED BY <1>1, <1>2, PopulateCounted DEF UploadStep

\* Counted holds throughout.
LEMMA AlwaysCounted == SafeSpec => []Counted
<1>1. Base /\ Counted /\ [Next]_vars => Counted'
  <2>1. Counted /\ UNCHANGED vars => Counted'
    BY DEF Counted, Window, Ledger, Making, MeanAndMaxAgree, StaleMeanIsMarked, Accounted,
           TimedRecorded, Recorded, vars, aroundVars, statusVars, uploadVars, dataVars,
           reportVars, historyVars
  <2> QED BY <2>1, AroundCounted, StatusCounted, UploadCounted DEF Next
<1> QED BY <1>1, InitCounted, AlwaysBase, PTL DEF SafeSpec

\* For any number of messages and days, mean and maximum of a report are of the
\* same messages, or the maximum is that of none, although midnight resets the
\* array without the mutex.
THEOREM MeansAndMaximaAgree == SafeSpec => []MeanAndMaxAgree
<1>1. Counted => MeanAndMaxAgree
  BY DEF Counted
<1> QED BY <1>1, AlwaysCounted, PTL

\* A report without messages repeats a mean of messages that were reported
\* before or removed at a midnight.
THEOREM StaleMeansAreMarked == SafeSpec => []StaleMeanIsMarked
<1>1. Counted => StaleMeanIsMarked
  BY DEF Counted
<1> QED BY <1>1, AlwaysCounted, PTL

\* No message is in two reports, and none is lost but at a midnight.
THEOREM MessagesCountedOnce == SafeSpec => []CountedOnce
<1>1. Base /\ Counted => CountedOnce
  <2> SUFFICES ASSUME Base, Counted PROVE CountedOnce
    OBVIOUS
  <2>1. \A i \in Numbers : timesReported[i] <= 1
    BY DEF Counted, Ledger
  <2>2. \A i \in Recorded :
          arrived[i] = Timed /\ timesReported[i] = 0 => i \in included[Timed] \cup forgotten
    BY DEF Counted, Ledger, TimedRecorded, Accounted
  <2> QED BY <2>1, <2>2 DEF CountedOnce
<1> QED BY <1>1, AlwaysBase, AlwaysCounted, PTL

-----------------------------------------------------------------------------
(***************************************************************************)
(* What is known of uptimes: the one stored is of a message popped so far, *)
(* or of the memory; the one in a report half made is the one stored,      *)
(* since recording needs the mutex and no reset touches it; and the last   *)
(* one reported, if the station said it, is no later than the one stored.  *)
(***************************************************************************)
StoredInTime == storedUptime \in Unset \cup (1..popped)

Carried ==
  upload.pc = "populate" /\ upload.step # 1 => upload.report.uptime \in AsUnsigned(storedUptime)

NotPassed ==
  lastReport.uptime \in Numbers =>
    storedUptime \in Numbers /\ lastReport.uptime <= storedUptime

Uptimes == StoredInTime /\ Carried /\ NotPassed

\* Uptimes holds at first.
LEMMA InitUptimes == Init => Uptimes
BY DEF Init, Uptimes, StoredInTime, Carried, NotPassed, NoReport, Numbers

\* statusThread keeps Uptimes: it stores uptimes in the order of their
\* messages.
LEMMA StatusUptimes ==
  ASSUME Unset \cap Numbers = {}, Base, Uptimes, StatusStep
  PROVE  Uptimes'
<1>1. UNCHANGED <<arrived, upload, uploadMutex, lastReport>> /\ popped \in Nat
  BY DEF StatusStep, aroundVars, uploadVars, reportVars, Base, TypeOK
<1>2. CASE RecordStatusData
  <2>1. /\ popped' = popped /\ upload.pc # "populate"
        /\ storedUptime' = IF arrived[popped] = "Sensor_Uptime" THEN popped ELSE storedUptime
    BY <1>2 DEF RecordStatusData, MutexFree, Base, Owner, TypeOK
  <2>2. popped \in Numbers
    BY <1>1, <1>2, ConstantsAssumption
       DEF RecordStatusData, StatusGoto, Base, TypeOK, InBounds, Numbers
  <2>3. CASE arrived[popped] = "Sensor_Uptime"
    <3>1. storedUptime \in Numbers => storedUptime \in 1..popped
      BY DEF Uptimes, StoredInTime
    <3>2. lastReport.uptime \in Numbers => lastReport.uptime <= popped
      BY <2>2, <3>1 DEF Uptimes, NotPassed, Numbers
    <3> QED BY <1>1, <2>1, <2>2, <2>3, <3>2
            DEF Uptimes, StoredInTime, Carried, NotPassed, Numbers
  <2>4. CASE arrived[popped] # "Sensor_Uptime"
    BY <1>1, <2>1, <2>4 DEF Uptimes, StoredInTime, Carried, NotPassed
  <2> QED BY <2>3, <2>4
<1>3. CASE ~RecordStatusData
  <2>1. storedUptime' = storedUptime /\ popped' \in {popped, popped + 1}
    BY <1>3 DEF StatusStep, StatusCheck, PopMessage, ReadClock, CrossedMidnight, MidnightReset,
                ResetCell, JoinUpload, dataVars
  <2>2. StoredInTime'
    BY <1>1, <2>1 DEF Uptimes, StoredInTime
  <2> QED BY <1>1, <2>1, <2>2 DEF Uptimes, Carried, NotPassed
<1> QED BY <1>2, <1>3

\* The uptime is read first and stays in the report.
LEMMA PopulatedUptime ==
  ASSUME Base, NEW r \in Populated(upload.step)
  PROVE  /\ upload.step = 1 => r.uptime \in AsUnsigned(storedUptime)
         /\ upload.step # 1 => r.uptime = upload.report.uptime
<1>1. upload.step \in {1, 2, 3, 4} /\ upload.report \in Reports
  BY DEF Base, TypeOK
<1>2. CASE upload.step = 1
  <2>1. PICK u \in AsUnsigned(storedUptime) : r = [upload.report EXCEPT !.uptime = u]
    BY <1>2 DEF Populated
  <2> QED BY <1>1, <1>2, <2>1 DEF Reports
<1>3. CASE upload.step = 2
  <2>1. r = [upload.report EXCEPT !.mean[Timed] = averaged[Timed]]
    BY <1>3 DEF Populated
  <2> QED BY <1>1, <1>3, <2>1 DEF Reports
<1>4. CASE upload.step = 3
  <2>1. r = [upload.report EXCEPT !.max = included[Timed]]
    BY <1>4 DEF Populated, Maximum
  <2> QED BY <1>1, <1>4, <2>1 DEF Reports
<1>5. CASE upload.step = 4
  <2>1. r = [upload.report EXCEPT !.mean["Battery_Voltage"] = averaged["Battery_Voltage"]]
    BY <1>5 DEF Populated
  <2> QED BY <1>1, <1>5, <2>1 DEF Reports
<1> QED BY <1>1, <1>2, <1>3, <1>4, <1>5

\* A report goes out with the uptime stored, or with 0.
LEMMA PopulateUptimes ==
  ASSUME Base, Uptimes, UploadStep, Populate
  PROVE  /\ Uptimes' /\ UNCHANGED storedUptime
         /\ lastReport' = lastReport \/ lastReport'.uptime \in AsUnsigned(storedUptime)
<1>1. PICK r \in Populated(upload.step) :
       IF upload.step < 4
         THEN upload' = [upload EXCEPT !.step = @ + 1, !.report = r] /\ UNCHANGED reportVars
         ELSE /\ upload' = [pc |-> "reset", step |-> 1, report |-> NoReport]
              /\ lastReport' = r
              /\ timesReported' = [i \in Numbers |->
                                     timesReported[i] + IF i \in r.max THEN 1 ELSE 0]
  BY DEF Populate
<1>2. /\ UNCHANGED <<popped, storedUptime>>
      /\ upload.pc = "populate" /\ upload.step \in 1..4
  BY DEF UploadStep, Populate, Base, TypeOK, statusVars, dataVars
<1>3. r.uptime \in AsUnsigned(storedUptime)
  BY <1>2, PopulatedUptime DEF Uptimes, Carried
<1>4. CASE upload.step < 4
  <2>1. upload'.report = r /\ lastReport' = lastReport
    BY <1>1, <1>4 DEF Base, TypeOK, reportVars
  <2>2. AsUnsigned(storedUptime)' = AsUnsigned(storedUptime)
    BY <1>2 DEF AsUnsigned
  <2> QED BY <1>2, <1>3, <2>1, <2>2 DEF Uptimes, StoredInTime, Carried, NotPassed
<1>5. CASE ~(upload.step < 4)
  <2>1. upload'.pc = "reset" /\ lastReport' = r
    BY <1>1, <1>5
  <2>2. storedUptime \in Nat /\ r.uptime \in {0, storedUptime}
    BY <1>3 DEF AsUnsigned, Base, TypeOK
  <2>3. r.uptime \in Numbers => r.uptime = storedUptime
    BY <2>2 DEF Numbers
  <2> QED BY <1>2, <1>3, <2>1, <2>2, <2>3 DEF Uptimes, StoredInTime, Carried, NotPassed
<1> QED BY <1>4, <1>5

\* Every step keeps Uptimes.
LEMMA UptimesKept ==
  ASSUME Unset \cap Numbers = {}, Base, Counted, Uptimes, [Next]_vars
  PROVE  Uptimes'
<1>1. CASE Around \/ UNCHANGED vars
  <2>1. UNCHANGED <<popped, upload, storedUptime, lastReport>>
    BY <1>1 DEF Around, vars, statusVars, uploadVars, dataVars, reportVars
  <2> QED BY <2>1 DEF Uptimes, StoredInTime, Carried, NotPassed, AsUnsigned
<1>2. CASE UploadStep /\ ~Populate
  <2>1. UNCHANGED <<popped, storedUptime, lastReport>>
    BY <1>2 DEF UploadStep, UploadCheck, UploadWake, LockUpload, UploadReset, ResetCell,
                statusVars, dataVars, reportVars
  <2>2. CASE UploadReset
    <3>1. upload'.pc # "populate"
      BY <2>2 DEF UploadReset, Base, TypeOK
    <3> QED BY <2>1, <3>1 DEF Uptimes, StoredInTime, Carried, NotPassed
  <2>3. CASE LockUpload
    <3>1. upload'.step = 1
      BY <2>3 DEF LockUpload, UploadGoto, Base, TypeOK, Counted, Making
    <3> QED BY <2>1, <3>1 DEF Uptimes, StoredInTime, Carried, NotPassed
  <2>4. CASE UploadCheck \/ UploadWake
    <3>1. upload'.pc # "populate"
      BY <2>4 DEF UploadCheck, UploadWake, UploadGoto, Base, TypeOK
    <3> QED BY <2>1, <3>1 DEF Uptimes, StoredInTime, Carried, NotPassed
  <2> QED BY <1>2, <2>2, <2>3, <2>4 DEF UploadStep
<1> QED BY <1>1, <1>2, StatusUptimes, PopulateUptimes DEF Next

\* If the memory of statusData did not happen to hold one of the station's own
\* uptimes: for any number of messages, resets and days, an uptime the station has
\* said is never followed by a lower one in a report, while it is an int32_t.
THEOREM UptimesGoForward ==
  ASSUME Unset \cap Numbers = {}
  PROVE  SafeSpec => UptimeNeverBack
<1> DEFINE Back == lastReport.uptime \in Numbers /\ lastReport'.uptime < lastReport.uptime
<1>1. ASSUME Base, Uptimes, [Next]_vars, Back
      PROVE  storedUptime >= HalfRange \/ lastReport' = lastReport
  <2> SUFFICES ASSUME lastReport' # lastReport PROVE storedUptime >= HalfRange
    OBVIOUS
  <2>1. UploadStep /\ Populate
    <3>1. Around \/ StatusStep \/ UNCHANGED vars => UNCHANGED lastReport
      BY DEF Around, StatusStep, vars, reportVars
    <3>2. UploadCheck \/ UploadWake \/ LockUpload \/ UploadReset => UNCHANGED lastReport
      BY DEF UploadCheck, UploadWake, LockUpload, UploadReset, reportVars
    <3> QED BY <1>1, <3>1, <3>2 DEF Next, UploadStep
  <2>2. lastReport'.uptime \in AsUnsigned(storedUptime)
    BY <1>1, <2>1, PopulateUptimes
  <2>3. storedUptime \in Nat /\ HalfRange \in Nat /\ lastReport.uptime <= storedUptime
        /\ lastReport.uptime \in Nat
    BY <1>1, ConstantsAssumption DEF Uptimes, NotPassed, Numbers, Base, TypeOK
  <2> QED BY <1>1, <2>2, <2>3 DEF AsUnsigned
<1>2. Base /\ Uptimes /\ [Next]_vars =>
        [Back => storedUptime >= HalfRange]_lastReport
  BY <1>1
<1>3. Base /\ Counted /\ Uptimes /\ [Next]_vars => Uptimes'
  BY UptimesKept
<1> QED BY <1>2, <1>3, InitUptimes, AlwaysBase, AlwaysCounted, PTL DEF SafeSpec, UptimeNeverBack
=============================================================================
