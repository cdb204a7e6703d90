--------------------------- MODULE WindDirection ---------------------------
(***************************************************************************)
(* The wind direction of core/weather_thread.cpp: a Numerical_Statistics   *)
(* of degrees that are corrected before they are included, because 360 is  *)
(* 0, and the mean of which is brought back into 0..359 for the report.    *)
(* Other fields include their values as they are.                          *)
(***************************************************************************)
EXTENDS NumericalStatistics

CONSTANT Directions  \* the directions that messages bring

ASSUME DegreesAssumption == Directions \subseteq 0..359

VARIABLES
  field,    \* whether the object is that of the wind direction or another one
  degrees   \* history: the directions as the messages brought them

allVars == <<statsVars, field, degrees>>

InitField ==
  /\ InitStats
  /\ field \in {"WindDirection", "Other"} /\ degrees = <<>>

FullTurn == 360 * Scale

Distance(a, b) == IF a > b THEN a - b ELSE b - a

\* Mutant of InTurn: the loop that adds full turns is missing.
InTurnFromAbove(direction) ==
  IF direction >= FullTurn THEN direction % FullTurn ELSE direction

\* The loops of windDirection() add or subtract full turns.
InTurn(direction) == direction % FullTurn

\* currentWindDirection(), in degrees.
Corrected(direction, mean) ==
  IF Distance(Scale * direction, mean) > FullTurn \div 2 THEN direction - 360 ELSE direction

AddWindDirection(d) ==
  /\ field = "WindDirection"
  /\ StoreValue(Corrected(d, stats.meanValue))
  /\ degrees' = Append(degrees, d)
  /\ UNCHANGED field

AddOther ==
  /\ field = "Other"
  /\ \E v \in Values : IncludeValue(v) \/ StoreValue(v)
  /\ UNCHANGED <<field, degrees>>

ResetWindow == Reset /\ degrees' = <<>> /\ UNCHANGED field

NextField == (\E d \in Directions : AddWindDirection(d)) \/ AddOther \/ ResetWindow

FieldSpec == InitField /\ [][NextField]_allVars

-----------------------------------------------------------------------------
\* What the report says.
Reported == InTurn(stats.meanValue)

(***************************************************************************)
(* A wind that does not turn is reported as it is, whatever the mean of    *)
(* the window before, to which its first message was compared.             *)
(***************************************************************************)
SteadyWind ==
  \A d \in Directions : degrees # <<>> /\ Range(degrees) = {d} => Reported = Scale * d
=============================================================================
