------------------------ MODULE NumericalStatistics ------------------------
(***************************************************************************)
(* Numerical_Statistics<double> of utilities/numerical_statistics.cpp: the *)
(* running mean, deviation and extremes of the values included since the   *)
(* last reset.  Fractions are exact: a mean is counted in units of 1/Scale *)
(* and a square in units of 1/Scale^2, with Scale divisible by every       *)
(* number of values a window may have (rounding of double is left out).    *)
(* WindDirection says what is put into such objects.                       *)
(***************************************************************************)
EXTENDS Integers, Sequences, FiniteSetsExt, Functions

CONSTANTS
  Values,    \* the values that are included as they are
  MaxCount,  \* bound on the number of values between two resets
  Scale      \* the denominator of means

ASSUME ScaleAssumption ==
  /\ MaxCount \in Nat \ {0}
  /\ Scale \in Nat \ {0}
  /\ \A n \in 1..MaxCount : Scale % n = 0
  /\ Values \subseteq Int

VARIABLES
  stats,   \* the private members of the object
  window   \* the values included since the last reset, in order

statsVars == <<stats, window>>

Lowest  == -100000000
Highest ==  100000000

\* No value reaches what reset() makes the extremes.
ASSUME ExtremesAssumption == \A v \in Values : Lowest < v /\ v < Highest

\* Mutant of ResetOf: the count goes on.
ResetKeepsCount(s) ==
  [s EXCEPT !.minValue = Highest, !.maxValue = Lowest, !.valueStDev = 0]

\* reset() leaves the mean, newMax, newMin and storedValue alone.
ResetOf(s) ==
  [s EXCEPT !.minValue = Highest, !.maxValue = Lowest, !.valueStDev = 0, !.valueCount = 0]

\* The constructor sets the mean and calls reset(); the rest is what memory held.
InitStats ==
  /\ window = <<>>
  /\ \E max, min \in BOOLEAN, v \in Values :
       stats = ResetOf([meanValue |-> 0, valueStDev |-> 0, valueCount |-> 0,
                        maxValue |-> 0, minValue |-> 0,
                        newMax |-> max, newMin |-> min, storedValue |-> v])

Greater(a, b) == IF a > b THEN a ELSE b
Smaller(a, b) == IF a < b THEN a ELSE b

NewMean(s, v) == s.meanValue + (Scale * v - s.meanValue) \div (s.valueCount + 1)

\* Mutant of Square: the old mean twice.
SquareOfOldMean(s, v) == (Scale * v - s.meanValue) * (Scale * v - s.meanValue)

\* What a value adds to the sum of squares.
Square(s, v) == (Scale * v - NewMean(s, v)) * (Scale * v - s.meanValue)

\* Mutant of IsNewMax: an equal value counts as a new maximum.
IsNewMaxOrEqual(s, v) == v >= s.maxValue

IsNewMax(s, v) == v > s.maxValue

\* The object after includeValue(v).
Included(s, v) ==
  [s EXCEPT !.valueCount = @ + 1,
            !.meanValue  = NewMean(s, v),
            !.valueStDev = @ + Square(s, v),
            !.newMax     = IsNewMax(s, v),
            !.newMin     = v < s.minValue,
            !.maxValue   = Greater(v, @),
            !.minValue   = Smaller(v, @)]

\* The object after storeValue(v).
ValueStored(s, v) == Included([s EXCEPT !.storedValue = v], v)

-----------------------------------------------------------------------------
IncludeValue(v) ==
  /\ Len(window) < MaxCount
  /\ stats' = Included(stats, v)
  /\ window' = Append(window, v)

StoreValue(v) ==
  /\ Len(window) < MaxCount
  /\ stats' = ValueStored(stats, v)
  /\ window' = Append(window, v)

Reset ==
  /\ stats' = ResetOf(stats)
  /\ window' = <<>>

-----------------------------------------------------------------------------
Total   == SumFunction(window)
Squares == SumFunction([i \in DOMAIN window |-> window[i] * window[i]])

\* getMean() is the mean of the values since the last reset, although reset()
\* leaves the mean of the window before in place.
MeanOfWindow ==
  window # <<>> => stats.meanValue * Len(window) = Scale * Total

(***************************************************************************)
(* valueStDev is the sum of the squares of the deviations of the window:   *)
(* the mean of the window before, which the first value meets, leaves no   *)
(* trace in it.  getStdev() returns this sum divided by valueCount, with   *)
(* no root taken: what numerical_statistics.cpp:51 and the header of the   *)
(* CSV file (csv_interface.cpp:37) call a standard deviation is a variance.*)
(***************************************************************************)
SquaresOfWindow ==
  stats.valueStDev * Len(window) =
    Scale * Scale * (Len(window) * Squares - Total * Total)

(***************************************************************************)
(* getMax() and getMin() are the extremes of the window, and isNewMax()    *)
(* tells whether the last value was above all those before it: what makes  *)
(* recordWeatherData keep the wind direction of the strongest gust.        *)
(***************************************************************************)
ExtremesOfWindow ==
  window # <<>> =>
    /\ stats.maxValue = Max(Range(window))
    /\ stats.minValue = Min(Range(window))
    /\ LET before == {window[i] : i \in 1..Len(window) - 1}
           v      == window[Len(window)]
       IN /\ stats.newMax <=> \A b \in before : v > b
          /\ stats.newMin <=> \A b \in before : v < b
=============================================================================
