---------------------------- MODULE ReportProofs ----------------------------
(***************************************************************************)
(* What an upload thread computes, for all values of the constants.        *)
(*                                                                         *)
(* When it reports (UploadSchedule), for any interval, any steps of the    *)
(* clock and any number of them: the type invariant, and that reports      *)
(* never get ahead of the clock.                                           *)
(*                                                                         *)
(* What it reports (NumericalStatistics, WindDirection), for any values,   *)
(* windows of any length and any mean left by the window before: mean, sum *)
(* of squares and extremes are those of the window, and a steady wind is   *)
(* reported as it is.                                                      *)
(***************************************************************************)
EXTENDS UploadSchedule, WindDirection, SumLemmas

\* What is left of a sleep brings the clock to the next time of the schedule, but
\* for what the clock was set back.
Sleeping == pc = "sleep" => lag + left + back >= Interval

IInv == TypeOK /\ NeverAhead /\ Sleeping

\* The loop begins in IInv.
LEMMA InitIInv == Init => IInv
BY ConstantsAssumption DEF Init, IInv, TypeOK, NeverAhead, Sleeping

\* Time goes on: a millisecond that is slept is a millisecond that has passed.
LEMMA TickKeeps == IInv /\ Tick => IInv'
BY ConstantsAssumption DEF IInv, TypeOK, NeverAhead, Sleeping, Tick

\* What the clock is set back counts in back.
LEMMA SetClockKeeps ==
  ASSUME IInv, NEW d \in Steps, SetClock(d)
  PROVE  IInv'
<1>1. d \in Int
  BY ConstantsAssumption
<1>2. CASE d < 0
  BY <1>1, <1>2, ConstantsAssumption DEF IInv, TypeOK, NeverAhead, Sleeping, SetClock
<1>3. CASE ~(d < 0)
  BY <1>1, <1>3, ConstantsAssumption DEF IInv, TypeOK, NeverAhead, Sleeping, SetClock
<1> QED BY <1>2, <1>3

\* delayUntil() sleeps until the next time of the schedule, or not at all.
LEMMA DelayUntilKeeps == IInv /\ DelayUntil => IInv'
<1> SUFFICES ASSUME IInv, DelayUntil PROVE IInv'
  OBVIOUS
<1>1. Delay \in Nat /\ lag + Delay >= Interval
  BY ConstantsAssumption DEF IInv, TypeOK, Delay
<1>2. CASE serverRunning # 0
  BY <1>1, <1>2, ConstantsAssumption DEF IInv, TypeOK, NeverAhead, Sleeping, DelayUntil
<1>3. CASE serverRunning = 0
  BY <1>1, <1>3, ConstantsAssumption DEF IInv, TypeOK, NeverAhead, Sleeping, DelayUntil
<1> QED BY <1>2, <1>3

\* The schedule advances when the clock has reached it, but for what the clock
\* was set back.
LEMMA ReportKeeps == IInv /\ Report => IInv'
BY ConstantsAssumption DEF IInv, TypeOK, NeverAhead, Sleeping, Report

\* Every step of the loop and the clock keeps IInv.
LEMMA NextKeeps == IInv /\ [Next]_vars => IInv'
<1> SUFFICES ASSUME IInv, [Next]_vars PROVE IInv'
  OBVIOUS
<1>1. CASE ResetServer
  BY <1>1 DEF IInv, TypeOK, NeverAhead, Sleeping, ResetServer
<1>2. CASE Tick
  BY <1>2, TickKeeps
<1>3. CASE \E d \in Steps : SetClock(d)
  BY <1>3, SetClockKeeps
<1>4. CASE DelayUntil
  BY <1>4, DelayUntilKeeps
<1>5. CASE Report
  BY <1>5, ReportKeeps
<1>6. CASE UNCHANGED vars
  BY <1>6 DEF IInv, TypeOK, NeverAhead, Sleeping, vars
<1> QED BY <1>1, <1>2, <1>3, <1>4, <1>5, <1>6 DEF Next, Upload

\* IInv holds throughout.
LEMMA AlwaysIInv == SafeSpec => []IInv
BY InitIInv, NextKeeps, PTL DEF SafeSpec

\* Every state is well formed, whatever is done to the clock.
THEOREM TypeCorrect == SafeSpec => []TypeOK
<1>1. IInv => TypeOK
  BY DEF IInv
<1> QED BY <1>1, AlwaysIInv, PTL

\* The schedule is never ahead of the clock by more than it was set back: there
\* are never more reports than intervals, whatever the interval and the steps.
THEOREM ReportsNeverAhead == SafeSpec => []NeverAhead
<1>1. IInv => NeverAhead
  BY DEF IInv
<1> QED BY <1>1, AlwaysIInv, PTL

-----------------------------------------------------------------------------
(* Divisions that leave nothing *)

\* A multiple of k is divided by k exactly.
LEMMA ExactDivision ==
  ASSUME NEW a \in Int, NEW k \in Nat \ {0}
  PROVE  (a * k) \div k = a
<1> DEFINE x == a * k
           q == x \div k
           r == x % k
<1>1. x \in Int /\ q \in Int /\ r \in 0..k - 1 /\ x = k * q + r
  OBVIOUS
<1> HIDE DEF q, r
<1>2. r = k * (a - q)
  BY <1>1
<1>3. CASE a > q
  <2>1. k * (a - q) >= k BY <1>3, <1>1
  <2> QED BY <2>1, <1>2, <1>1
<1>4. CASE a < q
  <2>1. k * (a - q) < 0 BY <1>4, <1>1
  <2> QED BY <2>1, <1>2, <1>1
<1> QED BY <1>1, <1>3, <1>4 DEF q

\* What leaves no rest is a multiple.
LEMMA Divides ==
  ASSUME NEW c \in Nat, NEW k \in Nat \ {0}, c % k = 0
  PROVE  c = (c \div k) * k /\ c \div k \in Nat
OBVIOUS

\* m is the mean of n values the sum of which is t;
IsMean(n, m, t) == n * m = Scale * t

\* and this is the sum of the squares of their deviations, q that of their squares.
Deviations(n, m, q) == Scale * Scale * q - n * m * m

MeanAfter(n, m, v) == m + (Scale * v - m) \div (n + 1)

SquareAfter(n, m, v) == (Scale * v - MeanAfter(n, m, v)) * (Scale * v - m)

\* The division in includeValue() leaves nothing, and its result is the new mean.
LEMMA MeanFollows ==
  ASSUME NEW n \in Nat, n < MaxCount, NEW m \in Int, NEW t \in Int, NEW v \in Int,
         IsMean(n, m, t)
  PROVE  MeanAfter(n, m, v) \in Int /\ IsMean(n + 1, MeanAfter(n, m, v), t + v)
<1> DEFINE k == n + 1
           e == Scale \div k
           d == e * (v + t) - m
<1>1. k \in Nat \ {0} /\ e \in Nat /\ Scale = e * k /\ Scale \in Nat
  <2>1. k \in Nat \ {0} /\ Scale \in Nat /\ Scale % k = 0
    BY ScaleAssumption
  <2> HIDE DEF k
  <2> QED BY <2>1, Divides
<1>2. d \in Int
  BY <1>1
<1>3. Scale * v - m = d * k
  <2>1. (e * (v + t) - m) * k = (e * k) * v + (e * k) * t - m * k
    <3> HIDE DEF e, k
    <3> QED BY <1>1
  <2>2. d * k = Scale * v + Scale * t - m * k
    BY <2>1, <1>1
  <2>3. m * k = n * m + m
    OBVIOUS
  <2>4. d * k \in Int /\ Scale * v \in Int /\ Scale * t \in Int /\ m * k \in Int
    BY <1>1, <1>2
  <2>5. Scale * t = n * m
    BY DEF IsMean
  <2>6. d * k = Scale * v + Scale * t - (Scale * t + m)
    BY <2>2, <2>3, <2>5
  <2>7. \A x, y \in Int : x + y - (y + m) = x - m
    OBVIOUS
  <2> HIDE DEF d, k, e
  <2> QED BY <2>4, <2>6, <2>7
<1>4. (d * k) \div k = d
  BY <1>1, <1>2, ExactDivision
<1>5. MeanAfter(n, m, v) = m + d
  BY <1>3, <1>4 DEF MeanAfter
<1> HIDE DEF e
<1>6. m + d = e * (v + t)
  BY <1>1
<1>7. k * (e * (v + t)) = (e * k) * (t + v)
  BY <1>1
<1> QED BY <1>1, <1>2, <1>5, <1>6, <1>7 DEF IsMean

\* What includeValue() adds, the product of a deviation from the new mean and one
\* from the old, is by how much the squares of all deviations grow.
LEMMA DeviationsFollow ==
  ASSUME NEW n \in Nat, n < MaxCount, NEW m \in Int, NEW t \in Int, NEW v \in Int,
         NEW q \in Int, IsMean(n, m, t)
  PROVE  /\ SquareAfter(n, m, v) \in Int
         /\ Deviations(n, m, q) + SquareAfter(n, m, v)
              = Deviations(n + 1, MeanAfter(n, m, v), q + v * v)
<1> DEFINE new == MeanAfter(n, m, v)
<1>1. new \in Int /\ (n + 1) * new = Scale * (t + v)
  BY MeanFollows DEF IsMean
<1>2. n * m = Scale * t
  BY DEF IsMean
<1>3. Scale \in Int
  BY ScaleAssumption
<1> HIDE DEF new
<1>4. (Scale * Scale * q - n * m * m) + (Scale * v - new) * (Scale * v - m)
           = Scale * Scale * (q + v * v) - (n + 1) * new * new
  BY <1>1, <1>2, <1>3
<1>5. (Scale * v - new) * (Scale * v - m) \in Int
  BY <1>1, <1>3
<1> QED BY <1>4, <1>5 DEF Deviations, SquareAfter, new

-----------------------------------------------------------------------------
\* The values of s are numbers.
StatsType(s) ==
  s \in [meanValue : Int, valueStDev : Int, valueCount : Nat, maxValue : Int,
         minValue : Int, newMax : BOOLEAN, newMin : BOOLEAN, storedValue : Int]

SquaresOf(w) == [i \in DOMAIN w |-> w[i] * w[i]]

(***************************************************************************)
(* What the members of s say of the values w since the last reset.  The    *)
(* formulas hold of the empty window too, whatever the mean then is.       *)
(***************************************************************************)
Counted(s, w) ==
  /\ w \in Seq(Int) /\ Len(w) <= MaxCount
  /\ s.valueCount = Len(w)

Averaged(s, w) == IsMean(s.valueCount, s.meanValue, SumFunction(w))

Deviating(s, w) ==
  s.valueStDev = Deviations(s.valueCount, s.meanValue, SumFunction(SquaresOf(w)))

Agree(s, w) == StatsType(s) /\ Counted(s, w) /\ Averaged(s, w) /\ Deviating(s, w)

\* The squares of a longer window are those of the window and one more.
LEMMA NoSquares ==
  ASSUME NEW w \in Seq(Int), NEW v \in Int
  PROVE  SquaresOf(w) \in Seq(Int) /\ SquaresOf(Append(w, v)) = Append(SquaresOf(w), v * v)
<1>1. DOMAIN w = 1..Len(w) /\ Len(w) \in Nat /\ \A i \in 1..Len(w) : w[i] \in Int
  OBVIOUS
<1>2. SquaresOf(w) = [i \in 1..Len(w) |-> w[i] * w[i]]
  BY <1>1 DEF SquaresOf
<1>3. \A i \in 1..Len(w) : w[i] * w[i] \in Int
  BY <1>1
<1>4. SquaresOf(w) \in Seq(Int) /\ Len(SquaresOf(w)) = Len(w)
  BY <1>1, <1>2, <1>3
<1>5. SquaresOf(Append(w, v)) = [i \in 1..Len(w) + 1 |-> Append(w, v)[i] * Append(w, v)[i]]
  BY <1>1 DEF SquaresOf
<1>6. v * v \in Int
  OBVIOUS
<1> QED BY <1>1, <1>2, <1>4, <1>5, <1>6

\* One more value: the mean, the deviation and the count follow it.
LEMMA IncludedAgrees ==
  ASSUME NEW s, NEW w, Agree(s, w), NEW v \in Int, Len(w) < MaxCount
  PROVE  Agree(Included(s, v), Append(w, v))
<1> DEFINE n == s.valueCount
           m == s.meanValue
           t == SumFunction(w)
           q == SumFunction(SquaresOf(w))
           new == NewMean(s, v)
           i == Included(s, v)
<1>1. /\ n \in Nat /\ m \in Int /\ s.valueStDev \in Int /\ n = Len(w)
      /\ s.maxValue \in Int /\ s.minValue \in Int
      /\ w \in Seq(Int)
  BY DEF Agree, StatsType, Counted
<1>2. t \in Int /\ q \in Int /\ SumFunction(Append(w, v)) = t + v
  BY <1>1, SumAppend, NoSquares
<1>3. SumFunction(SquaresOf(Append(w, v))) = q + v * v
  <2>1. v * v \in Int  OBVIOUS
  <2> QED BY <1>1, <2>1, SumAppend, NoSquares
<1>4. n < MaxCount
  BY <1>1
<1>5. IsMean(n, m, t)
  BY DEF Agree, Averaged
<1>6. new = MeanAfter(n, m, v) /\ Square(s, v) = SquareAfter(n, m, v)
  BY DEF NewMean, MeanAfter, Square, SquareAfter
<1>7. /\ i.valueCount = n + 1 /\ i.meanValue = new
      /\ i.valueStDev = s.valueStDev + Square(s, v)
  BY DEF Included, Agree, StatsType
<1>8. new \in Int /\ IsMean(n + 1, new, t + v)
  <2> HIDE DEF n, m, t, new
  <2> QED BY <1>1, <1>2, <1>4, <1>5, <1>6, MeanFollows
<1>9. /\ Square(s, v) \in Int
      /\ Deviations(n, m, q) + Square(s, v) = Deviations(n + 1, new, q + v * v)
  <2> HIDE DEF n, m, t, q, new
  <2> QED BY <1>1, <1>2, <1>4, <1>5, <1>6, DeviationsFollow
<1>10. StatsType(i)
  <2>1. Greater(v, s.maxValue) \in Int /\ Smaller(v, s.minValue) \in Int
    BY <1>1 DEF Greater, Smaller
  <2>2. s.valueStDev + Square(s, v) \in Int
    BY <1>1, <1>9
  <2>3. n + 1 \in Nat /\ IsNewMax(s, v) \in BOOLEAN /\ (v < s.minValue) \in BOOLEAN
    BY <1>1 DEF IsNewMax
  <2> DEFINE s1 == [s EXCEPT !.valueCount = s.valueCount + 1, !.meanValue = new]
             s2 == [s1 EXCEPT !.valueStDev = s.valueStDev + Square(s, v)]
             s3 == [s2 EXCEPT !.newMax = IsNewMax(s, v), !.newMin = v < s.minValue]
             s4 == [s3 EXCEPT !.maxValue = Greater(v, s.maxValue),
                              !.minValue = Smaller(v, s.minValue)]
  <2>4. StatsType(s1)
    BY <1>8, <2>3 DEF StatsType, Agree
  <2>5. StatsType(s2)
    <3> HIDE DEF s1
    <3> QED BY <2>2, <2>4 DEF StatsType
  <2>6. StatsType(s3)
    <3> HIDE DEF s2
    <3> QED BY <2>3, <2>5 DEF StatsType
  <2>7. StatsType(s4)
    <3> HIDE DEF s3
    <3> QED BY <2>1, <2>6 DEF StatsType
  <2>8. i = s4
    BY DEF Included, s4, s3, s2, s1
  <2> QED BY <2>7, <2>8
<1>11. Counted(i, Append(w, v))
  BY <1>1, <1>7, ScaleAssumption DEF Counted
<1>12. Averaged(i, Append(w, v))
  BY <1>2, <1>7, <1>8 DEF Averaged
<1>13. Deviating(i, Append(w, v))
  BY <1>3, <1>7, <1>9 DEF Agree, Deviating
<1> QED BY <1>10, <1>11, <1>12, <1>13 DEF Agree

\* The extremes of an empty window lie beyond every direction.
LEMMA Sentinels == Lowest \in Int /\ Highest \in Int /\ Lowest < -360 /\ 360 < Highest
BY SMT DEF Lowest, Highest

\* One more value: the extremes and the two flags follow it.
Extreme(s, w) ==
  /\ w = <<>> => s.maxValue = Lowest /\ s.minValue = Highest
  /\ w # <<>> => \E i, j \in 1..Len(w) : s.maxValue = w[i] /\ s.minValue = w[j]
  /\ \A i \in 1..Len(w) : /\ w[i] <= s.maxValue /\ s.minValue <= w[i]
                          /\ Lowest < w[i] /\ w[i] < Highest

Flagged(s, w) ==
  w # <<>> =>
    /\ s.newMax <=> \A i \in 1..Len(w) - 1 : w[Len(w)] > w[i]
    /\ s.newMin <=> \A i \in 1..Len(w) - 1 : w[Len(w)] < w[i]

\* includeValue keeps the extremes those of the window.
LEMMA IncludedExtremes ==
  ASSUME NEW s, NEW w, Agree(s, w), Extreme(s, w), NEW v \in Int, Lowest < v, v < Highest
  PROVE  Extreme(Included(s, v), Append(w, v)) /\ Flagged(Included(s, v), Append(w, v))
<1> DEFINE n == Len(w)
           a == Append(w, v)
           i == Included(s, v)
<1>1. /\ n \in Nat /\ s.maxValue \in Int /\ s.minValue \in Int
      /\ \A p \in 1..n : w[p] \in Int
  BY DEF Agree, StatsType, Counted
<1>2. Len(a) = n + 1 /\ a[n + 1] = v /\ \A p \in 1..n : a[p] = w[p]
  BY DEF Agree, Counted
<1>3. /\ i.maxValue = IF v > s.maxValue THEN v ELSE s.maxValue
      /\ i.minValue = IF v < s.minValue THEN v ELSE s.minValue
      /\ i.newMax = (v > s.maxValue) /\ i.newMin = (v < s.minValue)
  BY DEF Included, Agree, StatsType, IsNewMax, Greater, Smaller
<1>4. Lowest \in Int /\ Highest \in Int
  BY Sentinels
<1>5. w = <<>> <=> n = 0
  BY DEF Agree, Counted
<1>6. a # <<>>
  <2>1. Len(<<>>) = 0
    OBVIOUS
  <2> HIDE DEF a, n
  <2> QED BY <1>1, <1>2, <2>1
<1> HIDE DEF a, i, n
<1>7. Extreme(i, a)
  <2>1. \A p \in 1..n + 1 : /\ a[p] <= i.maxValue /\ i.minValue <= a[p]
                            /\ Lowest < a[p] /\ a[p] < Highest
    <3>1. \A p \in 1..n : w[p] <= s.maxValue /\ s.minValue <= w[p] /\ Lowest < w[p] /\ w[p] < Highest
      BY DEF Extreme, n
    <3>2. /\ s.maxValue <= i.maxValue /\ i.minValue <= s.minValue
          /\ v <= i.maxValue /\ i.minValue <= v /\ i.maxValue \in Int /\ i.minValue \in Int
      BY <1>1, <1>3
    <3>3. ASSUME NEW p \in 1..n
          PROVE  /\ a[p] <= i.maxValue /\ i.minValue <= a[p] /\ Lowest < a[p] /\ a[p] < Highest
      BY <3>1, <3>2, <1>1, <1>2
    <3>4. \A p \in 1..n + 1 : p \in 1..n \/ p = n + 1
      BY <1>1
    <3> QED BY <3>2, <3>3, <3>4, <1>2
  <2>2. \E p \in 1..n + 1 : i.maxValue = a[p]
    <3>1. CASE v > s.maxValue
      BY <3>1, <1>1, <1>2, <1>3
    <3>2. CASE ~(v > s.maxValue)
      <4>1. n # 0
        BY <3>2, <1>5 DEF Extreme
      <4>2. PICK p \in 1..n : s.maxValue = w[p]
        BY <4>1, <1>5 DEF Extreme, n
      <4> QED BY <3>2, <4>2, <1>1, <1>2, <1>3
    <3> QED BY <3>1, <3>2
  <2>3. \E p \in 1..n + 1 : i.minValue = a[p]
    <3>1. CASE v < s.minValue
      BY <3>1, <1>1, <1>2, <1>3
    <3>2. CASE ~(v < s.minValue)
      <4>1. n # 0
        BY <3>2, <1>5 DEF Extreme
      <4>2. PICK p \in 1..n : s.minValue = w[p]
        BY <4>1, <1>5 DEF Extreme, n
      <4> QED BY <3>2, <4>2, <1>1, <1>2, <1>3
    <3> QED BY <3>1, <3>2
  <2> QED BY <2>1, <2>2, <2>3, <1>2, <1>6 DEF Extreme
<1>8. Flagged(i, a)
  <2>1. v > s.maxValue <=> \A p \in 1..n : v > w[p]
    BY <1>1, <1>4, <1>5 DEF Extreme, n
  <2>2. v < s.minValue <=> \A p \in 1..n : v < w[p]
    BY <1>1, <1>4, <1>5 DEF Extreme, n
  <2>3. Len(a) - 1 = n
    BY <1>1, <1>2
  <2> QED BY <2>1, <2>2, <2>3, <1>2, <1>3 DEF Flagged
<1> QED BY <1>7, <1>8 DEF a, i

StatsInv == Agree(stats, window) /\ Extreme(stats, window) /\ Flagged(stats, window)

\* storeValue() first stores the value, which is included like any other.
LEMMA StoringIsIncluding ==
  ASSUME NEW s, NEW w, Agree(s, w), Extreme(s, w), NEW v \in Int
  PROVE  LET t == [s EXCEPT !.storedValue = v]
         IN  Agree(t, w) /\ Extreme(t, w)
BY DEF Agree, Extreme, StatsType, Counted, Averaged, Deviating

\* After a reset, and of a new object.
LEMMA EmptyAgrees ==
  ASSUME NEW s, StatsType(s), NEW w, w = <<>>, s.valueCount = 0, s.valueStDev = 0,
         s.maxValue = Lowest, s.minValue = Highest
  PROVE  Agree(s, w) /\ Extreme(s, w) /\ Flagged(s, w)
<1>1. w \in Seq(Int) /\ Len(w) = 0 /\ DOMAIN w = {}
  OBVIOUS
<1>2. SumFunction(w) = 0 /\ SumFunction(SquaresOf(w)) = 0
  BY <1>1, SumEmpty DEF SumFunction, SquaresOf
<1>3. MaxCount \in Nat /\ Scale \in Nat /\ s.meanValue \in Int
  BY ScaleAssumption DEF StatsType
<1>4. Counted(s, w)
  BY <1>1, <1>3 DEF Counted
<1>5. Averaged(s, w) /\ Deviating(s, w)
  BY <1>2, <1>3 DEF Averaged, Deviating, IsMean, Deviations
<1>6. Extreme(s, w) /\ Flagged(s, w)
  BY <1>1 DEF Extreme, Flagged
<1> QED BY <1>4, <1>5, <1>6 DEF Agree

\* reset() empties well formed statistics but for the mean.
LEMMA ResetType ==
  ASSUME NEW s, StatsType(s)
  PROVE  /\ StatsType(ResetOf(s))
         /\ ResetOf(s).valueCount = 0 /\ ResetOf(s).valueStDev = 0
         /\ ResetOf(s).maxValue = Lowest /\ ResetOf(s).minValue = Highest
<1> DEFINE s1 == [s EXCEPT !.minValue = Highest]
           s2 == [s1 EXCEPT !.maxValue = Lowest]
           s3 == [s2 EXCEPT !.valueStDev = 0]
           s4 == [s3 EXCEPT !.valueCount = 0]
<1>1. StatsType(s1) /\ s1.minValue = Highest
  BY Sentinels DEF StatsType
<1> HIDE DEF s1
<1>2. StatsType(s2) /\ s2.minValue = Highest /\ s2.maxValue = Lowest
  BY <1>1, Sentinels DEF StatsType
<1> HIDE DEF s2
<1>3. StatsType(s3) /\ s3.minValue = Highest /\ s3.maxValue = Lowest /\ s3.valueStDev = 0
  BY <1>2 DEF StatsType
<1> HIDE DEF s3
<1>4. /\ StatsType(s4) /\ s4.minValue = Highest /\ s4.maxValue = Lowest
      /\ s4.valueStDev = 0 /\ s4.valueCount = 0
  BY <1>3 DEF StatsType
<1> HIDE DEF s4
<1>5. ResetOf(s) = s4
  BY DEF ResetOf, s4, s3, s2, s1
<1> QED BY <1>4, <1>5

\* A new object satisfies StatsInv.
LEMMA InitKeeps == InitStats => StatsInv
<1> SUFFICES ASSUME InitStats PROVE StatsInv
  OBVIOUS
<1>1. /\ StatsType(stats) /\ window = <<>> /\ stats.valueCount = 0 /\ stats.valueStDev = 0
      /\ stats.maxValue = Lowest /\ stats.minValue = Highest
  <2>1. PICK s : StatsType(s) /\ stats = ResetOf(s) /\ window = <<>>
    BY ScaleAssumption DEF InitStats, StatsType
  <2> QED BY <2>1, ResetType
<1> QED BY <1>1, EmptyAgrees DEF StatsInv

\* reset() keeps StatsInv.
LEMMA ResetKeeps == StatsInv /\ Reset => StatsInv'
<1> SUFFICES ASSUME StatsInv, Reset PROVE StatsInv'
  OBVIOUS
<1>1. /\ StatsType(stats)' /\ window' = <<>> /\ stats'.valueCount = 0 /\ stats'.valueStDev = 0
      /\ stats'.maxValue = Lowest /\ stats'.minValue = Highest
  <2>1. StatsType(stats) /\ stats' = ResetOf(stats) /\ window' = <<>>
    BY DEF StatsInv, Agree, Reset
  <2>2. StatsType(stats)' <=> StatsType(stats')
    BY DEF StatsType
  <2> QED BY <2>1, <2>2, ResetType
<1> QED BY <1>1, EmptyAgrees DEF StatsInv

\* Including a value keeps StatsInv.
LEMMA IncludeKeeps ==
  ASSUME StatsInv, NEW v \in Int, Lowest < v, v < Highest, IncludeValue(v) \/ StoreValue(v)
  PROVE  StatsInv'
<1>1. PICK s : /\ Agree(s, window) /\ Extreme(s, window)
               /\ stats' = Included(s, v) /\ window' = Append(window, v)
               /\ Len(window) < MaxCount
  BY StoringIsIncluding DEF StatsInv, IncludeValue, StoreValue, ValueStored
<1>2. Agree(Included(s, v), Append(window, v))
  BY <1>1, IncludedAgrees
<1>3. Extreme(Included(s, v), Append(window, v)) /\ Flagged(Included(s, v), Append(window, v))
  BY <1>1, IncludedExtremes
<1> QED BY <1>1, <1>2, <1>3 DEF StatsInv

-----------------------------------------------------------------------------
\* Directions are those of the messages that the window holds, corrected.
Directed ==
  /\ field \in {"WindDirection", "Other"} /\ degrees \in Seq(Directions)
  /\ Len(degrees) = IF field = "Other" THEN 0 ELSE Len(window)

\* A mean of equal directions is that direction or one full turn below it: the
\* first value decides, by the mean of the window before.
Steady ==
  \A d \in Directions :
    degrees # <<>> /\ (\A i \in 1..Len(degrees) : degrees[i] = d) =>
      stats.meanValue = Scale * d \/ stats.meanValue = Scale * d - FullTurn

FieldInv == StatsInv /\ Directed /\ Steady

\* What corrected directions can be.
LEMMA CorrectedDirection ==
  ASSUME NEW d \in Directions, NEW m \in Int
  PROVE  /\ Corrected(d, m) \in {d, d - 360}
         /\ m = Scale * d => Corrected(d, m) = d
         /\ m = Scale * d - FullTurn => Corrected(d, m) = d - 360
<1>1. d \in 0..359 /\ Scale \in Nat \ {0}
  BY DegreesAssumption, ScaleAssumption
<1>2. Corrected(d, m) \in {d, d - 360}
  BY DEF Corrected
<1>3. Scale * d \in Int /\ FullTurn \in Nat \ {0} /\ FullTurn \div 2 < FullTurn /\ FullTurn \div 2 \in Nat
  BY <1>1 DEF FullTurn
<1>4. ASSUME m = Scale * d PROVE Corrected(d, m) = d
  <2>1. Distance(Scale * d, m) = 0
    BY <1>3, <1>4 DEF Distance
  <2> QED BY <1>3, <2>1 DEF Corrected
<1>5. ASSUME m = Scale * d - FullTurn PROVE Corrected(d, m) = d - 360
  <2>1. \A x \in Int, y \in Nat \ {0} : Distance(x, x - y) = y
    BY DEF Distance
  <2>2. Distance(Scale * d, m) = FullTurn
    BY <1>3, <1>5, <2>1
  <2> QED BY <1>3, <2>2 DEF Corrected
<1> QED BY <1>2, <1>4, <1>5

\* A value that is the mean leaves it where it is, and a first value becomes it.
LEMMA MeanStays ==
  ASSUME NEW n \in Nat, NEW m \in Int, NEW v \in Int
  PROVE  /\ m = Scale * v => MeanAfter(n, m, v) = m
         /\ n = 0 => MeanAfter(n, m, v) = Scale * v
<1>1. Scale * v \in Int
  BY ScaleAssumption
<1>2. ASSUME m = Scale * v PROVE MeanAfter(n, m, v) = m
  <2>1. Scale * v - m = 0 * (n + 1)
    BY <1>1, <1>2
  <2>2. (0 * (n + 1)) \div (n + 1) = 0
    BY ExactDivision
  <2> QED BY <2>1, <2>2 DEF MeanAfter
<1>3. ASSUME n = 0 PROVE MeanAfter(n, m, v) = Scale * v
  <2>1. \A x \in Int : m + (x - m) \div (0 + 1) = x
    OBVIOUS
  <2> QED BY <1>1, <1>3, <2>1 DEF MeanAfter
<1> QED BY <1>2, <1>3

\* Adding a direction keeps FieldInv.
LEMMA AddKeeps ==
  ASSUME FieldInv, NEW d \in Directions, AddWindDirection(d)
  PROVE  FieldInv'
<1> DEFINE m == stats.meanValue
           n == stats.valueCount
           c == Corrected(d, m)
<1>1. /\ field = "WindDirection" /\ field' = field /\ StoreValue(c)
      /\ degrees' = Append(degrees, d)
  BY DEF AddWindDirection
<1>2. m \in Int /\ n \in Nat /\ n = Len(window) /\ degrees \in Seq(Directions)
  BY DEF FieldInv, StatsInv, Agree, StatsType, Counted, Directed
<1>3. d \in 0..359 /\ c \in {d, d - 360}
  BY <1>2, CorrectedDirection, DegreesAssumption
<1>4. c \in Int /\ Lowest < c /\ c < Highest
  BY <1>3, Sentinels
<1>5. StatsInv'
  <2> HIDE DEF c
  <2> QED BY <1>1, <1>4, IncludeKeeps DEF FieldInv
<1>6. Directed'
  BY <1>1, <1>2 DEF FieldInv, StatsInv, Agree, Counted, Directed, StoreValue
<1>7. stats'.meanValue = MeanAfter(n, m, c)
  <2> HIDE DEF c
  <2> QED BY <1>1 DEF StoreValue, ValueStored, Included, NewMean, MeanAfter, FieldInv,
                      StatsInv, Agree, StatsType
<1>8. Scale \in Nat /\ Scale * (d - 360) = Scale * d - FullTurn
  BY <1>3, ScaleAssumption DEF FullTurn
<1>9. Steady'
  <2> SUFFICES ASSUME NEW e \in Directions, \A i \in 1..Len(degrees') : degrees'[i] = e
               PROVE  stats'.meanValue \in {Scale * e, Scale * e - FullTurn}
    BY DEF Steady, FullTurn
  <2>1. Len(degrees') = Len(degrees) + 1 /\ degrees'[Len(degrees) + 1] = d /\ Len(degrees) \in Nat
        /\ \A i \in 1..Len(degrees) : degrees'[i] = degrees[i]
    BY <1>1, <1>2
  <2>2. d = e /\ \A i \in 1..Len(degrees) : degrees[i] = e
    BY <2>1
  <2>3. CASE degrees = <<>>
    <3>1. n = 0
      BY <2>3, <1>1, <1>2 DEF FieldInv, Directed
    <3>2. stats'.meanValue = Scale * c
      <4> HIDE DEF c, m, n
      <4>1. n \in Nat /\ m \in Int /\ c \in Int
        BY <1>2, <1>4
      <4>2. MeanAfter(n, m, c) = Scale * c
        BY <3>1, <4>1, MeanStays
      <4> QED BY <4>2, <1>7
    <3> HIDE DEF c
    <3> QED BY <3>2, <1>3, <1>8, <2>2
  <2>4. CASE degrees # <<>>
    <3>1. m = Scale * d \/ m = Scale * d - FullTurn
      BY <2>2, <2>4 DEF FieldInv, Steady
    <3>2. m = Scale * c
      BY <3>1, <1>2, <1>8, CorrectedDirection
    <3>3. stats'.meanValue = m
      <4> HIDE DEF c, m, n
      <4> QED BY <3>2, <1>2, <1>4, <1>7, MeanStays
    <3> QED BY <3>1, <3>3, <2>2
  <2> QED BY <2>3, <2>4
<1> QED BY <1>5, <1>6, <1>9 DEF FieldInv

\* Every step on a field keeps FieldInv.
LEMMA FieldNextKeeps == FieldInv /\ [NextField]_allVars => FieldInv'
<1> SUFFICES ASSUME FieldInv, [NextField]_allVars PROVE FieldInv'
  OBVIOUS
<1>1. CASE \E d \in Directions : AddWindDirection(d)
  BY <1>1, AddKeeps
<1>2. CASE AddOther
  <2>1. PICK v \in Values : IncludeValue(v) \/ StoreValue(v)
    BY <1>2 DEF AddOther
  <2>2. v \in Int /\ Lowest < v /\ v < Highest
    BY ScaleAssumption, ExtremesAssumption
  <2>3. StatsInv'
    BY <2>1, <2>2, IncludeKeeps DEF FieldInv
  <2>4. degrees = <<>> /\ degrees' = degrees /\ field' = field /\ field = "Other"
    BY <1>2 DEF AddOther, FieldInv, Directed
  <2> QED BY <2>3, <2>4 DEF FieldInv, Directed, Steady
<1>3. CASE ResetWindow
  <2>1. StatsInv' /\ window' = <<>>
    BY <1>3, ResetKeeps DEF ResetWindow, FieldInv, Reset
  <2> QED BY <1>3, <2>1 DEF ResetWindow, FieldInv, Directed, Steady
<1>4. CASE UNCHANGED allVars
  BY <1>4 DEF allVars, statsVars, FieldInv, StatsInv, Directed, Steady
<1> QED BY <1>1, <1>2, <1>3, <1>4 DEF NextField

\* FieldInv holds throughout.
LEMMA AlwaysFieldInv == FieldSpec => []FieldInv
<1>1. InitField => FieldInv
  BY InitKeeps DEF InitField, FieldInv, Directed, Steady, InitStats
<1> QED BY <1>1, FieldNextKeeps, PTL DEF FieldSpec

\* getMean() is the mean of the values since the last reset, for any values, as many
\* as MaxCount and whatever the mean before the reset.
THEOREM MeanIsOfWindow == FieldSpec => []MeanOfWindow
<1>1. FieldInv => MeanOfWindow
  <2> SUFFICES ASSUME FieldInv PROVE stats.meanValue * Len(window) = Scale * Total
    BY DEF MeanOfWindow
  <2>1. Len(window) * stats.meanValue = Scale * Total /\ Len(window) \in Nat /\ stats.meanValue \in Int
    BY DEF FieldInv, StatsInv, Agree, StatsType, Counted, Averaged, IsMean, Total
  <2> QED BY <2>1
<1> QED BY <1>1, AlwaysFieldInv, PTL

\* Deviations and means, both times the length of the window.
LEMMA SquaresTimes ==
  ASSUME NEW s \in Int, NEW n \in Int, NEW m \in Int, NEW q \in Int
  PROVE  (s * s * q - n * m * m) * n = s * s * (n * q) - (n * m) * (n * m)
<1>1. \A x, y \in Int : (x - y) * n = x * n - y * n
  OBVIOUS
<1>2. s * s * q \in Int /\ n * m * m \in Int
  OBVIOUS
<1>3. (s * s * q) * n = s * s * (n * q)
  OBVIOUS
<1>4. (n * m * m) * n = (n * m) * (n * m)
  OBVIOUS
<1>5. (s * s * q - n * m * m) * n = (s * s * q) * n - (n * m * m) * n
  BY <1>1, <1>2
<1> QED BY <1>3, <1>4, <1>5

\* What getStdev() divides by the count is the sum of the squares of the deviations
\* from the mean of the window, whatever the mean before the reset.
THEOREM SquaresAreOfWindow == FieldSpec => []SquaresOfWindow
<1>1. FieldInv => SquaresOfWindow
  <2> SUFFICES ASSUME FieldInv PROVE SquaresOfWindow
    OBVIOUS
  <2> DEFINE n == Len(window)
             m == stats.meanValue
             t == Total
             q == Squares
  <2>1. /\ n \in Nat /\ m \in Int /\ n = stats.valueCount
        /\ n * m = Scale * t
        /\ stats.valueStDev = Scale * Scale * q - n * m * m
        /\ window \in Seq(Int)
    BY DEF FieldInv, StatsInv, Agree, StatsType, Counted, Averaged, Deviating, IsMean,
           Deviations, Total, Squares, SquaresOf
  <2>2. t \in Int /\ q \in Int
    BY <2>1, SumAppend, NoSquares DEF Total, Squares, SquaresOf
  <2>3. Scale \in Nat
    BY ScaleAssumption
  <2>4. stats.valueStDev * n = Scale * Scale * (n * q - t * t)
    <3> HIDE DEF n, m, q, t
    <3>1. (Scale * Scale * q - n * m * m) * n = Scale * Scale * (n * q) - (n * m) * (n * m)
      <4>1. Scale \in Int /\ n \in Int /\ m \in Int /\ q \in Int
        BY <2>1, <2>2, <2>3
      <4> QED BY <4>1, SquaresTimes
    <3>2. Scale * Scale * (n * q) - (Scale * t) * (Scale * t) = Scale * Scale * (n * q - t * t)
      <4>1. (Scale * t) * (Scale * t) = (Scale * Scale) * (t * t)
        BY <2>2, <2>3
      <4>2. \A x, y, z \in Int : x * y - x * z = x * (y - z)
        OBVIOUS
      <4>3. Scale * Scale \in Int /\ n * q \in Int /\ t * t \in Int
        BY <2>1, <2>2, <2>3
      <4> QED BY <4>1, <4>2, <4>3
    <3> QED BY <2>1, <3>1, <3>2
  <2> QED BY <2>4 DEF SquaresOfWindow
<1> QED BY <1>1, AlwaysFieldInv, PTL

\* A number in the first turn is its own remainder.
LEMMA SmallModulus ==
  ASSUME NEW k \in Nat \ {0}, NEW a \in 0..k - 1
  PROVE  a % k = a /\ (a - k) % k = a
OBVIOUS

\* An element that no other exceeds is the greatest, and likewise the least.
LEMMA MaxIs ==
  ASSUME NEW S \in SUBSET Int, NEW x \in S
  PROVE  /\ (\A y \in S : y <= x) => x = Max(S)
         /\ (\A y \in S : x <= y) => x = Min(S)
<1>1. ASSUME \A y \in S : y <= x PROVE x = Max(S)
  <2>0. \A y \in S : x >= y
    BY <1>1
  <2>1. Max(S) \in S /\ \A y \in S : Max(S) >= y
    BY <2>0 DEF Max
  <2>2. Max(S) \in Int /\ Max(S) >= x /\ Max(S) <= x
    BY <1>1, <2>1
  <2> QED BY <2>2
<1>2. ASSUME \A y \in S : x <= y PROVE x = Min(S)
  <2>1. Min(S) \in S /\ \A y \in S : Min(S) =< y
    BY <1>2 DEF Min
  <2>2. Min(S) \in Int /\ Min(S) >= x /\ Min(S) <= x
    BY <1>2, <2>1
  <2> QED BY <2>2
<1> QED BY <1>1, <1>2

\* getMax() and getMin() are the extremes of the window, and the flags tell whether
\* the last value is a new one.
THEOREM ExtremesAreOfWindow == FieldSpec => []ExtremesOfWindow
<1>1. FieldInv => ExtremesOfWindow
  <2> SUFFICES ASSUME FieldInv, window # <<>> PROVE ExtremesOfWindow
    BY DEF ExtremesOfWindow
  <2>1. /\ window \in Seq(Int) /\ stats.maxValue \in Int /\ stats.minValue \in Int
        /\ stats.newMax \in BOOLEAN /\ stats.newMin \in BOOLEAN
        /\ Extreme(stats, window) /\ Flagged(stats, window)
    BY DEF FieldInv, StatsInv, Agree, StatsType, Counted
  <2>2. /\ Range(window) = {window[i] : i \in 1..Len(window)}
        /\ Range(window) \in SUBSET Int
    BY <2>1 DEF Range
  <2>3. /\ stats.maxValue \in Range(window) /\ \A y \in Range(window) : y <= stats.maxValue
        /\ stats.minValue \in Range(window) /\ \A y \in Range(window) : stats.minValue <= y
    BY <2>1, <2>2 DEF Extreme
  <2>4. stats.maxValue = Max(Range(window)) /\ stats.minValue = Min(Range(window))
    BY <2>2, <2>3, MaxIs
  <2>5. /\ stats.newMax <=> \A b \in {window[i] : i \in 1..Len(window) - 1} : window[Len(window)] > b
        /\ stats.newMin <=> \A b \in {window[i] : i \in 1..Len(window) - 1} : window[Len(window)] < b
    BY <2>1 DEF Flagged
  <2> QED BY <2>4, <2>5 DEF ExtremesOfWindow
<1> QED BY <1>1, AlwaysFieldInv, PTL

\* A steady wind is reported as it is, from any direction and however long.
THEOREM SteadyWindReported == FieldSpec => []SteadyWind
<1>1. FieldInv => SteadyWind
  <2> SUFFICES ASSUME FieldInv, NEW d \in Directions, degrees # <<>>, Range(degrees) = {d}
               PROVE  Reported = Scale * d
    BY DEF SteadyWind
  <2>1. degrees \in Seq(Directions)
    BY DEF FieldInv, Directed
  <2>2. \A i \in 1..Len(degrees) : degrees[i] = d
    BY <2>1 DEF Range
  <2>3. stats.meanValue = Scale * d \/ stats.meanValue = Scale * d - FullTurn
    BY <2>2 DEF FieldInv, Steady
  <2>4. FullTurn \in Nat \ {0} /\ Scale * d \in 0..FullTurn - 1
    <3>1. d \in 0..359 /\ Scale \in Nat \ {0}
      BY DegreesAssumption, ScaleAssumption
    <3>2. Scale * d <= Scale * 359 /\ Scale * d >= 0 /\ Scale * d \in Int
      BY <3>1
    <3> QED BY <3>1, <3>2 DEF FullTurn
  <2>5. \A k \in Nat \ {0} : \A a \in 0..k - 1 : a % k = a /\ (a - k) % k = a
    BY SmallModulus
  <2> QED BY <2>3, <2>4, <2>5 DEF Reported, InTurn
<1> QED BY <1>1, AlwaysFieldInv, PTL
=============================================================================
