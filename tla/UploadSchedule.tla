--------------------------- MODULE UploadSchedule ---------------------------
(***************************************************************************)
(* When weatherUploadThread and statusUploadThread make their reports:     *)
(* delayUntil() turns the next time of the schedule into a delay, by the   *)
(* clock of the system (CLOCK_REALTIME), and nanosleep() sleeps for that   *)
(* long, whatever is done to the clock meanwhile.  The clock may be set    *)
(* forward and back; the schedule only ever advances by one interval.      *)
(*                                                                         *)
(* Times are relative: only the difference of the clock and the schedule   *)
(* is kept.  When a report is made, this difference is the intervalTime it *)
(* states: the time since the last report was due, and not, as the comment *)
(* at weather_thread.cpp:158 has it, since the last report.                *)
(***************************************************************************)
EXTENDS Integers

CONSTANTS
  Interval,   \* uploadInterval
  Steps,      \* by how much the clock may be set forward or back
  MaxLag,     \* bound on how far the schedule may be behind the clock
  MaxBack     \* bound on how far the clock is set back altogether

ASSUME ConstantsAssumption ==
  /\ Interval \in Nat \ {0}
  /\ Steps \subseteq Int
  /\ MaxLag \in Nat /\ MaxBack \in Nat

VARIABLES
  serverRunning,
  pc,        \* "check", "sleep" or "done"
  lag,       \* millis() - weatherTime: the clock after the last scheduled time
  left,      \* what nanosleep() has still to sleep
  back       \* history: by how much the clock was set back altogether

vars == <<serverRunning, pc, lag, left, back>>

TypeOK ==
  /\ serverRunning \in {0, 1}
  /\ pc \in {"check", "sleep", "done"}
  /\ lag \in Int /\ left \in Nat /\ back \in Nat

Init ==
  /\ serverRunning = 1 /\ pc = "check"
  /\ lag = 0 /\ left = 0 /\ back = 0

\* receiveThread obeys a reset message.
ResetServer ==
  /\ serverRunning = 1 /\ serverRunning' = 0
  /\ UNCHANGED <<pc, lag, left, back>>

\* A millisecond goes by; a thread that sleeps no more is not late for ever.
Tick ==
  /\ lag < MaxLag \/ left > 0
  /\ lag' = lag + 1
  /\ left' = IF left > 0 THEN left - 1 ELSE 0
  /\ UNCHANGED <<serverRunning, pc, back>>

\* The clock is set.
SetClock(d) ==
  /\ lag + d <= MaxLag /\ back - d <= MaxBack
  /\ lag' = lag + d
  /\ back' = IF d < 0 THEN back - d ELSE back
  /\ UNCHANGED <<serverRunning, pc, left>>

\* Mutant of Delay: the wait ends one millisecond early.
DelayShort == IF Interval - lag > 1 THEN Interval - lag - 1 ELSE 0

\* delayUntil(weatherTime + uploadInterval); nanosleep() refuses a negative time.
Delay == IF Interval - lag > 0 THEN Interval - lag ELSE 0

\* Mutant of DelayUntil: a thread that is late leaves its loop.
DelayUntilOrGiveUp ==
  /\ pc = "check"
  /\ pc' = IF serverRunning # 0 /\ lag <= Interval THEN "sleep" ELSE "done"
  /\ left' = Delay
  /\ UNCHANGED <<serverRunning, lag, back>>

DelayUntil ==
  /\ pc = "check"
  /\ pc' = IF serverRunning # 0 THEN "sleep" ELSE "done"
  /\ left' = IF serverRunning # 0 THEN Delay ELSE 0
  /\ UNCHANGED <<serverRunning, lag, back>>

\* nanosleep() has returned: the report is made and the schedule advances.
Report ==
  /\ pc = "sleep" /\ left = 0
  /\ lag' = lag - Interval
  /\ pc' = "check"
  /\ UNCHANGED <<serverRunning, left, back>>

Upload == DelayUntil \/ Report

Next == ResetServer \/ Tick \/ (\E d \in Steps : SetClock(d)) \/ Upload

SafeSpec == Init /\ [][Next]_vars

\* Time goes on, and a thread that can run does.
Spec == SafeSpec /\ WF_vars(Tick) /\ WF_vars(Upload)

-----------------------------------------------------------------------------
(***************************************************************************)
(* Reports never outnumber the intervals: the schedule is ahead of the     *)
(* clock by no more than the clock was set back.  Hence without a step     *)
(* there is at most one report per interval, and a step forward by n       *)
(* intervals brings n more.                                                *)
(***************************************************************************)
NeverAhead == lag + back >= 0

(***************************************************************************)
(* However often the clock is set, and however late the thread is, reports *)
(* are made for ever unless the server stops.                              *)
(***************************************************************************)
KeepsReporting == []<><<Report>>_vars \/ <>(serverRunning = 0)
=============================================================================
