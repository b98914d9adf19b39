------------------------------ MODULE Schedule ------------------------------
(***************************************************************************)
(* A Schedule: it asks its provider for the date of the next execution,    *)
(* waits for it with one timeout or, when it is far ahead, several, runs   *)
(* its tasks and asks again. A date that has passed by the time it is      *)
(* looked at is answered with a holdoff of a minute. The providers of the  *)
(* program round up to the next multiple of a period.                      *)
(*                                                                         *)
(* Time passes in ticks; a timeout fires before the tick after it is due.  *)
(* Within the tick of a date three things can happen, as the clock has     *)
(* milliseconds and timeouts may fire early: the provider answers the date *)
(* once more, the next date, or the date while the clock is already beyond *)
(* it. stop() is called by nobody but the schedule itself, and `once` is   *)
(* not used, so both are left out.                                         *)
(***************************************************************************)
EXTENDS Integers

CONSTANTS
  Period,        \* ticks between two dates
  Holdoff,       \* ERROR_HOLDOFF_TIMEOUT in ticks
  MaxTimeout     \* MAX_TIMEOUT in ticks

ASSUME ScheduleAssumption ==
  /\ Period \in Nat \ {0}
  /\ Holdoff \in Nat \ {0}
  /\ MaxTimeout \in Nat \ {0}

VARIABLES
  clock,         \* ticks since the last date
  due,           \* what _timeout is for: an "execution", the "holdoff" or to "carry" over
  wait,          \* ticks until _timeout fires
  date,          \* ticks until nextExecution; no meaning in a holdoff
  again          \* bound: a date is executed twice at most

scheduleVars == <<clock, due, wait, date, again>>

\* What the provider answers, as ticks ahead; "past" if that is over by now.
Ceil == IF clock # 0 THEN {Period - clock} ELSE {Period} \cup IF again THEN {} ELSE {0}

\* _scheduleNextExecution with the date that lies d ticks ahead.
ScheduleAt(d) ==
  /\ date' = d
  /\ IF d > MaxTimeout THEN due' = "carry" /\ wait' = MaxTimeout
                       ELSE due' = "execution" /\ wait' = d

HoldOff ==
  /\ due' = "holdoff"
  /\ wait' = Holdoff
  /\ date' = 0

\* _scheduleNextExecution with the date of the provider. The clock may be beyond it
\* if it is the date just reached.
ScheduleNext ==
  \/ \E d \in Ceil : ScheduleAt(d)
  \/ clock = 0 /\ HoldOff

-----------------------------------------------------------------------------
ScheduleInit ==
  /\ clock \in 0..(Period - 1)
  /\ again = FALSE
  /\ date \in Ceil
  /\ wait = IF date > MaxTimeout THEN MaxTimeout ELSE date
  /\ due = IF date > MaxTimeout THEN "carry" ELSE "execution"

\* The timeout of an execution fires: the tasks run (Polling), and the next execution
\* is scheduled.
Due == due = "execution" /\ wait = 0

Rescheduled ==
  /\ Due
  /\ ScheduleNext
  /\ again' = (due' = "execution" /\ wait' = 0)
  /\ UNCHANGED clock

\* The timeout was no longer than allowed: wait on for the same date.
CarriedOver ==
  /\ due = "carry" /\ wait = 0
  /\ ScheduleAt(date)
  /\ UNCHANGED <<clock, again>>

\* The holdoff is over.
HeldOff ==
  /\ due = "holdoff" /\ wait = 0
  /\ ScheduleNext
  /\ UNCHANGED <<clock, again>>

ScheduleTick ==
  /\ wait > 0
  /\ clock' = (clock + 1) % Period
  /\ wait' = wait - 1
  /\ date' = IF due = "holdoff" THEN 0 ELSE date - 1
  /\ again' = FALSE
  /\ UNCHANGED due

=============================================================================
