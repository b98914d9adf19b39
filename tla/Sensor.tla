------------------------------- MODULE Sensor -------------------------------
(***************************************************************************)
(* A SingleValueSensor, or one property of a MultiValueSensor, with its    *)
(* metricStaleness. Each execution of the schedule issues a request on the *)
(* device, whatever became of the earlier ones; its outcome is the new     *)
(* state, unknown if it failed. The metric is stale until a measurement    *)
(* arrives, when the state is unknown, and when a timer runs out that      *)
(* every outcome restarts: the period of the schedule and ten seconds.     *)
(*                                                                         *)
(* Some sensors need values of others for their request (the temperature   *)
(* for a gas sensor): as long as there is none, they are not measured.     *)
(* What a request may do is what RequestService promises.                  *)
(***************************************************************************)
EXTENDS Schedule, FiniteSets

CONSTANTS
  Readings,      \* what can be measured
  Unknown,       \* null
  Timeout,       \* the timeout of a request in ticks
  Grace,         \* ten seconds in ticks
  Requests       \* bound: requests open at the same time

\* All sensors but one time out after 1 or 2 seconds; sds011 of the test device, which may
\* take 40, is not one of these.
ASSUME SensorAssumption ==
  /\ Unknown \notin Readings
  /\ Timeout \in Nat /\ Grace \in Nat
  /\ Timeout < Grace

VARIABLES
  online,        \* isOnline of the service
  value,         \* _state
  stale,         \* of metricStaleness
  staleness,     \* ticks until the timer of metricStaleness runs out, or None
  open,          \* open[r]: ticks until request r times out, or None if r is not open
  excused        \* history: since a measurement was last shown, something has kept the
                 \* sensor from measuring: the device, the request, its input, another
                 \* task or a holdoff

sensorVars == <<online, value, stale, staleness, open, excused>>

None == -1

\* Variant: only a new value restarts the timer.
BugChangesOnly(v) ==
  /\ value' = v
  /\ stale' = IF v = value THEN stale ELSE v = Unknown
  /\ staleness' = IF v = value THEN staleness ELSE Period + Grace

\* Variant: the timer is only restarted, not started.
BugRestarts(v) ==
  /\ value' = v
  /\ stale' = (v = Unknown)
  /\ staleness' = IF staleness = None THEN None ELSE Period + Grace

\* _state.set(v) and the observer of metricStaleness, which runs on every set.
SetValue(v) ==
  /\ value' = v
  /\ stale' = (v = Unknown)
  /\ staleness' = Period + Grace

\* _success and _unknown.
Success(v) == SetValue(v) /\ excused' = (due = "holdoff")
Failure == SetValue(Unknown) /\ excused' = TRUE

-----------------------------------------------------------------------------
SensorInit ==
  /\ online = FALSE
  /\ value = Unknown
  /\ stale = TRUE
  /\ staleness = None
  /\ open = [r \in Requests |-> None]
  /\ excused = TRUE

\* _get, called by the schedule: the request is issued, or refused at once. A holdoff
\* after the execution postpones the next one.
Get ==
  \/ /\ online
     /\ \E r \in Requests :
          open[r] = None /\ open' = [open EXCEPT ![r] = Timeout]
     /\ excused' = (excused \/ due' = "holdoff")
     /\ UNCHANGED <<online, value, stale, staleness>>
  \/ ~online /\ Failure /\ UNCHANGED <<online, open>>

\* The input of the measurement is missing, or a task before it has thrown.
Skip ==
  /\ excused' = TRUE
  /\ UNCHANGED <<online, value, stale, staleness, open>>

\* A request is answered.
Answered(r) ==
  /\ open[r] # None
  /\ \E v \in Readings : Success(v)
  /\ open' = [open EXCEPT ![r] = None]
  /\ UNCHANGED online

\* A request fails or times out.
Failed(r) ==
  /\ open[r] # None
  /\ Failure
  /\ open' = [open EXCEPT ![r] = None]
  /\ UNCHANGED online

Online ==
  /\ ~online
  /\ online' = TRUE
  /\ UNCHANGED <<value, stale, staleness, open, excused>>

\* The device goes offline: the observer forgets the value, and so do the requests
\* that are aborted.
Offline ==
  /\ online
  /\ online' = FALSE
  /\ Failure
  /\ open' = [r \in Requests |-> None]

StalenessRunout ==
  /\ staleness = 0
  /\ stale' = TRUE
  /\ staleness' = None
  /\ UNCHANGED <<online, value, open, excused>>

\* A tick less, if it counts at all.
Counted(n) == IF n > 0 THEN n - 1 ELSE n

\* Nothing that is due waits for another tick.
SensorTick ==
  /\ staleness # 0 /\ \A r \in Requests : open[r] # 0
  /\ staleness' = Counted(staleness)
  /\ open' = [r \in Requests |-> Counted(open[r])]
  /\ UNCHANGED <<online, value, stale, excused>>

=============================================================================
