------------------------ MODULE AutomatedInputLogic ------------------------
(***************************************************************************)
(* automatedInputLogic (app/util.ts): the light of a room follows inputs   *)
(* such as motion and door, and people. An input that turns on lights the  *)
(* room and stops timerOutput; when it turns off again, timerOutput starts *)
(* and turns the light off as it runs out. Turning the light off by hand   *)
(* disables the automation (automationEnableManual) until timerAutomation  *)
(* runs out; turning it on enables it.                                     *)
(*                                                                         *)
(* Everything is wired by observers that run inside the set() of another   *)
(* state, and that tell who set it by the origin handed along. An action   *)
(* is one outermost set with everything it causes. Of the Timer class,     *)
(* which is external, two things are left open: whether a disabled timer   *)
(* can be started, and whether disabling a timer stops it.                 *)
(***************************************************************************)
EXTENDS Naturals

CONSTANTS
  Inputs,                  \* inputsAutomated
  StartTimerFromManualOn   \* startTimerFromManualOn

ASSUME StartAssumption == StartTimerFromManualOn \in BOOLEAN

\* Who sets the output: what the origin of the set tells the observers.
Hand == "hand"
Input == "input"
Runout == "timerOutput"

VARIABLES
  on,            \* output.main.setState
  input,         \* input[i]: the state of input i (unknown counts as off)
  prime,         \* prime[i]: `prime` in the closure of input i
  manual,        \* automationEnableManualState
  permanent,     \* automationEnablePermanentState
  scheduled,     \* automationEnableScheduledState
  output,        \* timerOutput, with isEnabled and isActive
  automation,    \* timerAutomation, with isEnabled and isActive
  upstart,       \* the first five seconds after $init
  touched,       \* history: since the light was lit, something else than the
                 \* inputs and timers has had a hand in it
  dismissed      \* history: the light was turned off by hand, and since then neither
                 \* turned on by hand nor the automation enabled again

enables == <<permanent, scheduled>>
vars == <<on, input, prime, manual, enables, output, automation, upstart, touched, dismissed>>

\* Variant: true if some are.
BugSomeTrue == manual \/ permanent \/ scheduled

\* automationEnableState: a BooleanStateGroup that is true if all are.
AutomationEnable == manual /\ permanent /\ scheduled

Timer == [isEnabled : BOOLEAN, isActive : BOOLEAN]

\* Timer.start() without a look at isEnabled.
Started(t) ==
  {[t EXCEPT !.isActive = b] : b \in IF t.isEnabled THEN {TRUE} ELSE {TRUE, t.isActive}}

Stopped(t) == [t EXCEPT !.isActive = FALSE]

\* isEnabled.flip()
Flipped(t) ==
  {[isEnabled |-> ~t.isEnabled, isActive |-> b] :
     b \in IF t.isEnabled THEN {FALSE, t.isActive} ELSE {t.isActive}}

-----------------------------------------------------------------------------
\* Variant: the timer is only restarted, not started.
BugStartsIfActive(b) ==
  /\ manual' = b
  /\ IF b THEN automation' = Stopped(automation) ELSE UNCHANGED automation

\* automationEnableManualState.set(b): its observer runs on every set.
SetManual(b) ==
  /\ manual' = b
  /\ IF b THEN automation' = Stopped(automation)
          ELSE automation' \in Started(automation)

\* What the observer of the output does to the enabling when the light goes off.
OffDisables(origin) ==
  IF ~upstart /\ origin # Runout
    THEN SetManual(FALSE)
    ELSE UNCHANGED <<manual, automation>>

\* output.main.setState.set(TRUE): the observer (re)starts timerOutput or leaves it.
TurnOn(origin) ==
  /\ on' = TRUE
  /\ SetManual(TRUE)
  /\ output' = IF StartTimerFromManualOn /\ output.isEnabled /\ origin # Input
                 THEN [output EXCEPT !.isActive = TRUE] ELSE output

\* output.main.setState.set(FALSE)
TurnOff(origin) ==
  /\ on' = FALSE
  /\ OffDisables(origin)
  /\ output' = Stopped(output)

-----------------------------------------------------------------------------
Init ==
  /\ on = FALSE
  /\ input = [i \in Inputs |-> FALSE]
  /\ prime = [i \in Inputs |-> FALSE]
  /\ manual = TRUE /\ permanent = TRUE /\ scheduled = TRUE
  /\ output = [isEnabled |-> TRUE, isActive |-> FALSE]
  /\ automation = [isEnabled |-> TRUE, isActive |-> FALSE]
  /\ upstart = TRUE
  /\ touched = FALSE
  /\ dismissed = FALSE

EndUpstart ==
  /\ upstart
  /\ upstart' = FALSE
  /\ UNCHANGED <<on, input, prime, manual, enables, output, automation, touched, dismissed>>

\* Someone sets the output: the web, a scene, a group, the restored state. It may
\* be what it is already, and the observer runs all the same.
SetOn ==
  /\ TurnOn(Hand)
  /\ touched' = IF StartTimerFromManualOn /\ output.isEnabled THEN touched /\ on ELSE TRUE
  /\ dismissed' = FALSE
  /\ UNCHANGED <<input, prime, enables, upstart>>

SetOff ==
  /\ TurnOff(Hand)
  /\ touched' = FALSE
  /\ dismissed' = (dismissed \/ ~upstart)
  /\ UNCHANGED <<input, prime, enables, upstart>>

\* A button: output.flip, which sets the opposite.
ButtonUp == IF on THEN SetOff ELSE SetOn

\* Variant: only an input that lights the room is primed.
BugPrimesLighting(i) ==
  /\ input' = [input EXCEPT ![i] = TRUE]
  /\ IF ~AutomationEnable
       THEN UNCHANGED <<on, prime, manual, output, automation, touched>>
       ELSE /\ prime' = [prime EXCEPT ![i] = prime[i] \/ ~on]
            /\ output' = Stopped(output)
            /\ IF on THEN UNCHANGED <<on, manual, automation, touched>>
                     ELSE /\ on' = TRUE
                          /\ SetManual(TRUE)
                          /\ touched' = FALSE
  /\ UNCHANGED <<enables, upstart, dismissed>>

\* An input turns on, or reports again that it is. Lighting the room runs the
\* observer of the output (TurnOn with the origin Input); then the timer is stopped.
InputOn(i) ==
  /\ input' = [input EXCEPT ![i] = TRUE]
  /\ IF ~AutomationEnable
       THEN UNCHANGED <<on, prime, manual, output, automation, touched>>
       ELSE /\ prime' = [prime EXCEPT ![i] = TRUE]
            /\ output' = Stopped(output)
            /\ IF on THEN UNCHANGED <<on, manual, automation, touched>>
                     ELSE /\ on' = TRUE
                          /\ SetManual(TRUE)
                          /\ touched' = FALSE
  /\ UNCHANGED <<enables, upstart, dismissed>>

\* Variant: the timer is only restarted, not started.
BugNeverStarts(i) ==
  /\ input' = [input EXCEPT ![i] = FALSE]
  /\ IF ~AutomationEnable
       THEN UNCHANGED <<prime, output>>
       ELSE /\ prime' = [prime EXCEPT ![i] = FALSE]
            /\ UNCHANGED output
  /\ UNCHANGED <<on, manual, enables, automation, upstart, touched, dismissed>>

\* An input turns off, or reports again that it is. A primed input starts the
\* timer, any other only restarts it when it runs.
InputOff(i) ==
  /\ input' = [input EXCEPT ![i] = FALSE]
  /\ IF ~AutomationEnable
       THEN UNCHANGED <<prime, output>>
       ELSE /\ prime' = [prime EXCEPT ![i] = FALSE]
            /\ output' = IF prime[i] /\ on /\ output.isEnabled
                           THEN [output EXCEPT !.isActive = TRUE] ELSE output
  /\ UNCHANGED <<on, manual, enables, automation, upstart, touched, dismissed>>

\* timerOutput runs out.
OutputRunout ==
  /\ output.isActive
  /\ IF on THEN TurnOff(Runout)
           ELSE output' = Stopped(output) /\ UNCHANGED <<on, manual, automation>>
  /\ touched' = FALSE
  /\ UNCHANGED <<input, prime, enables, upstart, dismissed>>

\* timerAutomation runs out.
AutomationRunout ==
  /\ automation.isActive
  /\ automation' = Stopped(automation)
  /\ manual' = TRUE
  /\ dismissed' = FALSE
  /\ UNCHANGED <<on, input, prime, enables, output, upstart, touched>>

\* The automation is enabled or disabled: by a person or by what was persisted ...
SetEnableManual(b) ==
  /\ SetManual(b)
  /\ touched' = on
  /\ dismissed' = (dismissed /\ ~b)
  /\ UNCHANGED <<on, input, prime, enables, output, upstart>>

SetEnablePermanent(b) ==
  /\ permanent' = b
  /\ touched' = on
  /\ UNCHANGED <<on, input, prime, manual, scheduled, output, automation, upstart, dismissed>>

\* ... or by the two schedules.
Scheduled(b) ==
  /\ scheduled' = b
  /\ touched' = on
  /\ UNCHANGED <<on, input, prime, manual, permanent, output, automation, upstart, dismissed>>

\* The triggers of the timers: flip, active.cancel, active.reset.
TouchOutputTimer ==
  /\ output' \in Flipped(output) \cup {Stopped(output)} \cup Started(output)
  /\ touched' = on
  /\ UNCHANGED <<on, input, prime, manual, enables, automation, upstart, dismissed>>

TouchAutomationTimer ==
  /\ automation' \in Flipped(automation) \cup {Stopped(automation)} \cup Started(automation)
  /\ UNCHANGED <<on, input, prime, manual, enables, output, upstart, touched, dismissed>>

TimerRunout == OutputRunout \/ AutomationRunout

Next ==
  \/ EndUpstart
  \/ SetOn \/ SetOff \/ ButtonUp
  \/ \E i \in Inputs : InputOn(i) \/ InputOff(i)
  \/ TimerRunout
  \/ \E b \in BOOLEAN : SetEnableManual(b) \/ SetEnablePermanent(b) \/ Scheduled(b)
  \/ TouchOutputTimer \/ TouchAutomationTimer

Spec == Init /\ [][Next]_vars

\* A timer that runs and is not stopped or restarted for good runs out.
FairSpec == Spec /\ WF_vars(OutputRunout) /\ WF_vars(AutomationRunout)

-----------------------------------------------------------------------------
(* Properties.                                                             *)

\* The variables keep their types (util.ts 216-254, 326).
TypeOK ==
  /\ \A flag \in {on, manual, permanent, scheduled, upstart, touched, dismissed} : flag \in BOOLEAN
  /\ input \in [Inputs -> BOOLEAN]
  /\ prime \in [Inputs -> BOOLEAN]
  /\ output \in Timer
  /\ automation \in Timer

\* A light that is on and that nobody has interfered with will be turned off: its
\* timer runs, or some input that is on is primed to start it, in whatever order
\* several inputs turn on and off (util.ts 283-299, 346-394).
NotForgotten ==
  on /\ ~touched /\ output.isEnabled =>
    output.isActive \/ \E i \in Inputs : prime[i] /\ input[i]

\* Once somebody has turned the light off it stays off, whatever the inputs
\* report, until it is turned on by hand or the automation enabled again
\* (util.ts 306-313, 336-344).
DismissedStaysDark == dismissed => ~on

\* A light that goes off by itself leaves the automation as it is: the next input
\* turns it on again (util.ts 306, 442-448).
RunoutKeepsAutomation ==
  [][OutputRunout => UNCHANGED <<manual, automation>>]_vars

\* The automation is disabled for a while only: however it got disabled, the timer
\* that enables it again runs, unless somebody has touched that timer
\* (util.ts 415-440, 470-482).
WillBeEnabled == ~manual /\ automation.isEnabled => automation.isActive

DisabledForAWhile == [][WillBeEnabled /\ ~WillBeEnabled' => TouchAutomationTimer]_vars

\* When only timers are left to act, an untouched light without an input that is
\* on ends up off.
EmptyRoomGoesDark ==
  <>[][TimerRunout]_vars =>
    <>[](\/ ~on \/ touched \/ ~output.isEnabled
         \/ \E i \in Inputs : prime[i] /\ input[i])

=============================================================================
