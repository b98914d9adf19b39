--------------------------- MODULE BathroomLight ---------------------------
(***************************************************************************)
(* The light of a bathroom, or of a room elsewhere. Elsewhere it is        *)
(* AutomatedInputLogic. The bathrooms have copies of that logic, in which  *)
(* an input or a button triggers autoLight, which lights some scene, and   *)
(* nothing ever starts timerOutput when the light is turned on; there is   *)
(* no schedule either. The light is a group there, that a change from one  *)
(* scene to another may leave dark for a moment.                           *)
(*                                                                         *)
(* Their motion is motionHMMDGuarded: reports of a radar, which also sees  *)
(* through the wall, count as motion as long as a timer runs that the      *)
(* passive infrared sensors start, or after so many reports.               *)
(***************************************************************************)
EXTENDS AutomatedInputLogic

CONSTANTS
  Motion,        \* the input that is guarded
  Initial,       \* triggerAfterCumulativeHMMDTriggersInitial
  MostReports    \* bound: reports are counted up to this

ASSUME GuardAssumption ==
  /\ Motion \in Inputs
  /\ Initial \in Nat \ {0}
  /\ MostReports \in Nat /\ Initial <= MostReports

VARIABLES
  place,         \* "bathroom" or "elsewhere"; never changes
  guard,         \* timer of motionHMMDGuarded, with isEnabled and isActive
  threshold,     \* triggerAfterCumulativeHMMDTriggers
  count,         \* cumulativeHMMDTriggers
  reports        \* history: reports since the timer ran out or motion was last seen

guardVars == <<guard, threshold, count, reports>>
roomVars == <<vars, place, guardVars>>

More(n) == IF n < MostReports THEN n + 1 ELSE n

-----------------------------------------------------------------------------
(* The copy of the logic.                                                  *)

\* A scene, a group or the web turns on the light; none of that starts timerOutput.
LightOn ==
  /\ on' = TRUE
  /\ SetManual(TRUE)
  /\ touched' = (touched \/ ~on)
  /\ dismissed' = FALSE
  /\ UNCHANGED <<input, prime, enables, output, upstart>>

\* A button turns off the light or triggers autoLight.
Button == IF on THEN SetOff ELSE LightOn

\* One scene replaces another, with all lights off in between: the observer disables
\* the automation and stops the timer, and enables the automation again.
DarkMoment ==
  /\ on
  /\ manual' = TRUE
  /\ automation' = Stopped(automation)
  /\ output' = Stopped(output)
  /\ touched' = TRUE
  /\ UNCHANGED <<on, input, prime, enables, upstart, dismissed>>

\* The observer of an input; autoLight turns on some light.
Reports(i, b) == IF b THEN InputOn(i) ELSE InputOff(i)

Enabling == \E b \in BOOLEAN : SetEnableManual(b) \/ SetEnablePermanent(b)

-----------------------------------------------------------------------------
(* The guarded motion.                                                     *)

\* Does a radar report of a target count as motion, when it is the n-th?
Passes(n) == guard.isActive \/ (threshold # 0 /\ n >= threshold)

Counted == IF threshold # 0 THEN More(count) ELSE count

\* The radar reports, a target or none. Motion sets the input, which the logic observes.
RadarReports(b) ==
  /\ IF b /\ ~Passes(Counted)
       THEN UNCHANGED <<vars, guard>> /\ count' = Counted /\ reports' = More(reports)
       ELSE /\ Reports(Motion, b)
            /\ IF b THEN guard' \in Started(guard) /\ count' = 0 /\ reports' = 0
                    ELSE UNCHANGED guard /\ count' = Counted /\ reports' = More(reports)
  /\ UNCHANGED threshold

\* A passive infrared sensor reports, whatever it does.
GuardReports ==
  /\ guard' \in Started(guard)
  /\ UNCHANGED <<vars, threshold, count, reports>>

\* Variant: the count is left as it is.
BugGuardRunout ==
  /\ guard.isActive
  /\ guard' = Stopped(guard)
  /\ reports' = 0
  /\ UNCHANGED <<vars, threshold, count>>

\* The timer runs out; motion stays until the radar reports again.
GuardRunout ==
  /\ guard.isActive
  /\ guard' = Stopped(guard)
  /\ count' = 0
  /\ reports' = 0
  /\ UNCHANGED <<vars, threshold>>

\* The web sets or resets the threshold, and touches the timer.
SetThreshold(n) ==
  /\ threshold' = n
  /\ UNCHANGED <<vars, guard, count, reports>>

TouchGuard ==
  /\ guard' \in Flipped(guard) \cup {Stopped(guard)} \cup Started(guard)
  /\ UNCHANGED <<vars, threshold, count, reports>>

-----------------------------------------------------------------------------
RoomInit ==
  /\ Init
  /\ place \in {"bathroom", "elsewhere"}
  /\ guard = [isEnabled |-> TRUE, isActive |-> FALSE]
  /\ threshold = Initial
  /\ count = 0
  /\ reports = 0

Logic ==
  \/ LightOn \/ SetOff \/ Button \/ DarkMoment
  \/ \E i \in Inputs \ {Motion}, b \in BOOLEAN : Reports(i, b)
  \/ EndUpstart \/ TimerRunout \/ Enabling
  \/ TouchOutputTimer \/ TouchAutomationTimer

Guarding ==
  \/ \E b \in BOOLEAN : RadarReports(b)
  \/ GuardReports \/ GuardRunout \/ TouchGuard
  \/ \E n \in {0, Initial} : SetThreshold(n)

RoomNext ==
  /\ \/ place = "elsewhere" /\ Next /\ UNCHANGED guardVars
     \/ place = "bathroom" /\ Logic /\ UNCHANGED guardVars
     \/ place = "bathroom" /\ Guarding
  /\ UNCHANGED place

\* A timer that runs and is not stopped or restarted for good runs out.
RoomSpec ==
  /\ RoomInit
  /\ [][RoomNext]_roomVars
  /\ WF_vars(OutputRunout /\ UNCHANGED <<place, guardVars>>)
  /\ WF_vars(AutomationRunout /\ UNCHANGED <<place, guardVars>>)

-----------------------------------------------------------------------------
(* Properties, besides those of AutomatedInputLogic.                       *)

\* The radar alone is slow: motion begins while the timer runs, or after as many
\* reports as are asked for since it last ran out or motion was last seen
\* (sensors.ts 681-711).
RadarAloneIsSlow ==
  [][~input[Motion] /\ input'[Motion] /\ place = "bathroom" =>
       guard.isActive \/ (threshold # 0 /\ reports + 1 >= threshold)]_roomVars

=============================================================================
