----------------------------- MODULE RoomProofs -----------------------------
(***************************************************************************)
(* Proofs about rooms: the light that automatedInputLogic or a bathroom's  *)
(* copy of it controls, the guarded radar and the notification of the      *)
(* storage room, for any inputs, appliances and numbers of reports; the    *)
(* scenes and the cycle of the bedroom, whatever lights and groups the web *)
(* sets; failover and heating of the bathrooms.                            *)
(*                                                                         *)
(* NotForgotten is not inductive: an input that turns off while the        *)
(* automation is disabled keeps its priming, and the light would be on with *)
(* nothing to turn it off. WillGoOff adds what excludes this: a light that  *)
(* still waits for its inputs has its automation enabled.                  *)
(***************************************************************************)
EXTENDS StorageRoom, Bedroom, Bathrooms, SequenceTheorems, TLAPS

WillGoOff ==
  on /\ ~touched /\ output.isEnabled /\ ~output.isActive =>
    AutomationEnable /\ \E i \in Inputs : prime[i] /\ input[i]

Dismissal == dismissed => ~on /\ ~manual

LightInv == TypeOK /\ WillGoOff /\ Dismissal

-----------------------------------------------------------------------------
(* What the operations on a timer return.                                  *)

\* isActive of a timer is all that is ever changed of it.
LEMMA ActiveChanged ==
  ASSUME NEW t \in Timer, NEW b \in BOOLEAN
  PROVE  /\ [t EXCEPT !.isActive = b] \in Timer
         /\ [t EXCEPT !.isActive = b].isEnabled = t.isEnabled
         /\ [t EXCEPT !.isActive = b].isActive = b
BY DEF Timer

\* stop() leaves a timer that does not run.
LEMMA StoppedTimer ==
  ASSUME NEW t \in Timer
  PROVE  /\ Stopped(t) \in Timer
         /\ Stopped(t).isEnabled = t.isEnabled
         /\ ~Stopped(t).isActive
BY ActiveChanged DEF Stopped

\* start() makes an enabled timer run.
LEMMA StartedTimer ==
  ASSUME NEW t \in Timer, NEW u \in Started(t)
  PROVE  /\ u \in Timer
         /\ u.isEnabled = t.isEnabled
         /\ t.isEnabled => u.isActive
<1>1. t.isEnabled \in BOOLEAN /\ t.isActive \in BOOLEAN
  BY DEF Timer
<1>2. PICK b \in {TRUE, t.isActive} :
        u = [t EXCEPT !.isActive = b] /\ (t.isEnabled => b = TRUE)
  BY <1>1 DEF Started
<1>3. b \in BOOLEAN
  BY <1>1
<1>4. QED
  BY <1>2, <1>3, ActiveChanged

\* isEnabled.flip() leaves a timer.
LEMMA FlippedTimer ==
  ASSUME NEW t \in Timer, NEW u \in Flipped(t)
  PROVE  u \in Timer
<1>1. t.isEnabled \in BOOLEAN /\ t.isActive \in BOOLEAN
  BY DEF Timer
<1>2. PICK b \in {FALSE, t.isActive} : u = [isEnabled |-> ~t.isEnabled, isActive |-> b]
  BY <1>1 DEF Flipped
<1>3. b \in BOOLEAN
  BY <1>1
<1>4. QED
  BY <1>1, <1>2, <1>3 DEF Timer

\* Setting automationEnableManual keeps timerAutomation a timer.
LEMMA SetManualTypes ==
  ASSUME automation \in Timer, NEW b \in BOOLEAN, SetManual(b)
  PROVE  manual' = b /\ automation' \in Timer
BY StartedTimer, StoppedTimer DEF SetManual

\* The same of what the observer of the output does when the light goes off.
LEMMA OffDisablesTypes ==
  ASSUME automation \in Timer, manual \in BOOLEAN, NEW origin, OffDisables(origin)
  PROVE  manual' \in BOOLEAN /\ automation' \in Timer
BY SetManualTypes DEF OffDisables

-----------------------------------------------------------------------------
(* Every step keeps the types.                                             *)

\* The triggers of timerOutput leave it a timer (logic.ts 42-61).
LEMMA OutputTouched ==
  ASSUME TypeOK, TouchOutputTimer
  PROVE  output' \in Timer
BY FlippedTimer, StoppedTimer, StartedTimer DEF TypeOK, TouchOutputTimer

\* The triggers of timerAutomation leave it a timer (logic.ts 42-61).
LEMMA AutomationTouched ==
  ASSUME TypeOK, TouchAutomationTimer
  PROVE  automation' \in Timer
BY FlippedTimer, StoppedTimer, StartedTimer DEF TypeOK, TouchAutomationTimer

\* One step per action of AutomatedInputLogic.
LEMMA TypesKept ==
  ASSUME TypeOK, [Next]_vars
  PROVE  TypeOK'
<1>1. CASE EndUpstart
  BY <1>1 DEF TypeOK, EndUpstart, enables
<1>2. CASE SetOn
  BY <1>2, SetManualTypes, ActiveChanged DEF TypeOK, SetOn, TurnOn, enables
<1>3. CASE SetOff
  BY <1>3, OffDisablesTypes, StoppedTimer DEF TypeOK, SetOff, TurnOff, enables
<1>4. CASE ButtonUp
  BY <1>2, <1>3, <1>4 DEF ButtonUp
<1>5. ASSUME NEW i \in Inputs, InputOn(i) PROVE TypeOK'
  BY <1>5, SetManualTypes, StoppedTimer DEF TypeOK, InputOn, enables
<1>6. ASSUME NEW i \in Inputs, InputOff(i) PROVE TypeOK'
  BY <1>6, ActiveChanged DEF TypeOK, InputOff, enables
<1>7. CASE OutputRunout
  BY <1>7, OffDisablesTypes, StoppedTimer DEF TypeOK, OutputRunout, TurnOff, enables
<1>8. CASE AutomationRunout
  BY <1>8, StoppedTimer DEF TypeOK, AutomationRunout, enables
<1>9. ASSUME NEW b \in BOOLEAN, SetEnableManual(b) PROVE TypeOK'
  BY <1>9, SetManualTypes DEF TypeOK, SetEnableManual, enables
<1>10. ASSUME NEW b \in BOOLEAN, SetEnablePermanent(b) \/ Scheduled(b) PROVE TypeOK'
  BY <1>10 DEF TypeOK, SetEnablePermanent, Scheduled
<1>11. CASE TouchOutputTimer
  BY <1>11, OutputTouched DEF TypeOK, TouchOutputTimer, enables
<1>12. CASE TouchAutomationTimer
  BY <1>12, AutomationTouched DEF TypeOK, TouchAutomationTimer, enables
<1>13. CASE UNCHANGED vars
  BY <1>13 DEF TypeOK, vars, enables
<1>14. QED
  BY <1>1, <1>2, <1>3, <1>4, <1>5, <1>6, <1>7, <1>8, <1>9, <1>10, <1>11, <1>12, <1>13
     DEF Next, TimerRunout

-----------------------------------------------------------------------------
(* Every step keeps the light bound to go off.                             *)

\* A step that leaves an untouched light on, or lights it, and its timer idle
\* leaves the automation enabled and an input that is on primed.
LEMMA WillGoOffKept ==
  ASSUME TypeOK, WillGoOff, [Next]_vars
  PROVE  WillGoOff'
<1> USE DEF AutomationEnable
<1>1. CASE EndUpstart
  BY <1>1 DEF WillGoOff, EndUpstart, enables
<1>2. CASE SetOn
  <2>1. manual' = TRUE
    BY <1>2 DEF SetOn, TurnOn, SetManual
  <2>2. output \in Timer /\ StartTimerFromManualOn \in BOOLEAN
    BY StartAssumption DEF TypeOK
  <2>3. CASE StartTimerFromManualOn /\ output.isEnabled
    BY <1>2, <2>2, <2>3, ActiveChanged DEF WillGoOff, SetOn, TurnOn, Hand, Input
  <2>4. CASE ~(StartTimerFromManualOn /\ output.isEnabled)
    BY <1>2, <2>4 DEF WillGoOff, SetOn
  <2>5. QED
    BY <2>3, <2>4
<1>3. CASE SetOff
  BY <1>3 DEF WillGoOff, SetOff, TurnOff
<1>4. CASE ButtonUp
  BY <1>2, <1>3, <1>4 DEF ButtonUp
<1>5. ASSUME NEW i \in Inputs, InputOn(i) PROVE WillGoOff'
  <2>1. CASE AutomationEnable
    <3>1. prime'[i] /\ input'[i]
      BY <1>5, <2>1 DEF InputOn, TypeOK
    <3>2. manual' = TRUE /\ permanent' /\ scheduled'
      BY <1>5, <2>1 DEF InputOn, SetManual, enables
    <3>3. QED
      BY <3>1, <3>2 DEF WillGoOff
  <2>2. CASE ~AutomationEnable
    BY <1>5, <2>2 DEF InputOn, WillGoOff, enables
  <2>3. QED
    BY <2>1, <2>2
<1>6. ASSUME NEW i \in Inputs, InputOff(i) PROVE WillGoOff'
  <2>1. SUFFICES ASSUME on', ~touched', output'.isEnabled, ~output'.isActive
                 PROVE  AutomationEnable' /\ \E j \in Inputs : prime'[j] /\ input'[j]
    BY DEF WillGoOff
  <2>2. on /\ ~touched
    BY <1>6, <2>1 DEF InputOff
  <2>3. output \in Timer
    BY DEF TypeOK
  <2>4. output.isEnabled /\ ~output.isActive
    BY <1>6, <2>1, <2>3, ActiveChanged DEF InputOff
  <2>5. PICK j \in Inputs : prime[j] /\ input[j]
    BY <2>2, <2>4 DEF WillGoOff
  <2>6. AutomationEnable
    BY <2>2, <2>4 DEF WillGoOff
  <2>7. ~prime[i]
    BY <1>6, <2>1, <2>2, <2>3, <2>4, <2>6, ActiveChanged DEF InputOff
  <2>8. i # j /\ prime'[j] /\ input'[j]
    BY <1>6, <2>5, <2>6, <2>7 DEF InputOff, TypeOK
  <2>9. AutomationEnable'
    BY <1>6, <2>6 DEF InputOff, enables
  <2>10. QED
    BY <2>8, <2>9
<1>7. CASE OutputRunout
  BY <1>7 DEF WillGoOff, OutputRunout, TurnOff
<1>8. CASE AutomationRunout
  BY <1>8 DEF WillGoOff, AutomationRunout, enables
<1>9. ASSUME NEW b \in BOOLEAN, SetEnableManual(b) PROVE WillGoOff'
  BY <1>9 DEF WillGoOff, SetEnableManual
<1>10. ASSUME NEW b \in BOOLEAN, SetEnablePermanent(b) \/ Scheduled(b) PROVE WillGoOff'
  <2>1. on' = on /\ touched' = on
    BY <1>10 DEF SetEnablePermanent, Scheduled
  <2>2. QED
    BY <2>1 DEF WillGoOff
<1>11. CASE TouchOutputTimer
  BY <1>11 DEF WillGoOff, TouchOutputTimer
<1>12. CASE TouchAutomationTimer
  BY <1>12 DEF WillGoOff, TouchAutomationTimer, enables
<1>13. CASE UNCHANGED vars
  BY <1>13 DEF WillGoOff, vars, enables
<1>14. QED
  BY <1>1, <1>2, <1>3, <1>4, <1>5, <1>6, <1>7, <1>8, <1>9, <1>10, <1>11, <1>12, <1>13
     DEF Next, TimerRunout

-----------------------------------------------------------------------------
(* Every step keeps a dismissed light off.                                 *)

\* Only a hand or the automation being enabled ends a dismissal (util.ts 306-344).
LEMMA DismissalKept ==
  ASSUME TypeOK, Dismissal, [Next]_vars
  PROVE  Dismissal'
<1>1. CASE EndUpstart
  BY <1>1 DEF Dismissal, EndUpstart
<1>2. CASE SetOn
  BY <1>2 DEF Dismissal, SetOn
<1>3. CASE SetOff
  <2>1. on' = FALSE /\ dismissed' = (dismissed \/ ~upstart)
    BY <1>3 DEF SetOff, TurnOff
  <2>2. CASE upstart
    BY <1>3, <2>1, <2>2 DEF Dismissal, SetOff, TurnOff, OffDisables, TypeOK
  <2>3. CASE ~upstart
    BY <1>3, <2>1, <2>3 DEF Dismissal, SetOff, TurnOff, OffDisables, SetManual, Hand, Runout
  <2>4. QED
    BY <2>2, <2>3
<1>4. CASE ButtonUp
  BY <1>2, <1>3, <1>4 DEF ButtonUp
<1>5. ASSUME NEW i \in Inputs, InputOn(i) PROVE Dismissal'
  BY <1>5 DEF Dismissal, InputOn, AutomationEnable
<1>6. ASSUME NEW i \in Inputs, InputOff(i) PROVE Dismissal'
  BY <1>6 DEF Dismissal, InputOff
<1>7. CASE OutputRunout
  BY <1>7 DEF Dismissal, OutputRunout, TurnOff, OffDisables, SetManual
<1>8. CASE AutomationRunout
  BY <1>8 DEF Dismissal, AutomationRunout
<1>9. ASSUME NEW b \in BOOLEAN, SetEnableManual(b) PROVE Dismissal'
  BY <1>9 DEF Dismissal, SetEnableManual, SetManual
<1>10. ASSUME NEW b \in BOOLEAN, SetEnablePermanent(b) \/ Scheduled(b) PROVE Dismissal'
  BY <1>10 DEF Dismissal, SetEnablePermanent, Scheduled
<1>11. CASE TouchOutputTimer
  BY <1>11 DEF Dismissal, TouchOutputTimer
<1>12. CASE TouchAutomationTimer
  BY <1>12 DEF Dismissal, TouchAutomationTimer
<1>13. CASE UNCHANGED vars
  BY <1>13 DEF Dismissal, vars
<1>14. QED
  BY <1>1, <1>2, <1>3, <1>4, <1>5, <1>6, <1>7, <1>8, <1>9, <1>10, <1>11, <1>12, <1>13
     DEF Next, TimerRunout

-----------------------------------------------------------------------------
(* The light, as AutomatedInputLogic has it.                               *)

\* The initial state.
LEMMA LightInit ==
  ASSUME Init
  PROVE  LightInv
BY DEF Init, LightInv, TypeOK, Timer, WillGoOff, Dismissal

\* The inductive invariant holds in every reachable state.
LEMMA LightInvariant == Spec => []LightInv
<1>1. LightInv /\ [Next]_vars => LightInv'
  BY TypesKept, WillGoOffKept, DismissalKept DEF LightInv
<1>2. QED
  BY LightInit, <1>1, PTL DEF Spec

\* The variables keep their types (app/util.ts 194-495).
THEOREM TypeCorrect == Spec => []TypeOK
<1>1. LightInv => TypeOK
  BY DEF LightInv
<1>2. QED
  BY LightInvariant, <1>1, PTL

\* A light that nobody has interfered with has a timer or a primed input left to
\* turn it off, however many inputs there are (util.ts 283-299, 346-394).
THEOREM LightNotForgotten == Spec => []NotForgotten
<1>1. LightInv => NotForgotten
  BY DEF LightInv, WillGoOff, NotForgotten
<1>2. QED
  BY LightInvariant, <1>1, PTL

\* A light turned off by hand is not turned on by any input (util.ts 306-344).
THEOREM DismissedLight == Spec => []DismissedStaysDark
<1>1. LightInv => DismissedStaysDark
  BY DEF LightInv, Dismissal, DismissedStaysDark
<1>2. QED
  BY LightInvariant, <1>1, PTL

\* timerOutput running out does not touch the automation (util.ts 306, 442-448).
THEOREM RunoutHarmless == Spec => RunoutKeepsAutomation
<1>1. OutputRunout => UNCHANGED <<manual, automation>>
  BY DEF OutputRunout, TurnOff, OffDisables
<1>2. [Next]_vars => [OutputRunout => UNCHANGED <<manual, automation>>]_vars
  BY <1>1
<1>3. QED
  BY <1>2, PTL DEF Spec, RunoutKeepsAutomation

\* enableManual disables the automation and starts its timer, or enables it.
LEMMA SetManualEnables ==
  ASSUME TypeOK, NEW b \in BOOLEAN, SetManual(b)
  PROVE  WillBeEnabled'
<1>1. automation \in Timer
  BY DEF TypeOK
<1>2. QED
  BY <1>1, StartedTimer DEF SetManual, WillBeEnabled

\* Only touching its timer leaves the automation disabled for good (util.ts 415-440,
\* 470-482).
LEMMA EnabledAgain ==
  ASSUME TypeOK, Next, WillBeEnabled, ~TouchAutomationTimer
  PROVE  WillBeEnabled'
<1>1. ASSUME UNCHANGED <<manual, automation>> PROVE WillBeEnabled'
  BY <1>1 DEF WillBeEnabled
<1>2. ASSUME NEW origin, OffDisables(origin) PROVE WillBeEnabled'
  BY <1>1, <1>2, SetManualEnables DEF OffDisables
<1>3. CASE SetOn \/ SetOff \/ ButtonUp
  BY <1>2, <1>3, SetManualEnables DEF SetOn, SetOff, ButtonUp, TurnOn, TurnOff
<1>4. ASSUME NEW i \in Inputs, InputOn(i) \/ InputOff(i) PROVE WillBeEnabled'
  BY <1>1, <1>4, SetManualEnables DEF InputOn, InputOff
<1>5. CASE TimerRunout
  BY <1>1, <1>2, <1>5 DEF TimerRunout, OutputRunout, AutomationRunout, TurnOff, WillBeEnabled
<1>6. ASSUME NEW b \in BOOLEAN, SetEnableManual(b) \/ SetEnablePermanent(b) \/ Scheduled(b)
      PROVE  WillBeEnabled'
  BY <1>1, <1>6, SetManualEnables DEF SetEnableManual, SetEnablePermanent, Scheduled
<1>7. CASE EndUpstart \/ TouchOutputTimer
  BY <1>1, <1>7 DEF EndUpstart, TouchOutputTimer
<1>8. QED
  BY <1>3, <1>4, <1>5, <1>6, <1>7 DEF Next

\* Whatever disables the automation starts the timer that enables it again, and
\* only a touch of that timer stops it before (util.ts 415-440, 470-482).
THEOREM DisablingTemporary == Spec => DisabledForAWhile
<1>1. TypeOK /\ [Next]_vars =>
        [WillBeEnabled /\ ~WillBeEnabled' => TouchAutomationTimer]_vars
  BY EnabledAgain
<1>2. QED
  BY TypeCorrect, <1>1, PTL DEF Spec, DisabledForAWhile

-----------------------------------------------------------------------------
(* The same light in the rooms of StorageSpec.                             *)

\* In a bathroom and under a bridge, what happens to the light is a step of
\* AutomatedInputLogic, a scene that lights it, or its moment in the dark.
LEMMA RoomStep ==
  ASSUME [RoomNext]_roomVars
  PROVE  [Next]_vars \/ LightOn \/ DarkMoment
<1>1. CASE UNCHANGED roomVars
  BY <1>1 DEF roomVars
<1>2. ASSUME NEW i \in Inputs, NEW b \in BOOLEAN, Reports(i, b) PROVE Next
  BY <1>2 DEF Reports, Next
<1>3. CASE Logic
  <2>1. ASSUME NEW i \in Inputs \ {Motion}, NEW b \in BOOLEAN, Reports(i, b) PROVE Next
    BY <1>2, <2>1
  <2>2. CASE Button
    BY <2>2 DEF Button, Next
  <2>3. CASE Enabling
    BY <2>3 DEF Enabling, Next
  <2>4. QED
    BY <1>3, <2>1, <2>2, <2>3 DEF Logic, Next
<1>4. CASE Guarding
  <2>1. ASSUME NEW b \in BOOLEAN, RadarReports(b) PROVE UNCHANGED vars \/ Next
    BY <1>2, <2>1, GuardAssumption DEF RadarReports
  <2>2. QED
    BY <1>4, <2>1 DEF Guarding, GuardReports, GuardRunout, TouchGuard, SetThreshold
<1>5. QED
  BY <1>1, <1>3, <1>4 DEF RoomNext

\* A scene that lights the room, by hand.
LEMMA LightOnKeeps ==
  ASSUME LightInv, LightOn
  PROVE  LightInv'
<1>1. TypeOK'
  BY SetManualTypes DEF LightInv, TypeOK, LightOn, enables
<1>2. WillGoOff'
  BY DEF LightInv, WillGoOff, LightOn, SetManual, AutomationEnable, enables
<1>3. QED
  BY <1>1, <1>2 DEF LightInv, Dismissal, LightOn

\* The moment in the dark between two scenes.
LEMMA DarkMomentKeeps ==
  ASSUME LightInv, DarkMoment
  PROVE  LightInv'
<1>1. TypeOK'
  BY StoppedTimer DEF LightInv, TypeOK, DarkMoment, enables
<1>2. QED
  BY <1>1 DEF LightInv, WillGoOff, Dismissal, DarkMoment

\* A step of the room keeps the invariant of the light.
LEMMA RoomKeepsLight ==
  ASSUME LightInv, [RoomNext]_roomVars
  PROVE  LightInv'
BY RoomStep, LightOnKeeps, DarkMomentKeeps, TypesKept, WillGoOffKept, DismissalKept
   DEF LightInv

\* A step of the storage room is one of its room, or leaves the room alone.
LEMMA StorageStep ==
  ASSUME [StorageNext]_storageVars
  PROVE  [RoomNext]_roomVars
BY DEF StorageNext, storageVars

\* The storage room implements the room its light is in, fairness of the timers
\* included: the bridge and the loudspeaker do not interfere with it
\* (storage-room.ts 218-293, 476-488).
THEOREM StorageImplementsRoom == StorageSpec => RoomSpec
<1>1. StorageInit => RoomInit
  BY DEF StorageInit
<1>2. [StorageNext]_storageVars => [RoomNext]_roomVars
  BY StorageStep
<1>3. QED
  BY <1>1, <1>2, PTL DEF StorageSpec, RoomSpec

\* The invariant of the light holds in every room.
LEMMA RoomLight == StorageSpec => []LightInv
<1>1. RoomInit => LightInv
  BY LightInit DEF RoomInit
<1>2. LightInv /\ [RoomNext]_roomVars => LightInv'
  BY RoomKeepsLight
<1>3. QED
  BY <1>1, <1>2, StorageImplementsRoom, PTL DEF RoomSpec

\* In a bathroom, where scenes light the room and may leave it dark for a moment,
\* and in the storage room the light is not forgotten either (util.ts 283-299,
\* mrpelz-bathroom.ts 245-303).
THEOREM RoomNotForgotten == StorageSpec => []NotForgotten
<1>1. LightInv => NotForgotten
  BY DEF LightInv, WillGoOff, NotForgotten
<1>2. QED
  BY RoomLight, <1>1, PTL

\* Nor does an input, the radar or autoLight light a room that somebody has darkened
\* (util.ts 306-344, mrpelz-bathroom.ts 245-303).
THEOREM RoomDismissed == StorageSpec => []DismissedStaysDark
<1>1. LightInv => DismissedStaysDark
  BY DEF LightInv, Dismissal, DismissedStaysDark
<1>2. QED
  BY RoomLight, <1>1, PTL

\* In each of these rooms the automation is disabled for a while only (util.ts
\* 415-440, mrpelz-bathroom.ts 305-420).
THEOREM RoomDisabling == StorageSpec => DisabledForAWhile
<1>1. ASSUME TypeOK, LightOn PROVE WillBeEnabled'
  BY <1>1, SetManualEnables DEF LightOn
<1>2. ASSUME DarkMoment PROVE WillBeEnabled'
  BY <1>2 DEF DarkMoment, WillBeEnabled
<1>3. LightInv /\ [RoomNext]_roomVars =>
        [WillBeEnabled /\ ~WillBeEnabled' => TouchAutomationTimer]_vars
  BY <1>1, <1>2, RoomStep, EnabledAgain DEF LightInv
<1>4. QED
  BY <1>3, RoomLight, StorageImplementsRoom, PTL DEF DisabledForAWhile, RoomSpec

-----------------------------------------------------------------------------
(* The guarded motion: RadarAloneIsSlow compares the reports there have    *)
(* been with those the code has counted. The code never counts more.       *)

GuardInv ==
  /\ guard \in Timer
  /\ threshold \in {0, Initial}
  /\ count \in 0..MostReports
  /\ reports \in 0..MostReports
  /\ count <= reports

\* Counting keeps the order of two numbers within the bound.
LEMMA MoreKeepsOrder ==
  ASSUME NEW m \in 0..MostReports, NEW n \in 0..MostReports, m <= n
  PROVE  /\ More(m) \in 0..MostReports
         /\ m <= More(m)
         /\ More(m) <= More(n)
         /\ More(m) <= n + 1
BY GuardAssumption DEF More

\* A report of the radar is counted while a threshold is set, and is always a report.
LEMMA CountedReports ==
  ASSUME GuardInv
  PROVE  /\ Counted \in 0..MostReports
         /\ Counted <= More(reports)
         /\ Counted <= reports + 1
<1>1. threshold \in Nat /\ count \in 0..MostReports /\ reports \in 0..MostReports
  BY GuardAssumption DEF GuardInv
<1>2. count <= reports
  BY DEF GuardInv
<1>3. More(reports) \in 0..MostReports /\ reports <= More(reports)
  BY <1>1, MoreKeepsOrder
<1>4. CASE threshold # 0
  BY <1>1, <1>2, <1>4, MoreKeepsOrder DEF Counted
<1>5. CASE threshold = 0
  BY <1>1, <1>2, <1>3, <1>5, GuardAssumption DEF Counted
<1>6. QED
  BY <1>4, <1>5

\* Every step of the room keeps the order.
LEMMA GuardKept ==
  ASSUME GuardInv, [RoomNext]_roomVars
  PROVE  GuardInv'
<1>1. MostReports \in Nat
  BY GuardAssumption
<1>2. CASE UNCHANGED guardVars
  BY <1>2 DEF GuardInv, guardVars
<1>3. ASSUME NEW b \in BOOLEAN, RadarReports(b) PROVE GuardInv'
  <2>1. threshold' = threshold /\ guard' \in Timer
    BY <1>3, StartedTimer DEF RadarReports, GuardInv
  <2>2. \/ count' = Counted /\ reports' = More(reports)
        \/ count' = 0 /\ reports' = 0
    BY <1>3 DEF RadarReports
  <2>3. More(reports) \in 0..MostReports
    BY MoreKeepsOrder DEF GuardInv
  <2>4. QED
    BY <1>1, <2>1, <2>2, <2>3, CountedReports DEF GuardInv
<1>4. CASE GuardReports
  BY <1>4, StartedTimer DEF GuardReports, GuardInv
<1>5. CASE GuardRunout
  BY <1>1, <1>5, StoppedTimer DEF GuardRunout, GuardInv
<1>6. CASE TouchGuard
  <2>1. guard' \in Timer
    BY <1>6, FlippedTimer, StoppedTimer, StartedTimer DEF TouchGuard, GuardInv
  <2>2. QED
    BY <1>6, <2>1 DEF TouchGuard, GuardInv
<1>7. ASSUME NEW n \in {0, Initial}, SetThreshold(n) PROVE GuardInv'
  BY <1>7 DEF SetThreshold, GuardInv
<1>8. QED
  BY <1>2, <1>3, <1>4, <1>5, <1>6, <1>7 DEF RoomNext, Guarding, roomVars

\* The count never exceeds the reports since the timer ran out or motion was seen.
LEMMA CountBounded == StorageSpec => []GuardInv
<1>1. RoomInit => GuardInv
  BY GuardAssumption DEF RoomInit, GuardInv, Timer
<1>2. GuardInv /\ [RoomNext]_roomVars => GuardInv'
  BY GuardKept
<1>3. QED
  BY <1>1, <1>2, StorageImplementsRoom, PTL DEF RoomSpec

\* Only a report of the radar begins motion in a bathroom.
LEMMA MotionFromRadar ==
  ASSUME TypeOK, RoomNext, place = "bathroom", ~input[Motion], input'[Motion]
  PROVE  RadarReports(TRUE) /\ Passes(Counted)
<1>1. ASSUME UNCHANGED input PROVE FALSE
  BY <1>1
<1>2. ASSUME NEW i \in Inputs, NEW b \in BOOLEAN, Reports(i, b) PROVE i = Motion /\ b
  <2>1. input' = [input EXCEPT ![i] = b]
    BY <1>2 DEF Reports, InputOn, InputOff
  <2>2. Motion \in Inputs /\ input \in [Inputs -> BOOLEAN]
    BY GuardAssumption DEF TypeOK
  <2>3. i = Motion
    BY <2>1, <2>2
  <2>4. QED
    BY <2>1, <2>2, <2>3
<1>3. ~Logic
  <2>1. ASSUME NEW i \in Inputs \ {Motion}, NEW b \in BOOLEAN, Reports(i, b) PROVE FALSE
    BY <1>2, <2>1
  <2>2. ASSUME LightOn \/ SetOff \/ Button \/ DarkMoment PROVE FALSE
    BY <1>1, <2>2 DEF LightOn, SetOff, Button, DarkMoment
  <2>3. ASSUME EndUpstart \/ TimerRunout \/ Enabling PROVE FALSE
    BY <1>1, <2>3
       DEF EndUpstart, TimerRunout, OutputRunout, AutomationRunout, Enabling, SetEnableManual,
           SetEnablePermanent
  <2>4. ASSUME TouchOutputTimer \/ TouchAutomationTimer PROVE FALSE
    BY <1>1, <2>4 DEF TouchOutputTimer, TouchAutomationTimer
  <2>5. QED
    BY <2>1, <2>2, <2>3, <2>4 DEF Logic
<1>4. PICK b \in BOOLEAN : RadarReports(b)
  BY <1>1, <1>3
     DEF RoomNext, Guarding, GuardReports, GuardRunout, TouchGuard, SetThreshold, vars
<1>5. QED
  BY <1>1, <1>2, <1>4, GuardAssumption DEF RadarReports, vars

\* However often the radar sees through the wall: motion begins in the time the passive
\* sensors allow it, or after the reports asked for (sensors.ts 681-711).
THEOREM SlowRadar == StorageSpec => RadarAloneIsSlow
<1> DEFINE Slow == guard.isActive \/ (threshold # 0 /\ reports + 1 >= threshold)
<1>1. ASSUME GuardInv, Passes(Counted) PROVE Slow
  <2>1. /\ threshold \in Nat /\ reports \in Nat /\ Counted \in Nat
        /\ Counted <= reports + 1
    BY <1>1, CountedReports, GuardAssumption DEF GuardInv
  <2>2. CASE guard.isActive
    BY <2>2
  <2>3. CASE threshold # 0 /\ Counted >= threshold
    BY <2>1, <2>3
  <2>4. QED
    BY <1>1, <2>2, <2>3 DEF Passes
<1>2. LightInv /\ GuardInv /\ [RoomNext]_roomVars =>
        [~input[Motion] /\ input'[Motion] /\ place = "bathroom" => Slow]_roomVars
  BY <1>1, MotionFromRadar DEF LightInv
<1>3. QED
  BY <1>2, RoomLight, CountBounded, StorageImplementsRoom, PTL DEF RadarAloneIsSlow, RoomSpec

-----------------------------------------------------------------------------
(* The notification of the storage room. While a machine's end is notified *)
(* notifications are enabled, so that no start of a machine is missed.     *)

NotificationInv ==
  /\ isRunning \in [Appliances -> {"yes", "no", "null"}]
  /\ notified \in BOOLEAN
  /\ timeouts = IF notified THEN 1 ELSE 0
  /\ notified /\ cause = "machine" =>
       notifies /\ \E m \in Appliances : isRunning[m] = "no"

\* Setting the notification starts and clears its one timeout.
LEMMA NotifyTimes ==
  ASSUME NotificationInv, NEW b \in BOOLEAN, NEW by, Notify(b, by)
  PROVE  notified' = b /\ timeouts' = IF b THEN 1 ELSE 0
BY DEF NotificationInv, Notify

\* Ended, by whomever, it is about nothing.
LEMMA NotifyEnds ==
  ASSUME NotificationInv, NEW by, Notify(FALSE, by),
         isRunning' \in [Appliances -> {"yes", "no", "null"}]
  PROVE  NotificationInv'
BY NotifyTimes DEF NotificationInv

\* A message of the bridge: the machine a notification is about is the one that has
\* just stopped; one that starts ends the notification, or, at night, leaves one that
\* no longer counts as being about a machine.
LEMMA MessageKeeps ==
  ASSUME NotificationInv, NEW m \in Appliances, NEW v \in {"yes", "no"}, Message(m, v)
  PROVE  NotificationInv'
<1>1. /\ isRunning' \in [Appliances -> {"yes", "no", "null"}]
      /\ isRunning' = [isRunning EXCEPT ![m] = v]
      /\ isRunning'[m] = v
      /\ notifies' = notifies
  BY DEF Message, NotificationInv
<1>2. CASE UNCHANGED <<notified, timeouts>> /\ cause' = "night"
  BY <1>1, <1>2 DEF NotificationInv
<1>3. CASE UNCHANGED <<notified, timeouts, cause>> /\ v = "no"
  BY <1>1, <1>3 DEF NotificationInv
<1>4. CASE UNCHANGED <<notified, timeouts, cause>> /\ v = isRunning[m]
  BY <1>1, <1>4 DEF NotificationInv
<1>5. CASE UNCHANGED <<notified, timeouts, cause>> /\ ~notifies
  BY <1>1, <1>5 DEF NotificationInv
<1>6. CASE Notify(v = "no", "machine") /\ notifies
  <2>1. CASE v = "no"
    <3>1. notified' = TRUE /\ timeouts' = 1
      BY <1>6, <2>1, NotifyTimes
    <3>2. QED
      BY <1>1, <1>6, <2>1, <3>1 DEF NotificationInv
  <2>2. CASE v # "no"
    BY <1>1, <1>6, <2>2, NotifyEnds
  <2>3. QED
    BY <2>1, <2>2
<1>7. QED
  BY <1>2, <1>3, <1>4, <1>5, <1>6 DEF Message

\* The two scenes, which the web sets.
LEMMA ScenesKeep ==
  ASSUME NotificationInv, NEW b \in BOOLEAN, SetNotification(b) \/ SetNotifies(b)
  PROVE  NotificationInv'
<1>1. isRunning' = isRunning
  BY DEF SetNotification, SetNotifies
<1>2. CASE SetNotification(b)
  <2>1. notified' = b /\ timeouts' = (IF b THEN 1 ELSE 0) /\ notifies' = notifies
    BY <1>2, NotifyTimes DEF SetNotification
  <2>2. b = notified \/ cause' = "web"
    BY <1>2 DEF SetNotification, Notify
  <2>3. b = notified => cause' = cause
    BY <1>2 DEF SetNotification, Notify
  <2>4. QED
    BY <1>1, <2>1, <2>2, <2>3 DEF NotificationInv
<1>3. CASE SetNotifies(b)
  <2>1. CASE b \/ b = notifies
    BY <1>1, <1>3, <2>1 DEF SetNotifies, NotificationInv
  <2>2. CASE ~(b \/ b = notifies)
    BY <1>1, <1>3, <2>2, NotifyEnds DEF SetNotifies, NotificationInv
  <2>3. QED
    BY <2>1, <2>2
<1>4. QED
  BY <1>2, <1>3

\* Every step keeps it.
LEMMA NotificationKept ==
  ASSUME NotificationInv, [StorageNext]_storageVars
  PROVE  NotificationInv'
<1>1. CASE UNCHANGED bridgeVars
  BY <1>1 DEF bridgeVars, NotificationInv
<1>2. CASE Bridge
  <2>1. CASE PlayTimeout
    BY <2>1, NotifyEnds DEF PlayTimeout, NotificationInv
  <2>2. QED
    BY <1>2, <2>1, MessageKeeps, ScenesKeep DEF Bridge
<1>3. CASE Entered
  <2>1. isRunning' = isRunning /\ notifies' = notifies
    BY <1>3 DEF Entered
  <2>2. CASE UNCHANGED <<notified, timeouts, cause>>
    BY <2>1, <2>2 DEF NotificationInv
  <2>3. CASE Notify(FALSE, "web")
    BY <2>1, <2>3, NotifyEnds DEF NotificationInv
  <2>4. QED
    BY <1>3, <2>2, <2>3 DEF Entered
<1>4. QED
  BY <1>1, <1>2, <1>3 DEF StorageNext, storageVars

\* A notification has its one timeout to come, and one that a machine has caused is
\* about a machine that stands still, however many machines there are
\* (storage-room.ts 218-293).
THEOREM NotifiedOfEnd == StorageSpec => []NotifiesOfEnd
<1>1. StorageInit => NotificationInv
  BY DEF StorageInit, NotificationInv
<1>2. NotificationInv /\ [StorageNext]_storageVars => NotificationInv'
  BY NotificationKept
<1>3. NotificationInv => NotifiesOfEnd
  BY DEF NotificationInv, NotifiesOfEnd
<1>4. QED
  BY <1>1, <1>2, <1>3, PTL DEF StorageSpec

-----------------------------------------------------------------------------
(* The scenes of the bedroom.                                              *)

\* The lights that tell the scenes apart are members of all of them.
LEMMA SomeMembers ==
  /\ Members \subseteq Lights
  /\ {"upRed", "nightLight", "upWWhite"} \subseteq Members
<1>1. /\ {1, 4, 5} \subseteq DOMAIN SceneOrder
      /\ SceneOrder[1] = "upRed" /\ SceneOrder[4] = "nightLight" /\ SceneOrder[5] = "upWWhite"
  BY DEF SceneOrder
<1>2. QED
  BY <1>1 DEF Members, Lights

\* The names of scenes, values and other things asked for do not clash.
LEMMA SceneNames ==
  /\ Scenes = { "allOff", "allRed", "onlyNightLight", "moodLight", "ceilingLightPlus",
                "everythingOn" }
  /\ Scenes \cap Values = {}
  /\ "dark" \notin Scenes /\ "other" \notin Scenes
<1>1. Scenes = { "allOff", "allRed", "onlyNightLight", "moodLight", "ceilingLightPlus",
                 "everythingOn" }
  BY DEF Scenes, Lit
<1>2. QED
  BY <1>1 DEF Values

\* Each scene has a value for each light, and none lights a light it does not list.
LEMMA SceneValues ==
  ASSUME NEW s \in Scenes, NEW l
  PROVE  /\ OnValue(s, l) \in Values
         /\ OnValue("allOff", l) = "off"
<1>1. "allOff" \in Scenes /\ Lit["allOff"] = {}
  BY SceneNames DEF Lit
<1>2. QED
  BY <1>1 DEF OnValue, Values

\* Three lights tell the scenes apart.
LEMMA SceneTable ==
  /\ OnValue("allOff", "upRed") = "off" /\ OnValue("allOff", "nightLight") = "off"
  /\ OnValue("allRed", "upRed") = "full" /\ OnValue("allRed", "nightLight") = "off"
  /\ OnValue("onlyNightLight", "upRed") = "off" /\ OnValue("onlyNightLight", "nightLight") = "full"
  /\ OnValue("moodLight", "upRed") = "full" /\ OnValue("moodLight", "nightLight") = "full"
  /\ OnValue("ceilingLightPlus", "upRed") = "off"
  /\ OnValue("ceilingLightPlus", "nightLight") = "off"
  /\ OnValue("everythingOn", "upRed") = "full" /\ OnValue("everythingOn", "nightLight") = "full"
  /\ OnValue("allOff", "upWWhite") = "off" /\ OnValue("ceilingLightPlus", "upWWhite") = "full"
  /\ OnValue("moodLight", "upWWhite") = "half" /\ OnValue("everythingOn", "upWWhite") = "full"
BY SomeMembers DEF OnValue, Lit

\* No two scenes are on at once.
LEMMA OneSceneOn ==
  ASSUME NEW ls, NEW s \in Scenes, NEW t \in Scenes, IsOn(s, ls), IsOn(t, ls)
  PROVE  s = t
<1>1. \A l \in {"upRed", "nightLight", "upWWhite"} : OnValue(s, l) = OnValue(t, l)
  BY SomeMembers DEF IsOn
<1>2. QED
  BY <1>1, SceneNames, SceneTable

\* The orders lights are set in list lights; that of the scenes lists all members, and
\* that of allLights all lights.
LEMMA Orders ==
  /\ SceneOrder \in Seq(Lights)
  /\ \A i \in DOMAIN SceneOrder : SceneOrder[i] \in Members
  /\ \A l \in Members : \E i \in DOMAIN SceneOrder : SceneOrder[i] = l
  /\ \A g \in DOMAIN Groups : Groups[g] \in Seq(Lights)
  /\ \A l \in Lights : \E i \in DOMAIN Groups.allLights : Groups.allLights[i] = l
<1>1. /\ \A i \in DOMAIN SceneOrder : SceneOrder[i] \in Members
      /\ \A l \in Members : \E i \in DOMAIN SceneOrder : SceneOrder[i] = l
  BY DEF Members
<1>2. Lights = { "upRed", "leftRed", "rightRed", "nightLight", "upWWhite", "standingLamp",
                 "down", "leftWWhite", "rightWWhite", "ceilingLight", "ceilingLightRGB", "heatLamp"}
  <2>1. DOMAIN SceneOrder = 1..11
    BY DEF SceneOrder
  <2>2. DOMAIN SceneOrder = {1, 2, 3, 4, 5, 6, 7, 8, 9, 10, 11}
    BY <2>1
  <2>3. Members = { SceneOrder[1], SceneOrder[2], SceneOrder[3], SceneOrder[4],
                    SceneOrder[5], SceneOrder[6], SceneOrder[7], SceneOrder[8],
                    SceneOrder[9], SceneOrder[10], SceneOrder[11] }
    BY <2>2 DEF Members
  <2>4. QED
    BY <2>3 DEF Lights, SceneOrder
<1>3. SceneOrder \in Seq(Lights)
  BY <1>2 DEF SceneOrder
<1>4. \A g \in DOMAIN Groups : Groups[g] \in Seq(Lights)
  <2>1. DOMAIN Groups = { "allLights", "bookshelfLedWWhite", "nightstandLedRed",
                          "nightstandLedWWhite", "redLeds", "wWhiteLeds" }
    BY DEF Groups
  <2>2. Groups["allLights"] \in Seq(Lights) /\ Groups["wWhiteLeds"] \in Seq(Lights)
    BY <1>2 DEF Groups
  <2>3. /\ Groups["bookshelfLedWWhite"] \in Seq(Lights)
        /\ Groups["nightstandLedRed"] \in Seq(Lights)
        /\ Groups["nightstandLedWWhite"] \in Seq(Lights)
        /\ Groups["redLeds"] \in Seq(Lights)
    BY <1>2 DEF Groups
  <2>4. QED
    BY <2>1, <2>2, <2>3
<1>5. \A l \in Lights : \E i \in DOMAIN Groups.allLights : Groups.allLights[i] = l
  BY <1>2 DEF Groups
<1>6. QED
  BY <1>1, <1>3, <1>4, <1>5

-----------------------------------------------------------------------------
(* A set in progress.                                                      *)

SetInProgress == [left : Seq(Lights), to : Scenes \cup Values]

\* Members that the set f has yet to come to, or is through with.
IsLeft(f, l) == \E i \in DOMAIN f.left : f.left[i] = l

BedroomTypeOK ==
  /\ lights \in [Lights -> Values]
  /\ cycle \in Scenes
  /\ asked \in Scenes \cup {"dark", "other"}
  /\ sets \in Seq(SetInProgress) /\ Len(sets) <= 2

\* A scene sets its members only.
MembersOnly ==
  \A k \in DOMAIN sets : sets[k].to \in Scenes =>
    \A i \in DOMAIN sets[k].left : sets[k].left[i] \in Members

\* A set that an observer began has found its scene lit.
InnerIsLit == Len(sets) = 2 => sets[2] = Triggered(cycle) /\ IsOn(cycle, lights)

Matches == \A s \in Scenes : IsOn(s, lights) => cycle = s

\* The cycle is ahead of the lights only until the first light of its scene is set.
CycleIsAhead == Matches \/ (Len(sets) = 1 /\ sets[1] = Triggered(cycle))

\* The lights that the outermost set is through with are as asked for.
OnTheWay ==
  sets # <<>> =>
    /\ asked \in Scenes =>
         \A l \in Members :
           /\ Wanted(sets[1], l) = OnValue(asked, l)
           /\ lights[l] = OnValue(asked, l) \/ IsLeft(sets[1], l)
    /\ asked = "dark" =>
         sets[1].to = "off" /\ \A l \in Lights : lights[l] = "off" \/ IsLeft(sets[1], l)

BedroomInv ==
  BedroomTypeOK /\ MembersOnly /\ InnerIsLit /\ CycleIsAhead /\ OnTheWay /\ AskedIsLit

\* What the lights will be once all sets have returned: what the outermost set still has
\* to come to gets its value, everything else keeps the one it has.
Outcome ==
  [ l \in Lights |->
      IF sets # <<>> /\ IsLeft(sets[1], l) THEN Wanted(sets[1], l) ELSE lights[l] ]

\* What the lights will be is settled when a set begins, whatever set it is: no step of
\* it, no scene passed through, and neither observer change that (mrpelz-bedroom.ts
\* 684-701, actuators.ts 593-613).
OutcomeIsSettled == [][~Quiet => Outcome' = Outcome]_bedroomVars

\* The value a set gives to a light.
LEMMA WantedValue ==
  ASSUME NEW f \in SetInProgress, NEW l \in Lights
  PROVE  Wanted(f, l) \in Values
BY SceneValues, SceneNames DEF SetInProgress, Wanted

\* The sets an operation begins are sets in progress.
LEMMA SetToTypes ==
  ASSUME NEW order \in Seq(Lights), NEW to \in Scenes \cup Values
  PROVE  SetTo(order, to) \in SetInProgress
BY DEF SetTo, SetInProgress

\* The call stack is empty or not.
LEMMA StackLength ==
  ASSUME NEW stack \in Seq(SetInProgress)
  PROVE  /\ Len(stack) \in Nat
         /\ stack # <<>> <=> Len(stack) # 0
         /\ Len(stack) <= 2 /\ stack # <<>> => Len(stack) \in {1, 2}
<1>1. Len(stack) \in Nat /\ (stack # <<>> <=> Len(stack) # 0)
  BY EmptySeq, LenProperties
<1>2. \A n \in Nat : n <= 2 /\ n # 0 => n \in {1, 2}
  OBVIOUS
<1>3. QED
  BY <1>1, <1>2

\* The call stacks that a step leaves.
LEMMA Stacks ==
  ASSUME NEW f \in SetInProgress, NEW g \in SetInProgress
  PROVE  /\ <<f>> \in Seq(SetInProgress) /\ Len(<<f>>) = 1 /\ DOMAIN <<f>> = {1}
         /\ <<f>> # <<>> /\ <<f, g>> # <<>>
         /\ <<f, g>> \in Seq(SetInProgress) /\ Len(<<f, g>>) = 2 /\ DOMAIN <<f, g>> = {1, 2}
         /\ Append(<<>>, f) = <<f>>
         /\ Append(<<f>>, g) = <<f, g>>
<1>1. <<f>> \in Seq(SetInProgress) /\ Len(<<f>>) = 1 /\ DOMAIN <<f>> = {1}
  OBVIOUS
<1>2. <<f, g>> \in Seq(SetInProgress) /\ Len(<<f, g>>) = 2
  OBVIOUS
<1>3. DOMAIN <<f, g>> = {1, 2}
  BY <1>2, LenProperties
<1>4. <<f>> # <<>> /\ <<f, g>> # <<>>
  BY <1>1, <1>2, StackLength
<1>5. Append(<<>>, f) = <<f>>
  OBVIOUS
<1>6. Append(<<f>>, g) = <<f, g>>
  <2>1. /\ Append(<<f>>, g) \in Seq(SetInProgress) /\ Len(Append(<<f>>, g)) = 2
        /\ Append(<<f>>, g)[1] = f /\ Append(<<f>>, g)[2] = g
    BY <1>1
  <2>2. \A i \in 1..2 : Append(<<f>>, g)[i] = <<f, g>>[i]
    BY <2>1
  <2>3. QED
    BY <1>2, <2>1, <2>2, SeqEqual
<1>7. QED
  BY <1>1, <1>2, <1>3, <1>4, <1>5, <1>6

\* The call stack of one set ...
LEMMA OneSet ==
  ASSUME sets \in Seq(SetInProgress), Len(sets) = 1
  PROVE  /\ sets = <<sets[1]>> /\ sets[1] \in SetInProgress
         /\ Innermost = sets[1]
         /\ Outer = <<>>
BY DEF Innermost, Outer

\* ... and of two.
LEMMA TwoSets ==
  ASSUME sets \in Seq(SetInProgress), Len(sets) = 2
  PROVE  /\ sets[1] \in SetInProgress /\ sets[2] \in SetInProgress
         /\ Innermost = sets[2]
         /\ Outer = <<sets[1]>>
<1>1. sets[1] \in SetInProgress /\ sets[2] \in SetInProgress
  OBVIOUS
<1>2. Outer \in Seq(SetInProgress) /\ Len(Outer) = 1 /\ Outer[1] = sets[1]
  BY DEF Outer
<1>3. QED
  BY <1>1, <1>2 DEF Innermost

\* What is left of a set beyond its i-th light.
LEMMA BeyondLeft ==
  ASSUME Innermost \in SetInProgress, NEW i \in DOMAIN Innermost.left
  PROVE  /\ Beyond(i) \in SetInProgress
         /\ Beyond(i).to = Innermost.to
         /\ \A k \in DOMAIN Beyond(i).left :
              k + i \in DOMAIN Innermost.left /\ Beyond(i).left[k] = Innermost.left[k + i]
         /\ \A k \in DOMAIN Innermost.left : k > i => IsLeft(Beyond(i), Innermost.left[k])
<1> DEFINE left == Innermost.left
<1> DEFINE rest == SubSeq(left, i + 1, Len(left))
<1>1. left \in Seq(Lights) /\ Len(left) \in Nat /\ DOMAIN left = 1..Len(left) /\ i \in 1..Len(left)
  BY DEF SetInProgress
<1>2. /\ rest \in Seq(Lights) /\ Len(rest) = Len(left) - i
      /\ DOMAIN rest = 1..(Len(left) - i)
      /\ \A k \in 1..(Len(left) - i) : rest[k] = left[k + i]
  BY <1>1
<1>3. Beyond(i) \in SetInProgress /\ Beyond(i).left = rest /\ Beyond(i).to = Innermost.to
  BY <1>2 DEF Beyond, SetInProgress
<1>4. ASSUME NEW k \in DOMAIN left, k > i PROVE IsLeft(Beyond(i), left[k])
  <2>1. k - i \in DOMAIN rest /\ rest[k - i] = left[k]
    BY <1>1, <1>2, <1>4
  <2>2. QED
    BY <1>3, <2>1 DEF IsLeft
<1>5. QED
  BY <1>1, <1>2, <1>3, <1>4

-----------------------------------------------------------------------------
(* Every step of the bedroom keeps the invariant.                          *)

\* While a scene is on, all that it sets has its value.
LEMMA LitScene ==
  ASSUME NEW s \in Scenes, NEW f, f = Triggered(s)
  PROVE  /\ f \in SetInProgress /\ f.to = s /\ f.left = SceneOrder
         /\ \A l : Wanted(f, l) = OnValue(s, l)
BY Orders, SetToTypes DEF Triggered, SetTo, Wanted

\* The only scene that is on matches the cycle if it is the one the cycle is at.
LEMMA MatchesLit ==
  ASSUME NEW s \in Scenes, IsOn(s, lights), cycle = s
  PROVE  Matches
BY OneSceneOn DEF Matches

\* What comes from outside begins a set of its own.
LEMMA BeginKeeps ==
  ASSUME BedroomInv, Quiet,
         NEW order \in Seq(Lights), NEW to \in Scenes \cup Values,
         NEW what \in Scenes \cup {"dark", "other"},
         Begin(order, to, what),
         cycle' \in Scenes,
         to \in Scenes => order = SceneOrder,
         cycle' = cycle \/ (to = cycle' /\ order = SceneOrder),
         what \in Scenes =>
           order = SceneOrder /\ \A l \in Members : Wanted(SetTo(order, to), l) = OnValue(what, l),
         what = "dark" => to = "off" /\ order = Groups.allLights
  PROVE  BedroomInv'
<1> DEFINE f == SetTo(order, to)
<1>1. sets' = <<f>> /\ lights' = lights /\ asked' = what
  BY DEF Begin
<1>2. f \in SetInProgress /\ f.left = order /\ f.to = to
  BY SetToTypes DEF SetTo
<1>3. /\ sets' \in Seq(SetInProgress) /\ Len(sets') = 1 /\ DOMAIN sets' = {1}
      /\ sets'[1] = f /\ sets' # <<>>
  BY <1>1, <1>2, Stacks
<1>4. BedroomTypeOK'
  BY <1>1, <1>3 DEF BedroomInv, BedroomTypeOK
<1>5. MembersOnly'
  BY <1>2, <1>3, Orders DEF MembersOnly
<1>6. CycleIsAhead'
  <2>1. CASE cycle' = cycle
    BY <1>1, <2>1 DEF BedroomInv, CycleIsAhead, Quiet, Matches
  <2>2. CASE to = cycle' /\ order = SceneOrder
    BY <1>3, <2>2 DEF CycleIsAhead, Triggered
  <2>3. QED
    BY <2>1, <2>2
<1>7. OnTheWay'
  <2>1. what \in Scenes => \A l \in Members : IsLeft(f, l)
    BY <1>2, Orders DEF IsLeft
  <2>2. what = "dark" => \A l \in Lights : IsLeft(f, l)
    BY <1>2, Orders DEF IsLeft
  <2>3. QED
    BY <1>1, <1>2, <1>3, <2>1, <2>2 DEF OnTheWay
<1>8. InnerIsLit' /\ AskedIsLit'
  BY <1>3 DEF InnerIsLit, AskedIsLit, Quiet
<1>9. QED
  BY <1>4, <1>5, <1>6, <1>7, <1>8 DEF BedroomInv

\* The next and the previous scene of the cycle.
LEMMA SteerKeeps ==
  ASSUME BedroomInv, NEW by \in Int, Steer(by)
  PROVE  BedroomInv'
<1>1. PICK j \in DOMAIN Cycle :
        Quiet /\ cycle' = Cycle[j] /\ Begin(SceneOrder, Cycle[j], Cycle[j])
  BY DEF Steer
<1>2. Cycle[j] \in Scenes
  BY SceneNames DEF Cycle
<1>3. \A l : Wanted(SetTo(SceneOrder, Cycle[j]), l) = OnValue(Cycle[j], l)
  BY <1>2, LitScene DEF Triggered
<1>4. QED
  BY <1>1, <1>2, <1>3, BeginKeeps, Orders, SceneNames

\* A scene is turned on.
LEMMA SceneOnKeeps ==
  ASSUME BedroomInv, NEW s \in Scenes, TurnSceneOn(s)
  PROVE  BedroomInv'
<1>1. \A l : Wanted(SetTo(SceneOrder, s), l) = OnValue(s, l)
  BY LitScene DEF Triggered
<1>2. Quiet /\ Begin(SceneOrder, s, s) /\ cycle' = cycle /\ cycle \in Scenes
  BY DEF TurnSceneOn, BedroomInv, BedroomTypeOK
<1>3. QED
  BY <1>1, <1>2, BeginKeeps, Orders, SceneNames

\* A scene is turned off: its members go off.
LEMMA SceneOffKeeps ==
  ASSUME BedroomInv, NEW s \in Scenes, TurnSceneOff(s)
  PROVE  BedroomInv'
<1>1. "off" \in Values \ Scenes /\ "allOff" \in Scenes
  BY SceneNames DEF Values
<1>2. \A l : Wanted(SetTo(SceneOrder, "off"), l) = OnValue("allOff", l)
  BY <1>1, SceneValues DEF Wanted, SetTo
<1>3. Quiet /\ Begin(SceneOrder, "off", "allOff") /\ cycle' = cycle /\ cycle \in Scenes
  BY DEF TurnSceneOff, BedroomInv, BedroomTypeOK
<1>4. QED
  BY <1>1, <1>2, <1>3, BeginKeeps, Orders, SceneNames

\* All lights are turned off.
LEMMA AllOffKeeps ==
  ASSUME BedroomInv, TurnAllOff
  PROVE  BedroomInv'
<1>1. "off" \in Values \ Scenes /\ "allLights" \in DOMAIN Groups
  BY SceneNames DEF Values, Groups
<1>2. Quiet /\ Begin(Groups.allLights, "off", "dark") /\ cycle' = cycle /\ cycle \in Scenes
  BY DEF TurnAllOff, BedroomInv, BedroomTypeOK
<1>3. Groups.allLights \in Seq(Lights)
  BY <1>1, Orders
<1>4. QED
  BY <1>1, <1>2, <1>3, BeginKeeps, SceneNames

\* Something else than a scene or the dark is set: lights one by one.
LEMMA OtherKeeps ==
  ASSUME BedroomInv, Quiet, NEW order \in Seq(Lights), NEW v \in Values,
         Begin(order, v, "other"), UNCHANGED cycle
  PROVE  BedroomInv'
<1>1. v \notin Scenes /\ "other" \notin Scenes /\ cycle \in Scenes
  BY SceneNames DEF BedroomInv, BedroomTypeOK
<1>2. QED
  BY <1>1, BeginKeeps

\* What the buttons do.
LEMMA ButtonsKeep ==
  ASSUME BedroomInv, Buttons
  PROVE  BedroomInv'
<1>1. ASSUME NEW s \in Scenes, OffOrElse(s) PROVE BedroomInv'
  BY <1>1, AllOffKeeps, SceneOnKeeps DEF OffOrElse
<1>2. CASE CyclePrevious \/ CycleNext
  BY <1>2, SteerKeeps DEF CyclePrevious, CycleNext
<1>3. {"allRed", "onlyNightLight", "moodLight", "ceilingLightPlus"} \subseteq Scenes
  BY SceneNames
<1>4. ASSUME NEW l \in {"heatLamp", "nightLight", "standingLamp", "ceilingLight"}, FlipButton(l)
      PROVE  BedroomInv'
  <2>1. l \in Lights
    BY Orders DEF Lights, Members, SceneOrder
  <2>2. <<l>> \in Seq(Lights) /\ Opposite(l) \in Values
    BY <2>1 DEF Opposite, Values
  <2>3. QED
    BY <1>4, <2>2, OtherKeeps DEF FlipButton
<1>5. CASE BedButtonLeft \/ BedButtonMiddle \/ BedButtonRight \/ RoomButton
  BY <1>1, <1>2, <1>3, <1>5, SceneOnKeeps
     DEF BedButtonLeft, BedButtonMiddle, BedButtonRight, RoomButton
<1>6. CASE \/ MultiButtonTopLeft \/ MultiButtonTopRight
           \/ MultiButtonBottomLeft \/ MultiButtonBottomRight
  BY <1>1, <1>2, <1>3, <1>6
     DEF MultiButtonTopLeft, MultiButtonTopRight, MultiButtonBottomLeft, MultiButtonBottomRight
<1>7. CASE WallswitchDoorLeft \/ WallswitchDoorMiddle \/ WallswitchDoorRight \/ LongPress
  BY <1>1, <1>2, <1>3, <1>7, SceneOnKeeps, AllOffKeeps
     DEF WallswitchDoorLeft, WallswitchDoorMiddle, WallswitchDoorRight, LongPress
<1>8. QED
  BY <1>4, <1>5, <1>6, <1>7 DEF Buttons

\* What the web sets.
LEMMA WebKeeps ==
  ASSUME BedroomInv, Web
  PROVE  BedroomInv'
<1>1. ASSUME NEW l \in WebLights, NEW v \in Values, SetLight(l, v) PROVE BedroomInv'
  <2>1. <<l>> \in Seq(Lights)
    BY WebAssumption
  <2>2. QED
    BY <1>1, <2>1, OtherKeeps DEF SetLight
<1>2. ASSUME NEW g \in WebGroups, NEW v \in Values, SetGroup(g, v) PROVE BedroomInv'
  BY <1>2, GroupsAssumption, Orders, OtherKeeps DEF SetGroup
<1>3. QED
  BY <1>1, <1>2, SceneOnKeeps, SceneOffKeeps DEF Web

\* A set that an observer has begun does not set anything.
LEMMA OneSetSteps ==
  ASSUME BedroomInv, Step
  PROVE  Len(sets) = 1
<1>1. sets \in Seq(SetInProgress) /\ Len(sets) \in {1, 2} /\ Differing # {}
  <2>1. sets \in Seq(SetInProgress) /\ Len(sets) <= 2 /\ sets # <<>>
    BY DEF BedroomInv, BedroomTypeOK, Step
  <2>2. Differing # {}
    BY DEF Step
  <2>3. QED
    BY <2>1, <2>2, StackLength
<1>2. ASSUME Len(sets) = 2 PROVE FALSE
  <2>1. Innermost = Triggered(cycle) /\ IsOn(cycle, lights) /\ cycle \in Scenes
    BY <1>1, <1>2, TwoSets DEF BedroomInv, BedroomTypeOK, InnerIsLit
  <2>2. \A i \in DOMAIN Innermost.left :
          lights[Innermost.left[i]] = Wanted(Innermost, Innermost.left[i])
    BY <2>1, LitScene, Orders DEF IsOn
  <2>3. QED
    BY <1>1, <2>2 DEF Differing
<1>3. QED
  BY <1>1, <1>2

\* A light is set and the observers of the scenes run.
LEMMA StepKeeps ==
  ASSUME BedroomInv, Step
  PROVE  BedroomInv' /\ Outcome' = Outcome
<1> DEFINE f == sets[1]
<1>1. PICK i \in Differing :
        /\ \A j \in Differing : i <= j
        /\ LET l == Innermost.left[i]
               ls == [lights EXCEPT ![l] = Wanted(Innermost, l)]
               rest == Append(Outer, Beyond(i))
           IN /\ lights' = ls
              /\ \/ \E s \in Rising(ls) : MoveCycle(s, rest)
                 \/ Rising(ls) = {} /\ sets' = rest /\ UNCHANGED cycle
  BY DEF Step
<1> DEFINE l == f.left[i]
<1> DEFINE g == Beyond(i)
<1>2. /\ sets \in Seq(SetInProgress) /\ Len(sets) = 1 /\ DOMAIN sets = {1} /\ sets # <<>>
      /\ lights \in [Lights -> Values] /\ cycle \in Scenes
      /\ Innermost = f /\ Outer = <<>> /\ f \in SetInProgress
  BY OneSetSteps, OneSet DEF BedroomInv, BedroomTypeOK
<1>3. /\ i \in DOMAIN f.left /\ l \in Lights
      /\ lights[l] # Wanted(f, l)
      /\ DOMAIN f.left \subseteq Nat
  BY <1>1, <1>2 DEF Differing, SetInProgress
<1>4. /\ lights' \in [Lights -> Values]
      /\ lights'[l] = Wanted(f, l)
      /\ \A m \in Lights \ {l} : lights'[m] = lights[m]
  BY <1>1, <1>2, <1>3, WantedValue
<1>5. /\ g \in SetInProgress /\ g.to = f.to
      /\ \A k \in DOMAIN g.left : k + i \in DOMAIN f.left /\ g.left[k] = f.left[k + i]
      /\ \A k \in DOMAIN f.left : k > i => IsLeft(g, f.left[k])
  BY <1>2, <1>3, BeyondLeft
<1>6. /\ Append(Outer, g) = <<g>>
      /\ \A s \in Scenes : Append(<<g>>, Triggered(s)) = <<g, Triggered(s)>>
  BY <1>2, <1>5, LitScene, Stacks
<1>7. \/ \E s \in Scenes : /\ IsOn(s, lights') /\ cycle' = s
                           /\ sets' = <<g>> \/ sets' = <<g, Triggered(s)>>
      \/ Rising(lights') = {} /\ sets' = <<g>> /\ UNCHANGED cycle
  BY <1>1, <1>6 DEF MoveCycle, Rising
<1>8. /\ sets' \in Seq(SetInProgress) /\ Len(sets') <= 2 /\ sets'[1] = g
      /\ Len(sets') = 2 => sets'[2] = Triggered(cycle') /\ IsOn(cycle', lights')
      /\ cycle' \in Scenes
      /\ sets' # <<>>
  <2>1. CASE sets' = <<g>>
    BY <1>2, <1>5, <1>7, <2>1, Stacks
  <2>2. CASE sets' # <<g>>
    <3>1. PICK s \in Scenes : IsOn(s, lights') /\ cycle' = s /\ sets' = <<g, Triggered(s)>>
      BY <1>7, <2>2
    <3>2. QED
      BY <1>5, <3>1, LitScene, Stacks
  <2>3. QED
    BY <2>1, <2>2
<1>9. UNCHANGED asked
  BY DEF Step
<1>10. BedroomTypeOK'
  BY <1>4, <1>8, <1>9 DEF BedroomInv, BedroomTypeOK
<1>11. MembersOnly'
  <2>1. f.to \in Scenes => \A k \in DOMAIN f.left : f.left[k] \in Members
    BY <1>2 DEF BedroomInv, MembersOnly
  <2>2. g.to \in Scenes => \A k \in DOMAIN g.left : g.left[k] \in Members
    BY <1>5, <2>1
  <2>3. Len(sets') = 2 => \A k \in DOMAIN sets'[2].left : sets'[2].left[k] \in Members
    BY <1>8, LitScene, Orders
  <2>4. DOMAIN sets' \subseteq {1, 2} /\ (2 \in DOMAIN sets' => Len(sets') = 2)
    <3>1. DOMAIN sets' = 1..Len(sets') /\ Len(sets') \in Nat
      BY <1>8, LenProperties
    <3>2. QED
      BY <1>8, <3>1
  <2>5. QED
    BY <1>8, <2>2, <2>3, <2>4 DEF MembersOnly
<1>12. Matches'
  <2>1. SUFFICES ASSUME NEW t \in Scenes, IsOn(t, lights') PROVE cycle' = t
    BY DEF Matches
  <2>2. CASE \E s \in Scenes : IsOn(s, lights') /\ cycle' = s
    BY <2>1, <2>2, OneSceneOn
  <2>3. CASE Rising(lights') = {} /\ UNCHANGED cycle
    <3>1. IsOn(t, lights)
      BY <2>1, <2>3 DEF Rising
    <3>2. CASE Matches
      BY <2>3, <3>1, <3>2 DEF Matches
    <3>3. CASE f = Triggered(cycle)
      <4>1. l \in Members
        BY <1>2, <1>3, <3>3, LitScene, Orders
      <4>2. lights[l] = OnValue(t, l) /\ lights'[l] = OnValue(t, l)
        BY <2>1, <3>1, <4>1 DEF IsOn
      <4>3. QED
        BY <1>3, <1>4, <4>2
    <3>4. QED
      BY <3>2, <3>3 DEF BedroomInv, CycleIsAhead
  <2>4. QED
    BY <1>7, <2>2, <2>3
<1>13. \A m : Wanted(g, m) = Wanted(f, m)
  BY <1>5 DEF Wanted
<1>14. ASSUME NEW m \in Lights
       PROVE  lights'[m] = lights[m] \/ lights'[m] = Wanted(f, m)
  BY <1>4
<1>15. ASSUME NEW m \in Lights, IsLeft(f, m)
       PROVE  lights'[m] = Wanted(f, m) \/ IsLeft(g, m)
  <2>1. PICK k \in DOMAIN f.left : f.left[k] = m
    BY <1>15 DEF IsLeft
  <2>2. CASE k > i
    BY <1>5, <2>1, <2>2
  <2>3. CASE k = i
    BY <1>4, <2>1, <2>3
  <2>4. CASE k < i
    <3>1. k \notin Differing
      BY <1>1, <1>2, <1>3, <2>4 DEF Differing
    <3>2. lights[m] = Wanted(f, m)
      BY <1>2, <2>1, <3>1 DEF Differing
    <3>3. QED
      BY <1>14, <3>2
  <2>5. QED
    BY <1>3, <2>2, <2>3, <2>4
<1>16. OnTheWay'
  <2>1. CASE asked \in Scenes
    <3>1. ASSUME NEW m \in Members
          PROVE  /\ Wanted(g, m) = OnValue(asked, m)
                 /\ lights'[m] = OnValue(asked, m) \/ IsLeft(g, m)
      <4>1. m \in Lights
        BY SomeMembers
      <4>2. /\ Wanted(f, m) = OnValue(asked, m)
            /\ lights[m] = OnValue(asked, m) \/ IsLeft(f, m)
        BY <1>2, <2>1 DEF BedroomInv, OnTheWay
      <4>3. QED
        BY <1>13, <1>14, <1>15, <4>1, <4>2
    <3>2. QED
      BY <1>8, <1>9, <2>1, <3>1, SceneNames DEF OnTheWay
  <2>2. CASE asked = "dark"
    <3>1. f.to = "off" /\ \A m \in Lights : lights[m] = "off" \/ IsLeft(f, m)
      BY <1>2, <2>2 DEF BedroomInv, OnTheWay
    <3>2. \A m : Wanted(f, m) = "off"
      BY <1>2, <3>1, SceneNames DEF Wanted, Values
    <3>3. \A m \in Lights : lights'[m] = "off" \/ IsLeft(g, m)
      BY <1>14, <1>15, <3>1, <3>2
    <3>4. QED
      BY <1>5, <1>8, <1>9, <2>2, <3>1, <3>3, SceneNames DEF OnTheWay
  <2>3. CASE asked \notin Scenes /\ asked # "dark"
    BY <1>9, <2>3 DEF OnTheWay
  <2>4. QED
    BY <2>1, <2>2, <2>3
<1>17. InnerIsLit' /\ CycleIsAhead' /\ AskedIsLit'
  BY <1>8, <1>12 DEF InnerIsLit, CycleIsAhead, AskedIsLit, Quiet
<1>18. Outcome' = Outcome
  <2>1. \A m : IsLeft(g, m) => IsLeft(f, m)
    BY <1>5 DEF IsLeft
  <2>2. IsLeft(f, l)
    BY <1>3 DEF IsLeft
  <2>3. \A m \in Lights :
          (IF IsLeft(g, m) THEN Wanted(g, m) ELSE lights'[m])
            = (IF IsLeft(f, m) THEN Wanted(f, m) ELSE lights[m])
    BY <1>4, <1>13, <1>15, <2>1, <2>2
  <2>4. QED
    BY <1>2, <1>8, <2>3 DEF Outcome, IsLeft, Wanted
<1>19. QED
  BY <1>10, <1>11, <1>12, <1>16, <1>17, <1>18 DEF BedroomInv

\* A set returns.
LEMMA ReturnKeeps ==
  ASSUME BedroomInv, Return
  PROVE  BedroomInv' /\ Outcome' = Outcome
<1> DEFINE f == sets[1]
<1>1. /\ sets \in Seq(SetInProgress) /\ Len(sets) \in {1, 2} /\ sets # <<>> /\ Differing = {}
      /\ lights \in [Lights -> Values] /\ cycle \in Scenes
      /\ sets' = Outer /\ UNCHANGED <<lights, cycle, asked>>
  <2>1. /\ sets \in Seq(SetInProgress) /\ Len(sets) <= 2
        /\ lights \in [Lights -> Values] /\ cycle \in Scenes
    BY DEF BedroomInv, BedroomTypeOK
  <2>2. /\ sets # <<>> /\ Differing = {}
        /\ sets' = Outer /\ UNCHANGED <<lights, cycle, asked>>
    BY DEF Return
  <2>3. Len(sets) \in {1, 2}
    BY <2>1, <2>2, StackLength
  <2>4. QED
    BY <2>1, <2>2, <2>3
<1>2. CASE Len(sets) = 2
  <2>1. f \in SetInProgress /\ sets' = <<f>>
    BY <1>1, <1>2, TwoSets
  <2>2. /\ sets' \in Seq(SetInProgress) /\ Len(sets') = 1 /\ DOMAIN sets' = {1} /\ sets'[1] = f
        /\ sets' # <<>>
    BY <2>1
  <2>3. BedroomTypeOK' /\ MembersOnly'
    BY <1>1, <1>2, <2>2 DEF BedroomInv, BedroomTypeOK, MembersOnly
  <2>4. Matches'
    BY <1>1, <1>2, OneSceneOn DEF BedroomInv, InnerIsLit, Matches
  <2>5. OnTheWay'
    BY <1>1, <2>2 DEF BedroomInv, OnTheWay
  <2>6. InnerIsLit' /\ CycleIsAhead' /\ AskedIsLit'
    BY <2>2, <2>4 DEF InnerIsLit, CycleIsAhead, AskedIsLit, Quiet
  <2>7. Outcome' = Outcome
    BY <1>1, <2>2 DEF Outcome, IsLeft, Wanted
  <2>8. QED
    BY <2>3, <2>4, <2>5, <2>6, <2>7 DEF BedroomInv
<1>3. CASE Len(sets) = 1
  <2>1. Innermost = f /\ f \in SetInProgress /\ sets' = <<>>
    BY <1>1, <1>3, OneSet
  <2>2. \A k \in DOMAIN f.left : lights[f.left[k]] = Wanted(f, f.left[k])
    BY <1>1, <2>1 DEF Differing
  <2>3. \A m : IsLeft(f, m) => lights[m] = Wanted(f, m)
    BY <2>2 DEF IsLeft
  <2>4. Matches
    <3>1. CASE f = Triggered(cycle)
      <4>1. IsOn(cycle, lights)
        BY <1>1, <2>2, <3>1, LitScene, Orders DEF IsOn
      <4>2. QED
        BY <1>1, <4>1, MatchesLit
    <3>2. QED
      BY <3>1 DEF BedroomInv, CycleIsAhead
  <2>5. AskedIsLit'
    <3>1. ASSUME asked \in Scenes PROVE IsOn(asked, lights)
      BY <1>1, <2>3, <3>1 DEF BedroomInv, OnTheWay, IsOn
    <3>2. ASSUME asked = "dark" PROVE ~AllLights
      <4>1. f.to = "off" /\ \A m \in Lights : lights[m] = "off" \/ IsLeft(f, m)
        BY <1>1, <3>2 DEF BedroomInv, OnTheWay
      <4>2. \A m : Wanted(f, m) = "off"
        BY <4>1, SceneNames DEF Wanted, Values
      <4>3. QED
        BY <2>3, <4>1, <4>2 DEF AllLights
    <3>3. QED
      BY <1>1, <3>1, <3>2 DEF AskedIsLit, AllLights
  <2>6. BedroomTypeOK' /\ MembersOnly' /\ OnTheWay' /\ InnerIsLit'
    BY <1>1, <2>1 DEF BedroomInv, BedroomTypeOK, MembersOnly, OnTheWay, InnerIsLit
  <2>7. CycleIsAhead'
    BY <1>1, <2>4 DEF CycleIsAhead, Matches
  <2>8. Outcome' = Outcome
    BY <1>1, <2>1, <2>3 DEF Outcome
  <2>9. QED
    BY <2>5, <2>6, <2>7, <2>8 DEF BedroomInv
<1>4. QED
  BY <1>1, <1>2, <1>3

\* The initial state.
LEMMA BedroomInitInv ==
  ASSUME BedroomInit
  PROVE  BedroomInv
<1>1. "off" \in Values /\ "allOff" \in Scenes
  BY SceneNames DEF Values
<1>2. \A l \in Members : lights[l] = OnValue("allOff", l)
  BY <1>1, SceneValues, SomeMembers DEF BedroomInit
<1>3. sets = <<>> /\ sets \in Seq(SetInProgress) /\ Len(sets) = 0 /\ DOMAIN sets = {}
  BY DEF BedroomInit
<1>4. BedroomTypeOK
  BY <1>1, <1>3 DEF BedroomInit, BedroomTypeOK
<1>5. CycleIsAhead
  BY <1>1, <1>2, MatchesLit DEF BedroomInit, CycleIsAhead, IsOn
<1>6. AskedIsLit
  BY SceneNames DEF BedroomInit, AskedIsLit
<1>7. MembersOnly /\ InnerIsLit /\ OnTheWay
  BY <1>3 DEF MembersOnly, InnerIsLit, OnTheWay
<1>8. QED
  BY <1>4, <1>5, <1>6, <1>7 DEF BedroomInv

\* The invariant holds in every reachable state.
LEMMA BedroomInvariant == BedroomSpec => []BedroomInv
<1>1. BedroomInv /\ UNCHANGED bedroomVars => BedroomInv'
  BY DEF bedroomVars, BedroomInv, BedroomTypeOK, MembersOnly, InnerIsLit, IsOn, CycleIsAhead,
         Matches, OnTheWay, IsLeft, AskedIsLit, Quiet, AllLights
<1>2. BedroomInv /\ [BedroomNext]_bedroomVars => BedroomInv'
  BY <1>1, StepKeeps, ReturnKeeps, ButtonsKeep, WebKeeps DEF BedroomNext
<1>3. QED
  BY BedroomInitInv, <1>2, PTL DEF BedroomSpec

\* Whatever lights and groups the web sets, the cycle stands at the scene that is to be
\* seen (mrpelz-bedroom.ts 688-697).
THEOREM CycleFollowsLights == BedroomSpec => []CycleFollows
<1>1. BedroomInv => CycleFollows
  <2>1. Quiet => Len(sets) # 1
    BY DEF Quiet
  <2>2. QED
    BY <2>1 DEF BedroomInv, CycleIsAhead, Matches, CycleFollows
<1>2. QED
  BY BedroomInvariant, <1>1, PTL

\* The scene that was asked for is the one that is lit in the end (mrpelz-bedroom.ts
\* 684-697, actuators.ts 593-610).
THEOREM AskedForIsLit == BedroomSpec => []AskedIsLit
<1>1. BedroomInv => AskedIsLit
  BY DEF BedroomInv
<1>2. QED
  BY BedroomInvariant, <1>1, PTL

\* The observers of scenes and cycle call each other once at most (mrpelz-bedroom.ts
\* 688-697).
THEOREM CallsAreBounded == BedroomSpec => []NoPingPong
<1>1. BedroomInv => NoPingPong
  BY DEF BedroomInv, BedroomTypeOK, NoPingPong
<1>2. QED
  BY BedroomInvariant, <1>1, PTL

\* Once a set has begun nothing that it calls changes what the lights will be
\* (mrpelz-bedroom.ts 684-701, actuators.ts 593-613).
THEOREM SetsAreSettled == BedroomSpec => OutcomeIsSettled
<1>1. Buttons \/ Web => Quiet
  <2>1. Buttons => Quiet
    BY DEF Buttons, BedButtonLeft, BedButtonMiddle, BedButtonRight, RoomButton,
           MultiButtonTopLeft, MultiButtonTopRight, MultiButtonBottomLeft,
           MultiButtonBottomRight, WallswitchDoorLeft, WallswitchDoorMiddle,
           WallswitchDoorRight, LongPress, FlipButton, OffOrElse, CycleNext,
           CyclePrevious, Steer, TurnSceneOn, TurnAllOff
  <2>2. Web => Quiet
    BY DEF Web, SetLight, SetGroup, TurnSceneOn, TurnSceneOff
  <2>3. QED
    BY <2>1, <2>2
<1>2. BedroomInv /\ [BedroomNext]_bedroomVars => [~Quiet => Outcome' = Outcome]_bedroomVars
  BY <1>1, StepKeeps, ReturnKeeps DEF BedroomNext
<1>3. QED
  BY BedroomInvariant, <1>2, PTL DEF BedroomSpec, OutcomeIsSettled

-----------------------------------------------------------------------------
(* The bathrooms.                                                          *)

BathroomsTypeOK ==
  /\ room \in {"mrpelzBathroom", "tsiaBathroom"}
  /\ online \subseteq BathroomLights
  /\ phase \in Phases
  /\ heating \in BOOLEAN

BathroomsInv == BathroomsTypeOK /\ AutoLightReaches /\ HeatingFollows

\* All lights are out of the question only if nothing at all is online.
LEMMA NothingPossible ==
  ASSUME BathroomsTypeOK, online # {}
  PROVE  BathroomLights \cap online # {}
BY DEF BathroomsTypeOK

\* The scene of a phase whose devices have been asked for lights one of them, but for
\* the two mismatches of scenes and devices.
LEMMA SceneReaches ==
  ASSUME BathroomsTypeOK, NEW p \in Possible
  PROVE  \/ Lighting[p] \cap online # {}
         \/ /\ room = "mrpelzBathroom" /\ phase = Night
            /\ "nightLight" \in online /\ "mirrorLed" \notin online
         \/ room = "tsiaBathroom" /\ ~({"mirrorLed", "nightLight"} \subseteq online)
<1>1. p \in 1..5 /\ phase \in 1..5 /\ p >= phase /\ AskedFor[p] \cap online # {}
  BY DEF Possible, Phases, BathroomsTypeOK
<1>2. CASE room = "mrpelzBathroom"
  <2>1. Lighting[p] = MrpelzLighting[p]
    BY <1>2 DEF Lighting
  <2>2. CASE p = 1
    <3>1. phase = 1 /\ AskedFor[1] = {"nightLight"} /\ MrpelzLighting[1] = {"mirrorLed"}
      BY <1>1, <2>2 DEF AskedFor, MrpelzLighting
    <3>2. QED
      BY <1>1, <1>2, <2>1, <2>2, <3>1 DEF Night
  <2>3. CASE p # 1
    <3>1. AskedFor[p] = MrpelzLighting[p]
      BY <1>1, <2>3 DEF AskedFor, MrpelzLighting
    <3>2. QED
      BY <1>1, <2>1, <3>1
  <2>4. QED
    BY <2>2, <2>3
<1>3. CASE room = "tsiaBathroom"
  <2>1. Lighting[p] = TsiaLighting[p]
    BY <1>3 DEF Lighting
  <2>2. CASE p = 1 \/ p = 2
    <3>1. Lighting[p] = {"mirrorLed"} \/ Lighting[p] = {"nightLight"}
      BY <2>1, <2>2 DEF TsiaLighting
    <3>2. QED
      BY <1>3, <3>1
  <2>3. CASE p = 3 \/ p = 4 \/ p = 5
    <3>1. "mirrorLed" \in Lighting[p]
      BY <2>1, <2>3 DEF TsiaLighting
    <3>2. QED
      BY <1>3, <3>1
  <2>4. QED
    BY <1>1, <2>2, <2>3
<1>4. QED
  BY <1>2, <1>3 DEF BathroomsTypeOK

\* autoLight reaches a device that is online.
LEMMA AutoLightKeeps ==
  ASSUME BathroomsInv, AutoLight
  PROVE  AutoLightReaches'
<1>1. UNCHANGED <<room, online, phase>> /\ BathroomsTypeOK
  BY DEF AutoLight, BathroomsInv
<1>2. CASE Possible = {}
  <2>1. lit' = BathroomLights
    BY <1>2 DEF AutoLight, LightsBecome
  <2>2. QED
    BY <1>1, <2>1, NothingPossible DEF AutoLightReaches
<1>3. CASE Possible # {}
  <2>1. PICK p \in Possible : lit' = Lighting[p]
    BY <1>3 DEF AutoLight, LightsBecome
  <2>2. QED
    BY <1>1, <2>1, SceneReaches DEF AutoLightReaches
<1>4. QED
  BY <1>2, <1>3

\* Whatever becomes of the lights, the heating follows or is left alone.
LEMMA LightsBecomeKeeps ==
  ASSUME BathroomsInv, NEW s, LightsBecome(s), UNCHANGED <<room, linked>>
  PROVE  HeatingFollows' /\ heating' \in BOOLEAN
<1>1. lit' = s /\ heating \in BOOLEAN /\ HeatingFollows
  BY DEF LightsBecome, BathroomsInv, BathroomsTypeOK
<1>2. CASE heating' = (s # {})
  BY <1>1, <1>2 DEF HeatingFollows
<1>3. CASE /\ room = "mrpelzBathroom" /\ linked => (lit = {}) = (s = {})
           /\ UNCHANGED <<heating, byHand>>
  BY <1>1, <1>3 DEF HeatingFollows
<1>4. QED
  BY <1>2, <1>3 DEF LightsBecome

\* Every step keeps the invariant.
LEMMA BathroomsKept ==
  ASSUME BathroomsInv, [BathroomsNext]_bathroomVars
  PROVE  BathroomsInv'
<1>1. CASE AutoLight
  <2>1. \E s : LightsBecome(s)
    BY <1>1 DEF AutoLight
  <2>2. UNCHANGED <<room, online, phase, linked>>
    BY <1>1 DEF AutoLight
  <2>3. QED
    BY <1>1, <2>1, <2>2, AutoLightKeeps, LightsBecomeKeeps DEF BathroomsInv, BathroomsTypeOK
<1>2. ASSUME NEW s, LightsBecome(s), auto' = "no", UNCHANGED <<room, online, phase, linked>>
      PROVE  BathroomsInv'
  BY <1>2, LightsBecomeKeeps DEF BathroomsInv, BathroomsTypeOK, AutoLightReaches
<1>3. ASSUME NEW b \in BOOLEAN, SetAllLights(b) PROVE BathroomsInv'
  BY <1>2, <1>3 DEF SetAllLights
<1>4. ASSUME NEW p \in Phases, NEW b \in BOOLEAN, SetScene(p, b) PROVE BathroomsInv'
  BY <1>2, <1>4 DEF SetScene
<1>5. ASSUME NEW l \in BathroomLights, Flip(l) PROVE BathroomsInv'
  BY <1>2, <1>5 DEF Flip
<1>6. ASSUME NEW b \in BOOLEAN, SetAllThings(b) PROVE BathroomsInv'
  <2>1. HeatingFollows'
    <3>1. BathroomLights # {}
      BY DEF BathroomLights
    <3>2. QED
      BY <1>6, <3>1 DEF SetAllThings, HeatingFollows
  <2>2. QED
    BY <1>6, <2>1 DEF SetAllThings, BathroomsInv, BathroomsTypeOK, AutoLightReaches
<1>7. CASE FlipHeating \/ FlipLinkage
  BY <1>7
     DEF FlipHeating, FlipLinkage, BathroomsInv, BathroomsTypeOK, AutoLightReaches, HeatingFollows
<1>8. ASSUME NEW l \in BathroomLights, DeviceComesOrGoes(l) PROVE BathroomsInv'
  BY <1>8 DEF DeviceComesOrGoes, BathroomsInv, BathroomsTypeOK, AutoLightReaches, HeatingFollows
<1>9. CASE SunMoves
  BY <1>9 DEF SunMoves, BathroomsInv, BathroomsTypeOK, AutoLightReaches, HeatingFollows
<1>10. CASE UNCHANGED bathroomVars
  BY <1>10 DEF bathroomVars, BathroomsInv, BathroomsTypeOK, AutoLightReaches, HeatingFollows
<1>11. QED
  BY <1>1, <1>3, <1>4, <1>5, <1>6, <1>7, <1>8, <1>9, <1>10 DEF BathroomsNext

\* The invariant holds in every reachable state.
LEMMA BathroomsInvariant == BathroomsSpec => []BathroomsInv
<1>1. BathroomsInit => BathroomsInv
  BY DEF BathroomsInit, BathroomsInv, BathroomsTypeOK, AutoLightReaches, HeatingFollows
<1>2. BathroomsInv /\ [BathroomsNext]_bathroomVars => BathroomsInv'
  BY BathroomsKept
<1>3. QED
  BY <1>1, <1>2, PTL DEF BathroomsSpec

\* However many devices come and go before, autoLight reaches one that is online, but
\* for the two exceptions (mrpelz-bathroom.ts 602-687, tsia-bathroom.ts 176-239).
THEOREM AutoLightReachesSome == BathroomsSpec => []AutoLightReaches
<1>1. BathroomsInv => AutoLightReaches
  BY DEF BathroomsInv
<1>2. QED
  BY BathroomsInvariant, <1>1, PTL

\* The heating follows the lights over any sequence of scenes, groups and moments in
\* the dark (mrpelz-bathroom.ts 586-600).
THEOREM HeatingFollowsLights == BathroomsSpec => []HeatingFollows
<1>1. BathroomsInv => HeatingFollows
  BY DEF BathroomsInv
<1>2. QED
  BY BathroomsInvariant, <1>1, PTL

=============================================================================
