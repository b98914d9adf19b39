---------------------------- MODULE StorageRoom ----------------------------
(***************************************************************************)
(* The storage room: a room with automatedInputLogic, in which a bridge    *)
(* tells when washer and dryer start and end. Their end is notified by a   *)
(* loudspeaker, one notification for both, unless somebody is there. Who   *)
(* comes in, a machine that starts, the web, or a timeout end it.          *)
(*                                                                         *)
(* What the loudspeaker answers is not looked at. The clock is read at     *)
(* each message: at night, from midnight to six, it is ignored.            *)
(***************************************************************************)
EXTENDS BathroomLight

CONSTANT Appliances   \* washer and dryer

VARIABLES
  hasBridge,     \* is the room elsewhere the storage room? never changes
  isRunning,     \* isRunning[m]: "yes", "no" or "null"
  notified,      \* washerDryerNotification
  notifies,      \* washerDryerNotificationEnable
  timeouts,      \* timeouts of notificationPlayTimeout that are to come
  cause          \* history: of the notification, a "machine" or the "web"; "night" if
                 \* a message has been ignored since

bridgeVars == <<isRunning, notified, notifies, timeouts, cause>>
storageVars == <<roomVars, hasBridge, bridgeVars>>

\* Variant: the timeout is not cleared.
BugUncleared(b, by) ==
  /\ notified' = b
  /\ timeouts' = IF b THEN 1 ELSE timeouts
  /\ cause' = IF b = notified THEN cause ELSE by

\* washerDryerNotification.set(b): its observer runs if it changes, clears the timeout
\* and starts another.
Notify(b, by) ==
  /\ notified' = b
  /\ IF b = notified THEN UNCHANGED <<timeouts, cause>>
                     ELSE timeouts' = (IF b THEN 1 ELSE 0) /\ cause' = by

-----------------------------------------------------------------------------
StorageInit ==
  /\ RoomInit
  /\ hasBridge \in BOOLEAN
  /\ hasBridge => place = "elsewhere"
  /\ isRunning = [m \in Appliances |-> "null"]
  /\ notified = FALSE
  /\ notifies = TRUE
  /\ timeouts = 0
  /\ cause = "web"

\* A message of the bridge, which starts or ends what m does. That it has ended is
\* not notified while the light is on.
Message(m, v) ==
  /\ isRunning' = [isRunning EXCEPT ![m] = v]
  /\ IF v = isRunning[m] \/ ~notifies \/ (on /\ v = "no")
       THEN UNCHANGED <<notified, timeouts, cause>>
       ELSE \/ Notify(v = "no", "machine")
            \/ cause' = "night" /\ UNCHANGED <<notified, timeouts>>
  /\ UNCHANGED notifies

PlayTimeout ==
  /\ timeouts > 0
  /\ Notify(FALSE, "machine")
  /\ UNCHANGED <<isRunning, notifies>>

\* The two scenes.
SetNotification(b) == Notify(b, "web") /\ UNCHANGED <<isRunning, notifies>>

SetNotifies(b) ==
  /\ notifies' = b
  /\ IF b \/ b = notifies THEN UNCHANGED <<notified, timeouts, cause>> ELSE Notify(FALSE, "web")
  /\ UNCHANGED isRunning

\* Motion or the opened door, once the logic of the room has seen it.
Entered ==
  /\ IF \E i \in Inputs : input'[i] /\ ~input[i]
       THEN Notify(FALSE, "web")
       ELSE UNCHANGED <<notified, timeouts, cause>>
  /\ UNCHANGED <<isRunning, notifies>>

Bridge ==
  \/ \E m \in Appliances, v \in {"yes", "no"} : Message(m, v)
  \/ PlayTimeout
  \/ \E b \in BOOLEAN : SetNotification(b) \/ SetNotifies(b)

\* Bound: in the storage room nobody disables the timers, nor enables or disables the
\* automation for good.
Untouched == UNCHANGED enables /\ output'.isEnabled /\ automation'.isEnabled

StorageNext ==
  /\ \/ ~hasBridge /\ RoomNext /\ UNCHANGED bridgeVars
     \/ hasBridge /\ RoomNext /\ Untouched /\ Entered
     \/ hasBridge /\ Bridge /\ UNCHANGED roomVars
  /\ UNCHANGED hasBridge

\* The timers of the light as in RoomSpec.
StorageSpec ==
  /\ StorageInit
  /\ [][StorageNext]_storageVars
  /\ WF_vars(OutputRunout /\ UNCHANGED <<place, guardVars>>)
  /\ WF_vars(AutomationRunout /\ UNCHANGED <<place, guardVars>>)

-----------------------------------------------------------------------------
(* Properties, besides those of the light.                                 *)

\* A notification plays for its time and is then over: exactly one timeout is to come,
\* and none is left that would cut the next one short. It says that some machine has
\* ended and stands still, though it may be the other one than the one that started it
\* (storage-room.ts 218-293).
NotifiesOfEnd ==
  /\ timeouts = IF notified THEN 1 ELSE 0
  /\ notified /\ cause = "machine" => \E m \in Appliances : isRunning[m] = "no"

=============================================================================
