------------------------------ MODULE Polling ------------------------------
(***************************************************************************)
(* A Schedule and what its tasks do: measure with a Sensor, ask for the    *)
(* ExternalState of a machine, write to the socket of a TcpClient, or let  *)
(* the LEDs of the Terrarium follow the sun. In between anything may       *)
(* happen. What is not polled keeps its first state, and has but one.      *)
(***************************************************************************)
EXTENDS Sensor, ExternalState, TcpClient, Terrarium

VARIABLE polled  \* "sensor", "external", "socket" or "terrarium"; never changes

vars == <<polled, scheduleVars, sensorVars, externalVars, clientVars, terrariumVars>>

Init ==
  /\ polled \in {"sensor", "external", "socket", "terrarium"}
  /\ ScheduleInit
  /\ SensorInit
  /\ ExternalInit
  /\ ClientInit
  /\ TerrariumInit
  /\ polled # "external" => machine = "avr" /\ power = "off"
  /\ polled # "socket" => ~queried
  /\ polled # "terrarium" => sun = 0

\* _run and what follows it. A task that throws skips those added after it.
Execute ==
  /\ Rescheduled
  /\ \/ /\ polled = "sensor"
        /\ Get \/ Skip
        /\ UNCHANGED <<externalVars, clientVars, terrariumVars>>
     \/ /\ polled = "external"
        /\ Reevaluate
        /\ UNCHANGED <<sensorVars, clientVars, terrariumVars>>
     \/ /\ polled = "socket"
        /\ Query
        /\ UNCHANGED <<sensorVars, externalVars, terrariumVars>>
     \/ /\ polled = "terrarium"
        /\ TerrariumTasks
        /\ UNCHANGED <<sensorVars, externalVars, clientVars>>
  /\ UNCHANGED polled

\* The schedule goes on without an execution.
Resume ==
  /\ CarriedOver \/ HeldOff
  /\ excused' = (excused \/ due' = "holdoff")
  /\ UNCHANGED <<polled, online, value, stale, staleness, open, externalVars, clientVars,
                 terrariumVars>>

Tick ==
  /\ ScheduleTick
  /\ SensorTick
  /\ IF polled = "socket" THEN ClientTick ELSE UNCHANGED clientVars
  /\ UNCHANGED <<polled, externalVars, terrariumVars>>

SensorStep ==
  /\ polled = "sensor"
  /\ \/ \E r \in Requests : Answered(r) \/ Failed(r)
     \/ Online \/ Offline
     \/ StalenessRunout
  /\ UNCHANGED <<polled, scheduleVars, externalVars, clientVars, terrariumVars>>

\* What the machine and its connection do, and what becomes of calls under way.
MachineStep ==
  \/ \E c \in Calls : Obeys(c) \/ Answers(c) \/ GetterReturns(c)
  \/ \E c \in Calls : CommandLost(c) \/ GetterFails(c)
  \/ Switched \/ Reachability

External ==
  /\ polled = "external"
  /\ UNCHANGED <<polled, scheduleVars, sensorVars, clientVars, terrariumVars>>

ExternalStep ==
  /\ \/ MachineStep
     \/ \E s \in States : SetState(s)
     \/ ScheduledReassert
  /\ External

Socket ==
  /\ polled = "socket"
  /\ UNCHANGED <<polled, scheduleVars, sensorVars, externalVars, terrariumVars>>

SocketStep == ClientStep /\ Socket

RoomStep ==
  /\ polled = "terrarium"
  /\ TerrariumStep
  /\ UNCHANGED <<polled, scheduleVars, sensorVars, externalVars, clientVars>>

Next ==
  \/ Execute \/ Resume \/ Tick
  \/ SensorStep \/ ExternalStep \/ SocketStep \/ RoomStep

Spec == Init /\ [][Next]_vars

\* Time goes on, what is due happens, and requests come to an end; the other schedule
\* executes again and again, and so does the interval of the socket. A peer that is up
\* accepts in the end, and resets a connection it does not know.
Settles == SensorStep /\ \E r \in Requests : Answered(r) \/ Failed(r)
Goes(c) == External /\ Obeys(c)
Asks(c) == External /\ Answers(c)
Comes(c) == External /\ GetterReturns(c)
Reasserts == External /\ ScheduledReassert
Watches == Socket /\ Interval
Accepts == Socket /\ SocketConnects
Resets == Socket /\ socket = "reset" /\ peerUp /\ SocketCloses

Fairness ==
  /\ WF_vars(Execute) /\ WF_vars(Resume) /\ WF_vars(Tick)
  /\ WF_vars(Settles) /\ WF_vars(SensorStep /\ StalenessRunout)
  /\ \A c \in Calls : WF_vars(Goes(c)) /\ WF_vars(Asks(c)) /\ WF_vars(Comes(c))
  /\ SF_vars(Reasserts)
  /\ WF_vars(Watches) /\ SF_vars(Accepts) /\ WF_vars(Resets)

FairSpec == Spec /\ Fairness

-----------------------------------------------------------------------------
(* Properties.                                                             *)

\* A sensor that answers is never stale: the timer is long enough for the time between
\* two outcomes, however late in an execution the first and however late the second
\* comes, and whatever is measured (sensors.ts 113-135, schedule.ts 61-103).
LiveSensorIsFresh == ~excused => ~stale

\* A sensor that is not measured any more becomes stale, though its value may stay
\* (sensors.ts 122-135).
SilentSensorGoesStale ==
  <>[][\A r \in Requests : ~Answered(r)]_vars => <>[]stale

\* What the schedule tells the machine is what somebody has wished, and never takes
\* back what was done at the machine itself, once it has been heard of
\* (external-state.ts 87-141).
WishesOnly == setState # actualState /\ actualState # "null" => by = "user"

\* Left alone, what is wished, what is heard and what is agree in the end, whatever
\* sets, answers and switchings came in whatever order before (external-state.ts 42-62,
\* 79-141).
Disturbs ==
  \/ /\ externalVars' # externalVars
     /\ \/ \E s \in States \ {setState} : SetState(s)
        \/ \E c \in Calls : (CommandLost(c) /\ setter[c] # power) \/ GetterFails(c)
        \/ Switched \/ Reachability
  \/ due # "holdoff" /\ due' = "holdoff"

Converges ==
  polled = "external" /\ <>[]reachable /\ <>[][~Disturbs]_vars =>
    <>[](setState = actualState /\ actualState = power)

\* A socket that is wanted connects again and again while the other side is there: a
\* connection the other side has lost does not stay for good, be it read or written
\* (tcp-client.ts 55-120).
KeepsListening ==
  polled = "socket" /\ <>[](wanted /\ peerUp) => []<>(socket = "open")

\* What is wished and what the LEDs show are the same while they are overridden, and
\* the LEDs show the sun otherwise, whatever buttons, media, timer, web and schedule
\* did in whatever order (living-room.ts 424-510, util.ts 111-192).
LedsFollow ==
  /\ override => leds.wish = leds.brightness
  /\ ~override /\ ledsOnline /\ ~moved => leds.brightness = sun

=============================================================================
