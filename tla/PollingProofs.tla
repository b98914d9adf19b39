--------------------------- MODULE PollingProofs ---------------------------
(***************************************************************************)
(* The safety of Polling for every period, holdoff and timeout of the      *)
(* schedule and any number of requests and calls. WishesOnly and           *)
(* LedsFollow are inductive as they stand. That a sensor is fresh rests on *)
(* the bounds of the schedule and on how long the timer of the metric      *)
(* still runs: longer than the next execution takes to come, or longer     *)
(* than a request that is open takes to time out.                          *)
(*                                                                         *)
(* Nor does anything that the schedule and the interval drive come to a    *)
(* halt: connections are watched for silence from their first moment on,   *)
(* and each flag that holds calls back is cleared by a call under way.     *)
(***************************************************************************)
EXTENDS Polling, TLAPS

\* The next execution is at most a period ahead, and never waited for beyond it.
Timed ==
  /\ clock \in 0..(Period - 1)
  /\ due \in {"execution", "holdoff", "carry"}
  /\ wait \in Nat
  /\ date \in Nat
  /\ due # "holdoff" => date <= Period /\ wait <= date
  /\ due = "execution" => wait = date

\* The timers of sensor and requests count in whole ticks.
Counting ==
  /\ staleness \in {None} \cup Nat
  /\ open \in [Requests -> {None} \cup Nat]

\* What is left of the timer is more than what is left until the next outcome.
Covered ==
  ~excused =>
    /\ due # "holdoff"
    /\ ~stale
    /\ staleness # None
    /\ \/ staleness >= date + Grace
       \/ \E r \in Requests : open[r] # None /\ open[r] < staleness

\* A sensor that is not polled has nothing to show.
Unpolled == polled # "sensor" => excused

Fresh == Timed /\ Counting /\ Covered /\ Unpolled

IInv == Fresh /\ WishesOnly /\ LedsFollow

-----------------------------------------------------------------------------
(* The schedule.                                                           *)

\* What the provider answers lies at most a period ahead.
LEMMA CeilBounds ==
  ASSUME Timed, NEW d \in Ceil
  PROVE  d \in 0..Period
BY ScheduleAssumption DEF Timed, Ceil

\* A date within the period is waited for within it.
LEMMA ScheduleAtKeeps ==
  ASSUME NEW d \in 0..Period, ScheduleAt(d)
  PROVE  /\ date' = d
         /\ due' \in {"execution", "carry"}
         /\ wait' \in 0..d
         /\ due' = "execution" => wait' = d
BY ScheduleAssumption DEF ScheduleAt

\* So it is for what follows an execution or a holdoff.
LEMMA ScheduleNextKeeps ==
  ASSUME Timed, ScheduleNext, clock' = clock
  PROVE  Timed'
<1>1. CASE \E d \in Ceil : ScheduleAt(d)
  <2>1. PICK d \in Ceil : ScheduleAt(d)
    BY <1>1
  <2>2. d \in 0..Period
    BY CeilBounds
  <2>3. QED
    BY <2>1, <2>2, ScheduleAtKeeps, ScheduleAssumption DEF Timed
<1>2. CASE HoldOff
  BY <1>2, ScheduleAssumption DEF HoldOff, Timed
<1>3. QED
  BY <1>1, <1>2 DEF ScheduleNext

\* A tick brings clock, timeout and date forward together.
LEMMA TickKeeps ==
  ASSUME Timed, ScheduleTick
  PROVE  /\ Timed'
         /\ due' = due
         /\ due # "holdoff" => date' = date - 1 /\ date > 0
<1>1. clock' \in 0..(Period - 1)
  BY ScheduleAssumption DEF Timed, ScheduleTick
<1>2. wait' = wait - 1 /\ wait > 0 /\ due' = due /\ wait \in Nat /\ date \in Nat
  BY DEF Timed, ScheduleTick
<1>3. due # "holdoff" => wait <= date /\ date <= Period /\ date' = date - 1
  BY DEF Timed, ScheduleTick
<1>4. due = "holdoff" => date' = 0
  BY DEF ScheduleTick
<1>5. QED
  BY <1>1, <1>2, <1>3, <1>4, ScheduleAssumption DEF Timed

\* Whatever step the schedule takes, its bounds stay.
LEMMA TimedKept ==
  ASSUME Timed, [Next]_vars
  PROVE  Timed'
<1>1. CASE UNCHANGED scheduleVars
  BY <1>1 DEF Timed, scheduleVars
<1>2. CASE Execute
  BY <1>2, ScheduleNextKeeps DEF Execute, Rescheduled
<1>3. CASE Resume
  <2>1. CASE HeldOff
    BY <2>1, ScheduleNextKeeps DEF HeldOff
  <2>2. CASE CarriedOver
    BY <2>2, ScheduleAtKeeps, ScheduleAssumption DEF CarriedOver, Timed
  <2>3. QED
    BY <1>3, <2>1, <2>2 DEF Resume
<1>4. CASE Tick
  BY <1>4, TickKeeps DEF Tick
<1>5. CASE SensorStep \/ ExternalStep \/ SocketStep \/ RoomStep
  BY <1>1, <1>5 DEF SensorStep, ExternalStep, External, SocketStep, Socket, RoomStep
<1>6. QED
  BY <1>1, <1>2, <1>3, <1>4, <1>5 DEF Next, vars

-----------------------------------------------------------------------------
(* The sensor.                                                             *)

\* A measurement arrives: the timer outlasts the next execution by its grace.
LEMMA SuccessKeeps ==
  ASSUME Timed, Counting, NEW v \in Readings, Success(v),
         open' \in [Requests -> {None} \cup Nat], UNCHANGED scheduleVars
  PROVE  Counting' /\ Covered'
<1>1. staleness' = Period + Grace /\ stale' = FALSE /\ excused' = (due = "holdoff")
  BY SensorAssumption DEF Success, SetValue
<1>2. date' = date /\ due' = due
  BY DEF scheduleVars
<1>3. due # "holdoff" => staleness' >= date' + Grace
  BY <1>1, <1>2, ScheduleAssumption, SensorAssumption DEF Timed
<1>4. staleness' \in Nat
  BY <1>1, ScheduleAssumption, SensorAssumption
<1>5. Counting'
  BY <1>4 DEF Counting
<1>6. staleness' # None
  BY <1>4 DEF None
<1>7. ~excused' => due' # "holdoff" /\ ~stale'
  BY <1>1, <1>2
<1>8. ~excused' => staleness' >= date' + Grace
  BY <1>1, <1>3
<1>9. QED
  BY <1>5, <1>6, <1>7, <1>8 DEF Covered

\* A failure is an excuse.
LEMMA FailureKeeps ==
  ASSUME Counting, Failure, open' \in [Requests -> {None} \cup Nat]
  PROVE  Counting' /\ Covered' /\ excused' = TRUE
<1>1. excused' = TRUE /\ staleness' = Period + Grace
  BY DEF Failure, SetValue
<1>2. staleness' \in Nat
  BY <1>1, ScheduleAssumption, SensorAssumption
<1>3. QED
  BY <1>1, <1>2 DEF Counting, Covered

\* An execution: the request it issues times out before the timer runs out.
LEMMA ExecuteKeeps ==
  ASSUME Fresh, Execute
  PROVE  Counting' /\ Covered' /\ Unpolled'
<1>1. CASE polled = "sensor" /\ Get
  <2>0. polled' = polled
    BY DEF Execute
  <2>1. CASE online
    <3>1. PICK r \in Requests : open[r] = None /\ open' = [open EXCEPT ![r] = Timeout]
      BY <1>1, <2>1 DEF Get
    <3>2. /\ excused' = (excused \/ due' = "holdoff")
          /\ UNCHANGED <<stale, staleness>>
      BY <1>1, <2>1 DEF Get
    <3>3. Counting'
      BY <3>1, <3>2, SensorAssumption DEF Fresh, Counting
    <3>4. ASSUME ~excused'
          PROVE  /\ due' # "holdoff" /\ ~stale' /\ staleness' # None
                 /\ \E q \in Requests : open'[q] # None /\ open'[q] < staleness'
      <4>1. ~excused /\ due' # "holdoff"
        BY <3>2, <3>4
      <4>2. ~stale' /\ staleness' # None
        BY <3>2, <4>1 DEF Fresh, Covered
      <4>3. CASE staleness >= date + Grace
        <5>1. date \in Nat /\ staleness \in Int
          BY DEF Fresh, Timed, Counting, None
        <5>2. open'[r] = Timeout
          BY <3>1 DEF Fresh, Counting
        <5>3. open'[r] # None /\ open'[r] < staleness'
          BY <3>2, <4>3, <5>1, <5>2, SensorAssumption DEF None
        <5>4. QED
          BY <4>1, <4>2, <5>3
      <4>4. CASE \E q \in Requests : open[q] # None /\ open[q] < staleness
        <5>1. PICK q \in Requests : open[q] # None /\ open[q] < staleness
          BY <4>4
        <5>2. open'[q] = open[q]
          BY <3>1, <5>1 DEF Fresh, Counting
        <5>3. QED
          BY <3>2, <4>1, <4>2, <5>1, <5>2
      <4>5. QED
        BY <4>1, <4>3, <4>4 DEF Fresh, Covered
    <3>5. QED
      BY <1>1, <2>0, <3>3, <3>4 DEF Covered, Unpolled
  <2>2. CASE ~online
    <3>1. Failure /\ open' = open
      BY <1>1, <2>2 DEF Get
    <3>2. QED
      BY <1>1, <2>0, <3>1, FailureKeeps DEF Fresh, Counting, Unpolled
  <2>3. QED
    BY <2>1, <2>2
<1>2. CASE polled = "sensor" /\ Skip
  BY <1>2 DEF Skip, Fresh, Counting, Covered, Unpolled
<1>3. CASE polled # "sensor" /\ UNCHANGED sensorVars
  BY <1>3 DEF Execute, sensorVars, Fresh, Counting, Covered, Unpolled
<1>4. QED
  BY <1>1, <1>2, <1>3 DEF Execute

\* A tick: what is compared counts down together.
LEMMA TickCovers ==
  ASSUME Fresh, Tick
  PROVE  Counting' /\ Covered' /\ Unpolled'
<1>1. /\ due' = due
      /\ due # "holdoff" => date' = date - 1 /\ date > 0
  BY TickKeeps DEF Fresh, Tick
<1>2. /\ staleness' = Counted(staleness)
      /\ open' = [r \in Requests |-> Counted(open[r])]
      /\ staleness # 0 /\ \A r \in Requests : open[r] # 0
      /\ UNCHANGED <<polled, stale, excused>>
  BY DEF Tick, SensorTick
<1>3. Counting'
  BY <1>2 DEF Fresh, Counting, Counted, None
<1>4. ASSUME ~excused
      PROVE  staleness' = staleness - 1 /\ staleness \in Nat
  BY <1>2, <1>4 DEF Fresh, Covered, Counting, Counted, None
<1>5. CASE ~excused /\ staleness >= date + Grace
  <2>1. staleness' >= date' + Grace
    BY <1>1, <1>4, <1>5, SensorAssumption DEF Fresh, Timed, Covered
  <2>2. QED
    BY <1>1, <1>2, <1>3, <1>4, <1>5, <2>1 DEF Fresh, Covered, Unpolled, None, Counting
<1>6. CASE ~excused /\ \E r \in Requests : open[r] # None /\ open[r] < staleness
  <2>1. PICK r \in Requests : open[r] # None /\ open[r] < staleness
    BY <1>6
  <2>2. open'[r] = open[r] - 1 /\ open[r] \in Nat /\ open[r] > 0
    BY <1>2, <2>1 DEF Fresh, Counting, Counted, None
  <2>3. open'[r] # None /\ open'[r] < staleness'
    BY <1>4, <1>6, <2>1, <2>2 DEF None
  <2>4. QED
    BY <1>1, <1>2, <1>3, <1>4, <1>6, <2>3 DEF Fresh, Covered, Unpolled, None, Counting
<1>7. CASE excused
  BY <1>2, <1>3, <1>7 DEF Covered, Unpolled
<1>8. QED
  BY <1>5, <1>6, <1>7 DEF Fresh, Covered

\* What happens between executions: the timer does not run out on a sensor that has
\* answered.
LEMMA SensorStepCovers ==
  ASSUME Fresh, SensorStep
  PROVE  Counting' /\ Covered' /\ Unpolled'
<1>0. polled = "sensor" /\ polled' = polled /\ UNCHANGED scheduleVars
  BY DEF SensorStep
<1>1. ASSUME NEW r \in Requests, Answered(r)
      PROVE  Counting' /\ Covered'
  <2>1. PICK v \in Readings : Success(v)
    BY <1>1 DEF Answered
  <2>2. open' \in [Requests -> {None} \cup Nat]
    BY <1>1 DEF Answered, Fresh, Counting
  <2>3. QED
    BY <1>0, <2>1, <2>2, SuccessKeeps DEF Fresh
<1>2. ASSUME NEW r \in Requests, Failed(r)
      PROVE  Counting' /\ Covered'
  <2>1. open' \in [Requests -> {None} \cup Nat]
    BY <1>2 DEF Failed, Fresh, Counting
  <2>2. QED
    BY <1>2, <2>1, FailureKeeps DEF Failed, Fresh
<1>3. CASE Online
  BY <1>0, <1>3 DEF Online, scheduleVars, Fresh, Counting, Covered, Unpolled
<1>4. CASE Offline
  <2>1. open' \in [Requests -> {None} \cup Nat]
    BY <1>4 DEF Offline
  <2>2. QED
    BY <1>0, <1>4, <2>1, FailureKeeps DEF Offline, Fresh, Unpolled
<1>5. CASE StalenessRunout
  <2>1. staleness = 0 /\ staleness' = None /\ UNCHANGED <<open, excused>>
    BY <1>5 DEF StalenessRunout
  <2>2. Grace > 0 /\ Grace \in Nat /\ date \in Nat
    BY SensorAssumption DEF Fresh, Timed
  <2>3. \A r \in Requests : open[r] # None => open[r] \in Nat
    BY DEF Fresh, Counting
  <2>4. excused
    BY <2>1, <2>2, <2>3 DEF Fresh, Covered
  <2>5. QED
    BY <1>0, <2>1, <2>4 DEF Fresh, Counting, Covered, Unpolled
<1>6. QED
  BY <1>0, <1>1, <1>2, <1>3, <1>4, <1>5 DEF SensorStep, Unpolled

\* One step per action of Polling.
LEMMA FreshKept ==
  ASSUME Fresh, [Next]_vars
  PROVE  Fresh'
<1>1. Timed'
  BY TimedKept DEF Fresh
<1>2. CASE Execute
  BY <1>1, <1>2, ExecuteKeeps DEF Fresh
<1>3. CASE Tick
  BY <1>1, <1>3, TickCovers DEF Fresh
<1>4. CASE SensorStep
  BY <1>1, <1>4, SensorStepCovers DEF Fresh
<1>5. CASE Resume
  <2>1. /\ excused' = (excused \/ due' = "holdoff")
        /\ UNCHANGED <<polled, stale, staleness, open>>
    BY <1>5 DEF Resume
  <2>2. CASE HeldOff
    BY <1>1, <2>1, <2>2 DEF HeldOff, Fresh, Counting, Covered, Unpolled
  <2>3. CASE CarriedOver
    <3>1. date' = date
      BY <2>3 DEF CarriedOver, ScheduleAt
    <3>2. QED
      BY <1>1, <2>1, <3>1 DEF Fresh, Counting, Covered, Unpolled
  <2>4. QED
    BY <1>5, <2>2, <2>3 DEF Resume
<1>6. CASE UNCHANGED <<polled, scheduleVars, sensorVars>>
  BY <1>1, <1>6 DEF scheduleVars, sensorVars, Fresh, Counting, Covered, Unpolled
<1>7. QED
  BY <1>2, <1>3, <1>4, <1>5, <1>6
  DEF Next, vars, ExternalStep, External, SocketStep, Socket, RoomStep

-----------------------------------------------------------------------------
(* The machine.                                                            *)

\* What is heard is what is wanted then, or says nothing.
LEMMA HeardKeeps ==
  ASSUME WishesOnly, NEW s, Heard(s)
  PROVE  WishesOnly'
<1>1. CASE s \notin {"null", actualState}
  BY <1>1 DEF Heard, WishesOnly
<1>2. CASE s \in {"null", actualState}
  BY <1>2 DEF Heard, WishesOnly
<1>3. QED
  BY <1>1, <1>2

\* One step per action of the machine, and of those who want something of it.
LEMMA WishesKept ==
  ASSUME WishesOnly, [Next]_vars
  PROVE  WishesOnly'
<1>1. CASE UNCHANGED <<setState, actualState, by>>
  BY <1>1 DEF WishesOnly
<1>2. ASSUME NEW c \in Calls, Obeys(c) \/ Answers(c) \/ CommandLost(c)
      PROVE  WishesOnly'
  BY <1>1, <1>2 DEF Obeys, Answers, CommandLost
<1>3. ASSUME NEW c \in Calls, GetterReturns(c)
      PROVE  WishesOnly'
  BY <1>3, HeardKeeps DEF GetterReturns
<1>4. ASSUME NEW c \in Calls, GetterFails(c)
      PROVE  WishesOnly'
  BY <1>1, <1>4, HeardKeeps DEF GetterFails
<1>5. ASSUME NEW s \in States, SetState(s)
      PROVE  WishesOnly'
  BY <1>5 DEF SetState, WishesOnly
<1>6. CASE Switched \/ Reachability \/ ScheduledReassert \/ Reevaluate
  BY <1>1, <1>6 DEF Switched, Reachability, ScheduledReassert, Reevaluate
<1>7. CASE ExternalStep
  BY <1>2, <1>3, <1>4, <1>5, <1>6, <1>7 DEF ExternalStep, MachineStep
<1>8. CASE UNCHANGED externalVars
  BY <1>1, <1>8 DEF externalVars
<1>9. QED
  BY <1>6, <1>7, <1>8
  DEF Next, vars, Execute, Resume, Tick, SensorStep, SocketStep, Socket, RoomStep

-----------------------------------------------------------------------------
(* The terrarium.                                                          *)

\* Whoever overrides or ends it: the LEDs go dark, or follow the sun again.
LEMMA SetOverrideKeeps ==
  ASSUME LedsFollow, NEW b \in BOOLEAN, NEW t, SetOverride(b, t), UNCHANGED <<sun, ledsOnline>>
  PROVE  LedsFollow'
<1>1. CASE b = override
  BY <1>1 DEF SetOverride, LedsFollow
<1>2. CASE b # override /\ b
  BY <1>2 DEF SetOverride, LedsFollow, Darkened, Lit
<1>3. CASE b # override /\ ~b
  BY <1>3 DEF SetOverride, LedsFollow, Automated, Wished, Lit
<1>4. QED
  BY <1>1, <1>2, <1>3

\* A wish, which reaches the LEDs if they are overridden.
LEMMA WishKeeps ==
  ASSUME LedsFollow, NEW v, Wish(v)
  PROVE  LedsFollow'
BY DEF Wish, Wished, LedsFollow

\* The tasks of the schedule, all of them or only the first.
LEMMA TerrariumTasksKeep ==
  ASSUME LedsFollow, TerrariumTasks
  PROVE  LedsFollow'
<1>1. CASE override
  BY <1>1 DEF TerrariumTasks, Automated, LedsFollow
<1>2. CASE ~override
  <2>1. DEFINE reset == Wished(leds, 0, override)
  <2>2. reset.brightness = leds.brightness
    BY <1>2 DEF Wished
  <2>3. ledsOnline => Automated(reset, override).brightness = sun
    BY <1>2 DEF Automated, Lit
  <2>4. \/ leds' \in {leds, reset} /\ moved' = moved
        \/ leds' = Automated(reset, override) /\ moved' = FALSE
    BY <1>2 DEF TerrariumTasks
  <2>5. UNCHANGED <<override, sun, ledsOnline>>
    BY DEF TerrariumTasks
  <2>6. QED
    BY <1>2, <2>2, <2>3, <2>4, <2>5 DEF LedsFollow
<1>3. QED
  BY <1>1, <1>2

\* One step per action of the room.
LEMMA LedsKept ==
  ASSUME LedsFollow, [Next]_vars
  PROVE  LedsFollow'
<1>1. CASE UNCHANGED terrariumVars
  BY <1>1 DEF terrariumVars, LedsFollow
<1>2. CASE OverrideScene
  BY <1>2, SetOverrideKeeps DEF OverrideScene
<1>3. CASE OverrideRunout
  BY <1>3, SetOverrideKeeps DEF OverrideRunout
<1>4. CASE SetMedia
  <2>1. PICK b \in BOOLEAN :
          media' \in {[media EXCEPT !.avr = b], [media EXCEPT !.projector = b],
                     [avr |-> b, projector |-> b]}
    BY <1>4 DEF SetMedia
  <2>2. CASE On(media') # On(media)
    <3>1. SetOverride(On(media'), overrideTimer) /\ UNCHANGED <<sun, ledsOnline>>
      BY <1>4, <2>2 DEF SetMedia
    <3>2. On(media') \in BOOLEAN
      BY DEF On
    <3>3. QED
      BY <3>1, <3>2, SetOverrideKeeps
  <2>3. CASE On(media') = On(media)
    BY <1>4, <2>3 DEF SetMedia, LedsFollow
  <2>4. QED
    BY <2>2, <2>3
<1>5. CASE (\E v \in Levels : Wish(v)) \/ FlipWish
  BY <1>5, WishKeeps DEF FlipWish
<1>6. CASE TouchOverrideTimer \/ LedsGoOffline \/ SunGoesOn
  BY <1>6 DEF TouchOverrideTimer, LedsGoOffline, SunGoesOn, LedsFollow
<1>7. CASE LedsComeOnline
  BY <1>7 DEF LedsComeOnline, Lit, LedsFollow
<1>8. CASE TerrariumTasks
  BY <1>8, TerrariumTasksKeep
<1>9. CASE RoomStep
  BY <1>2, <1>3, <1>4, <1>5, <1>6, <1>7, <1>9 DEF RoomStep, TerrariumStep
<1>10. QED
  BY <1>1, <1>8, <1>9
  DEF Next, vars, Execute, Resume, Tick, SensorStep, ExternalStep, External, SocketStep, Socket

-----------------------------------------------------------------------------
(* The socket of a client.                                                 *)

\* The flags of the client say what becomes of its socket, and every connection is
\* watched: the time since something was heard or written is counted from its first
\* moment on.
ConnectionIsWatched ==
  /\ isConnecting \in BOOLEAN /\ isConnected \in BOOLEAN
  /\ isConnecting <=> socket = "connecting"
  /\ isConnected <=> socket \in Open
  /\ isConnected => silence \in 0..Silence

\* A client starts connecting, or a connection is dropped.
LEMMA SocketReplaced ==
  ASSUME ConnectionIsWatched, StartsConnecting \/ CleanupSocket
  PROVE  ConnectionIsWatched'
<1>1. CASE StartsConnecting
  BY <1>1 DEF StartsConnecting, ConnectionIsWatched, Open
<1>2. CASE CleanupSocket
  BY <1>2 DEF CleanupSocket, ConnectionIsWatched, Open
<1>3. QED
  BY <1>1, <1>2

\* One step per operation of the client.
LEMMA ClientKept ==
  ASSUME ConnectionIsWatched, [Next]_vars
  PROVE  ConnectionIsWatched'
<1>1. CASE UNCHANGED clientVars
  BY <1>1 DEF clientVars, ConnectionIsWatched
<1>2. CASE ConnectClient \/ DisconnectClient \/ SocketCloses
  BY <1>2, SocketReplaced DEF ConnectClient, DisconnectClient, SocketCloses
<1>3. CASE Interval
  <2>1. CASE isConnected /\ silence >= Silence
    BY <1>3, <2>1 DEF Interval, ConnectionIsWatched, Open
  <2>2. CASE ~(isConnected /\ silence >= Silence)
    BY <1>3, <2>2, SocketReplaced DEF Interval
  <2>3. QED
    BY <2>1, <2>2
<1>4. CASE SocketConnects \/ SocketFails
  <2>1. CASE SocketConnects
    <3>1. 0 \in 0..Silence
      BY SilenceAssumption
    <3>2. QED
      BY <2>1, <3>1 DEF SocketConnects, ConnectionIsWatched, Open
  <2>2. CASE SocketFails
    BY <2>2 DEF SocketFails, ConnectionIsWatched, Open
  <2>3. QED
    BY <1>4, <2>1, <2>2
<1>5. CASE SocketReads \/ PeerToggles
  BY <1>5, SilenceAssumption DEF SocketReads, PeerToggles, ConnectionIsWatched, Open
<1>6. CASE Query
  BY <1>6, SilenceAssumption DEF Query, ConnectionIsWatched, Open
<1>7. CASE ClientTick
  BY <1>7, SilenceAssumption DEF ClientTick, ConnectionIsWatched
<1>8. CASE SocketStep
  BY <1>2, <1>3, <1>4, <1>5, <1>8 DEF SocketStep, ClientStep
<1>9. QED
  BY <1>1, <1>6, <1>7, <1>8
  DEF Next, vars, Execute, Resume, Tick, SensorStep, ExternalStep, External, RoomStep

-----------------------------------------------------------------------------
(* The flags of an external state.                                         *)

UnderWay(calls) == {c \in Calls : calls[c] # "idle"}

\* The flag that keeps the schedule from calling the getter is set while one is under
\* way, and no longer; no second one is called meanwhile. The flag that keeps back the
\* setter is set only while one is under way, whose return clears it. The avr has no
\* getter to wait for, and of the setters only the infoscreen's is waited for.
FlagsAreHeld ==
  /\ isInProgress <=> machine # "avr" /\ UnderWay(getter) # {}
  /\ machine # "avr" => \A c, d \in UnderWay(getter) : c = d
  /\ isInProgressSetter => machine = "infoscreen" /\ UnderWay(setter) # {}

CallsInv ==
  /\ FlagsAreHeld
  /\ power \in States /\ setState \in States
  /\ isInProgress \in BOOLEAN /\ isInProgressSetter \in BOOLEAN
  /\ getter \in [Calls -> States \cup {"idle", "asked"}]
  /\ setter \in [Calls -> States \cup {"idle"}]

\* setState is asserted: no setter is called while the flag is set.
LEMMA ReassertKeeps ==
  ASSUME CallsInv, NEW s \in States, Reassert(s), setState' \in States,
         UNCHANGED <<machine, power, isInProgress, getter>>
  PROVE  CallsInv'
<1>1. CASE UNCHANGED <<setter, isInProgressSetter>>
  BY <1>1 DEF CallsInv, FlagsAreHeld, UnderWay
<1>2. CASE ~UNCHANGED <<setter, isInProgressSetter>>
  <2>1. PICK c \in Calls : setter' = [setter EXCEPT ![c] = s]
    BY <1>2 DEF Reassert
  <2>2. isInProgressSetter' = (machine = "infoscreen")
    BY <1>2 DEF Reassert
  <2>3. setter' \in [Calls -> States \cup {"idle"}] /\ c \in UnderWay(setter')
    BY <2>1 DEF CallsInv, States, UnderWay
  <2>4. QED
    BY <2>2, <2>3 DEF CallsInv, FlagsAreHeld, UnderWay
<1>3. QED
  BY <1>1, <1>2

\* A setter returns, and with it the flag is cleared, whoever has set it.
LEMMA SetterReturnKeeps ==
  ASSUME CallsInv, NEW c \in Calls, SetterReturns(c), power' \in States,
         UNCHANGED <<machine, setState, isInProgress, getter>>
  PROVE  CallsInv'
<1>1. setter' \in [Calls -> States \cup {"idle"}]
  BY DEF SetterReturns, CallsInv
<1>2. isInProgressSetter' = FALSE
  BY DEF SetterReturns, CallsInv, FlagsAreHeld
<1>3. QED
  BY <1>1, <1>2 DEF CallsInv, FlagsAreHeld, UnderWay

\* A getter is called.
LEMMA ReevaluateKeeps ==
  ASSUME CallsInv, Reevaluate
  PROVE  CallsInv'
<1>1. UNCHANGED <<machine, power, setState, isInProgressSetter, setter>>
  BY DEF Reevaluate
<1>2. CASE UNCHANGED <<getter, isInProgress>>
  BY <1>1, <1>2 DEF CallsInv, FlagsAreHeld, UnderWay
<1>3. CASE ~UNCHANGED <<getter, isInProgress>>
  <2>1. PICK c \in Calls : getter' = [getter EXCEPT ![c] = "asked"]
    BY <1>3 DEF Reevaluate
  <2>2. ~isInProgress /\ isInProgress' = (machine # "avr")
    BY <1>3 DEF Reevaluate
  <2>3. /\ getter' \in [Calls -> States \cup {"idle", "asked"}]
        /\ UnderWay(getter') = UnderWay(getter) \cup {c}
    BY <2>1 DEF CallsInv, UnderWay
  <2>4. machine # "avr" => UnderWay(getter) = {}
    BY <2>2 DEF CallsInv, FlagsAreHeld
  <2>5. FlagsAreHeld'
    BY <1>1, <2>2, <2>3, <2>4 DEF CallsInv, FlagsAreHeld, UnderWay
  <2>6. QED
    BY <1>1, <2>2, <2>3, <2>5 DEF CallsInv
<1>4. QED
  BY <1>2, <1>3

\* A getter returns, with an answer or without.
LEMMA GetterReturnKeeps ==
  ASSUME CallsInv, NEW c \in Calls, getter[c] # "idle",
         getter' = [getter EXCEPT ![c] = "idle"], isInProgress' = FALSE,
         isInProgressSetter' \in {isInProgressSetter, FALSE}, setState' \in States,
         UNCHANGED <<machine, power, setter>>
  PROVE  CallsInv'
<1>1. /\ getter' \in [Calls -> States \cup {"idle", "asked"}]
      /\ UnderWay(getter') = UnderWay(getter) \ {c}
  BY DEF CallsInv, UnderWay
<1>2. machine # "avr" => UnderWay(getter') = {}
  BY <1>1 DEF CallsInv, FlagsAreHeld, UnderWay
<1>3. isInProgressSetter' => isInProgressSetter /\ UnderWay(setter') = UnderWay(setter)
  BY DEF CallsInv, UnderWay
<1>4. FlagsAreHeld'
  BY <1>2, <1>3 DEF CallsInv, FlagsAreHeld
<1>5. QED
  BY <1>1, <1>4 DEF CallsInv

\* One step per operation of an external state.
LEMMA CallsKept ==
  ASSUME CallsInv, [Next]_vars
  PROVE  CallsInv'
<1>1. CASE UNCHANGED externalVars
  BY <1>1 DEF externalVars, CallsInv, FlagsAreHeld, UnderWay
<1>2. ASSUME NEW s \in States, SetState(s) PROVE CallsInv'
  <2>1. setState' \in States /\ UNCHANGED <<machine, power, isInProgress, getter>>
    BY <1>2 DEF SetState
  <2>2. CASE Reassert(s)
    BY <2>1, <2>2, ReassertKeeps
  <2>3. CASE UNCHANGED <<setter, isInProgressSetter>>
    BY <2>1, <2>3 DEF CallsInv, FlagsAreHeld, UnderWay
  <2>4. QED
    BY <1>2, <2>2, <2>3 DEF SetState
<1>3. CASE ScheduledReassert
  BY <1>3, ReassertKeeps DEF ScheduledReassert, CallsInv
<1>4. ASSUME NEW c \in Calls, Obeys(c) \/ CommandLost(c) PROVE CallsInv'
  <2>1. setter[c] # "idle" => setter[c] \in States
    BY DEF CallsInv
  <2>2. power' \in States
    BY <1>4, <2>1 DEF Obeys, CommandLost, CallsInv
  <2>3. QED
    BY <1>4, <2>2, SetterReturnKeeps DEF Obeys, CommandLost
<1>5. CASE Reevaluate
  BY <1>5, ReevaluateKeeps
<1>6. ASSUME NEW c \in Calls, Answers(c) PROVE CallsInv'
  <2>1. getter' \in [Calls -> States \cup {"idle", "asked"}]
    BY <1>6 DEF Answers, CallsInv
  <2>2. UnderWay(getter') = UnderWay(getter)
    BY <1>6 DEF Answers, CallsInv, UnderWay, States
  <2>3. QED
    BY <1>6, <2>1, <2>2 DEF Answers, CallsInv, FlagsAreHeld, UnderWay
<1>7. ASSUME NEW c \in Calls, GetterReturns(c) \/ GetterFails(c) PROVE CallsInv'
  <2>1. setState' \in States /\ isInProgressSetter' \in {isInProgressSetter, FALSE}
    BY <1>7 DEF GetterReturns, GetterFails, Heard, CallsInv
  <2>2. getter[c] # "idle"
    BY <1>7 DEF GetterReturns, GetterFails, States
  <2>3. QED
    BY <1>7, <2>1, <2>2, GetterReturnKeeps DEF GetterReturns, GetterFails
<1>8. CASE Switched \/ Reachability
  BY <1>8 DEF Switched, Reachability, Opposite, States, CallsInv, FlagsAreHeld, UnderWay
<1>9. CASE ExternalStep
  BY <1>2, <1>3, <1>4, <1>6, <1>7, <1>8, <1>9 DEF ExternalStep, MachineStep
<1>10. QED
  BY <1>1, <1>5, <1>9
  DEF Next, vars, Execute, Resume, Tick, SensorStep, SocketStep, Socket, RoomStep

-----------------------------------------------------------------------------
(* Theorems.                                                               *)

\* The initial state.
LEMMA InitInv ==
  ASSUME Init
  PROVE  IInv
<1>1. ScheduleInit /\ SensorInit /\ ExternalInit /\ TerrariumInit
  BY DEF Init
<1>2. date \in 0..Period /\ clock \in 0..(Period - 1)
  BY <1>1, ScheduleAssumption DEF ScheduleInit, Ceil
<1>3. Timed
  BY <1>1, <1>2, ScheduleAssumption DEF ScheduleInit, Timed
<1>4. Counting /\ Covered /\ Unpolled
  BY <1>1 DEF SensorInit, Counting, Covered, Unpolled
<1>5. WishesOnly /\ LedsFollow
  BY <1>1 DEF ExternalInit, TerrariumInit, WishesOnly, LedsFollow
<1>6. QED
  BY <1>3, <1>4, <1>5 DEF IInv, Fresh

\* The invariant holds in every reachable state.
LEMMA InductiveInvariant == Spec => []IInv
<1>1. IInv /\ [Next]_vars => IInv'
  BY FreshKept, WishesKept, LedsKept DEF IInv
<1>2. QED
  BY <1>1, InitInv, PTL DEF Spec

\* A sensor that answers is never stale, for every period of the schedule, as long as
\* a request times out within the grace (sensors.ts 113-135, schedule.ts 61-103).
THEOREM SensorIsFresh == Spec => []LiveSensorIsFresh
<1>1. IInv => LiveSensorIsFresh
  BY DEF IInv, Fresh, Covered, LiveSensorIsFresh
<1>2. QED
  BY <1>1, InductiveInvariant, PTL

\* What the schedule tells the machine is what somebody has wished, whatever the order
\* of sets and answers (external-state.ts 87-141).
THEOREM OnlyWishesAssert == Spec => []WishesOnly
BY InductiveInvariant, PTL DEF IInv

\* The LEDs show what is wished while they are overridden, and the sun otherwise
\* (living-room.ts 435-504, util.ts 111-158).
THEOREM LedsAreFollowing == Spec => []LedsFollow
BY InductiveInvariant, PTL DEF IInv

\* The next execution is at most a period ahead: no chain of timeouts waits beyond it
\* (schedule.ts 61-103).
THEOREM ExecutionWithinPeriod == Spec => [](due # "holdoff" => wait <= Period)
<1>1. IInv => (due # "holdoff" => wait <= Period)
  BY ScheduleAssumption DEF IInv, Fresh, Timed
<1>2. QED
  BY <1>1, InductiveInvariant, PTL

\* The client of a socket always knows of its connection and watches it for silence,
\* whatever sockets fail, are replaced, or connect when they are not wanted any more
\* (tcp-client.ts 43-120, 170-180).
THEOREM ConnectionsWatched == Spec => []ConnectionIsWatched
<1>1. Init => ConnectionIsWatched
  BY DEF Init, ClientInit, ConnectionIsWatched, Open
<1>2. QED
  BY <1>1, ClientKept, PTL DEF Spec

\* No flag of an external state stays set without a call that will clear it, however many
\* calls overlap and whatever order they return in: polling and asserting never come to
\* a halt by a flag (external-state.ts 42-62, 79-141).
THEOREM FlagsHeld == Spec => []FlagsAreHeld
<1>1. Init => CallsInv
  BY DEF Init, ExternalInit, CallsInv, FlagsAreHeld, UnderWay, States
<1>2. CallsInv => FlagsAreHeld
  BY DEF CallsInv
<1>3. QED
  BY <1>1, <1>2, CallsKept, PTL DEF Spec

=============================================================================
