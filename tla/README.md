# iot-monolith in TLA+

`iot-monolith` is one Node.js process that runs a home: it talks to some dozens of
small devices over UDP (and, as far as the library goes, TCP), keeps a tree of
properties (lights, heaters, sensors, timers), lets automations act on them, and
serves the tree to web clients over HTTP and WebSockets. This directory holds
TLA+ models of it, the TLC configurations that check them, and proofs.

Paths below are relative to the repository's `src/`.

## 1. Inventory

The process is single-threaded. What makes it hard is not shared memory but
*re-entrancy* (an observer runs inside the `set()` of the state it observes, and
sets further states), *awaits* (a lookup, a request, a file), *timers*, and a
network that loses, delays, duplicates and reorders.

| Component (source) | State | Operations | Hard behaviour | Correct means |
|---|---|---|---|---|
| Device, requests (`lib/device/main.ts`) | open requests by a one-octet identifier, `_isOnline`, missed keepalives | request, answer, time-out, keepalive, transport connects or disconnects | late and double answers, identifiers in use, abort against answer against time-out | each request is settled once; dead devices are noticed |
| TCP transport (`lib/transport/tcp.ts`) | wanted, connected, `_socket`, length, message timer | connect, disconnect, reconnect, tick, read, write | overlapping lookups, forgotten sockets with live listeners | connected has a socket; what is wanted wins in the end |
| UDP transport (`lib/transport/udp.ts`) | wanted, connected, `_socket`, sequence numbers | as TCP; each payload is sent twice | forgotten sockets, late repetitions | what is wanted wins; the newest command wins |
| Transport base, ESP-NOW, EV1527 (`lib/transport/`) | set of devices | route a payload to devices | none, stateless | - |
| TCP client (`lib/tcp-client.ts`) | socket, connecting and connected flags, time of the last interaction | connect, disconnect, interval, read, write | connections the other side has lost; disconnect while connecting | what is wanted is connected again and again |
| Web API (`lib/api/main.ts`, `lib/tree/operations/serialization.ts`) | streams with observer, interval, timer; stream count | open, message, pong, time-out, close, values, inject | clients that vanish, closes that happen twice | open streams are current; closed ones leave nothing |
| Actuator items (`lib/items/output*.ts`, `led.ts`) | set and actual state, animation | set, animate, answer, failure, online, offline | answers out of order | offline is unknown; loading ends; known is current |
| Automated lights (`app/util.ts`) | output, two timers, three enabling states, `prime` per input | input, button, switch, schedule, timers | all of it by observers inside each other | dark when empty, dark when dismissed, never forgotten |
| Actuator properties (`lib/tree/properties/actuators.ts`) | `loading`, `stale`, groups, scenes | set, group set, scene | groups that set each other | loading ends |
| Logic properties (`lib/tree/properties/logic.ts`) | timers, a ramp | start, stop, flip | an interval that is replaced and not cleared | - |
| Sensor items and properties (`lib/items/sensor.ts`, `lib/tree/properties/sensors.ts`) | last value, staleness, guarded motion | measure, event, time-out | overlapping measurements; a radar that sees through walls | a sensor that answers is fresh, a silent one stale; the radar alone is slow |
| External state (`lib/items/external-state.ts`) | set and actual state, in-progress flag | set, inject, reassert | sets, answers and switchings overtake each other | only wishes are asserted; left alone, wish and machine agree |
| Schedule (`lib/schedule.ts`, `app/timings.ts`) | one timeout, tasks | run, carry over, hold off | early timeouts, dates that have passed, throwing tasks | what it polls is asked often enough |
| Persistence, life cycle (`lib/persistence.ts`, `app/app.ts`, `main.ts`) | a file, observed values | persist, restore, signal, exception | persist before restore; a crash while writing | what was set survives a restart |
| Caches (`lib/cache.ts`, `lib/time-series.ts`) | promise and its waiters | promise, defer, hit | older promise resolves last | waiters are answered |
| HTTP (`lib/http-*.ts`) | routes, polls | request, hook, poll | client leaves during an await | - |
| Tree (`lib/tree/main.ts`, `lib/tree/operations/`) | none after start-up | match, introspect, paths, init | recursion over a graph with cycles | match finds what it describes |
| Rooms and scenes (`app/tree/`) | wiring; cycle of scenes, failover, heating, override of the terrarium | buttons, scenes, media | observers in a circle; devices that are offline | light is seen; heating and LEDs follow; scenes and cycle agree |
| Orchestrations (`lib/orchestrate.ts`) | none | set values with pauses | used by nobody | - |
| Services, events, tree devices | none to speak of | encode, decode | - | - |
| Metrics, logging (`lib/metrics.ts`, `lib/log.ts`) | counters, clients | - | - | - |

How they interact. A *room* builds *tree devices*, which build a *device* with its
*services* and *events* over a *transport*; an *item* wraps a service (its `request`,
its `isOnline`); a *property* wraps an item with setters, getters and `loading`; the
*web API* finds properties by the tree and observes them; *automations* observe and
set properties. A transport tells its device `isConnected` and hands payloads to
`matchDataToRequest`; a device tells its items `isOnline`; everything else goes
through observables, whose `set(value, origin)` runs the observers at once.

The observables, timers and state groups come from packages that are not in the
repository. They are modelled by how the code uses them, and what cannot be told
from that is left open (nondeterministic), see section 4.

## 2. Plan

Most important first; a module is written so that it can be proved about (constants
with named assumptions, no RECURSIVE, invariants in named parts).

1. `RequestService` and `Device`: done. *Device implements RequestService.*
2. `TcpTransport`: done.
3. `WebApi`: done.
4. `AutomatedInputLogic`: done.
5. `Output`: done. It rests on what `RequestService` promises.
6. `UdpTransport`: done. Nearly every device is behind one.
7. `Persistence`: done.
8. `Bathrooms` and `BathroomLight`: done. The second composes the bathrooms' own copies of
   `automatedInputLogic` (`mrpelz-bathroom.ts:224-479`, `tsia-bathroom.ts:244-499`) with
   `motionHMMDGuarded`, and with the original, as the rooms elsewhere have it.
9. `Bedroom`: done. *Once the observers have returned, lights that match a scene have
   the cycle at that scene.*
10. `Schedule`, `Sensor`, `ExternalState`, `TcpClient`, `Terrarium`, composed by
    `Polling`: done. *A sensor that answers is never stale; left alone, wish and
    machine agree.*
11. `StorageRoom`: done.
12. Left: the HTTP hooks;
    `match` and the introspection of the tree as operators, checked against a reference
    definition on small trees (recursive; a module without theorems).

The type invariants are proved, so the runs of the modules with proofs do not check
them as well.

## 3. Modules

Each module's header says what it models; PROJECT.json maps each definition to the
lines it stands for. `MC*.tla` and `*.cfg` are the instances TLC checks, `*Proofs.tla`
the proofs.

**RequestService** is the promise `lib/device/main.ts` gives to a caller, without
identifiers, timers or messages: a request is refused while the service is down,
unless the caller is exempt; an accepted one is settled exactly once, and all
requests in flight fail at the moment the service goes down.

**Device** models `Device`: `Request` is `request()` with its four outcomes
(offline, no identifier left, the write throws, sent), `AnswerMatched` and
`AnswerDropped` are `matchDataToRequest`, `Timeout` the request's timer,
`KeepAliveTick` the interval, `TransportConnects/Disconnects` what observing
`isConnected` does. Messages carry an identifier, and with it a history (`ahead`,
`open`) that only the property about identifier reuse reads. The network keeps,
duplicates or loses messages as it likes.

**TcpTransport** models `_connect`, `_setUpSocket` with its await (`lookups` counts
the runs that wait), every socket set up so far, `_onDisconnection`, the framing and
its timer. A socket's idle time-out is armed by traffic, as Node documents.

**WebApi** models one stream per client: its two observers, interval and timer,
`handleStreamClose` with the formula of the count as the code has it, `GET /values`
and injection. `told` and `known` are what the client has been sent; a client is
*reachable* until it vanishes.

**AutomatedInputLogic** models `automatedInputLogic`. An action is one outermost
`set()` with everything its observers do, in their order, and who caused it
(`origin`). The state of the timers is `isEnabled` and `isActive`.

**Output** models the four kinds of items at once; `kind` is chosen initially. An
open request is a slot; `newest` is the one sent last, `straggler` and `unasked` are
histories for the cases the properties except.

**UdpTransport** has the same connection as the TCP one, except that a socket is bound
before anything else happens, so `LookupResolves` goes from the resolved name to
`listening`. `socket` is what `_socket` refers to: nothing, an open one, or one that
could not be bound. An open socket that is replaced is never closed; that some exist is
`forgotten`, and `SocketError` may come from them. Payloads are told apart only as the
`newest` one and older ones; `waiting` and `air` are queues of copies, `disturbed` is the
history of loss and reordering. `validPort` is chosen initially.

**Persistence** follows a process through `phase`, from loading its modules to being up,
and over any number of processes. `Written` and `NotWritten` are the two outcomes of
`persist()`, which the schedule (`Tick`, `TickFails`) and the exit (`Signal`) call; the
former keeps running from the loading of the modules on, when nothing is observed yet,
`Gathered` says what it then writes. `last` is what somebody last set, `lost` names the
keys that a cause the code cannot help may have cost.

**Bathrooms** models the lights of both bathrooms; `room` is chosen initially. A light is
known by its name and stands for its device as well, since each has one of its own
(`mirrorLed` that of `leds`). `LightsBecome` is the `set()` of any lights with the
observer of `allLights` that sets the heating; all that sets lights goes through it.
`Possible` is the failover: the phases, from that of the sun on, with a device online
among those asked for. `auto` and `byHand` are histories that the properties read.

**BathroomLight** extends `AutomatedInputLogic`. `place` is chosen initially: elsewhere its
steps are those of the original, in a bathroom those of the copy, where turning on the
light starts no timer and a scene that replaces another may darken the group
(`DarkMoment`), and motion is what `motionHMMDGuarded` makes of radar and infrared sensors.

**StorageRoom** extends it once more: a room elsewhere may be the storage room (`hasBridge`), where
each step of the light that brings somebody in ends the notification (`Entered`), and messages of
the bridge, the play time and two scenes set it (`Bridge`). There the web leaves the timers and
the enabling for good alone (`Untouched`, a bound).

**Bedroom** takes the observers apart: `sets` is the stack of sets in progress, and a step
assigns one member of a scene, or one light of a group, and calls the observers this
causes. Scenes, groups and buttons are tables. It is the one module where what happens *within* an
outermost set matters, as scenes and cycle set each other.

**Polling** composes a `Schedule` with one thing that its tasks do, chosen initially (`polled`):
a **Sensor** (an item measured by requests, with `metricStaleness`), the **ExternalState** of
avr, projector or infoscreen, the socket of a **TcpClient**, or the LEDs of the **Terrarium**.
`Schedule` counts in ticks and lets three things happen within the tick of a date: the date
again, the next date, a holdoff. `Sensor!excused` is the history of what the schedule or the device
did to keep a sensor from being measured. `ExternalState` keeps getters and setters under way
in slots; whether the flags are held during a call is what tells the three machines apart.
`TcpClient!socket` is what this side's socket really is, `isConnected` what the code thinks.
`Terrarium` is `overriddenLed` and the observers of the living room; `Lit` and `Wished` are the two
directions of the wrapper.

## 4. Runs

| Run | Properties | Instance |
|---|---|---|
| `device` | `EveryPromiseTracked`, `IdentifiersTakeTurns`, `ImplementsRequestService`; live: `DeadDeviceGoesOffline`, `ReachableDeviceComesOnline`, `EveryRequestSettles` | 2 identifiers, 2 callers, 2 overlapping keepalives, 1 tolerated miss, 1 message kept in flight, duplication |
| `tcp_transport` | `ConnectedHasOpenSocket`, `IncompleteMessageTimed`; live: `DisconnectIsFinal`, `UnwritableHeals`, `KeepsConnecting` | 3 sockets, 2 lookups at a time |
| `web_api` | `StreamsAreCurrent`, `StreamsKnowCount`, `ClosedLeavesNothing`; live: `VanishedClientDropped` | 2 clients, an emitter, a collector, 2 values |
| `web_api_count` | `StreamCountIsClients`, violated | the same |
| `automated_input` | `NotForgotten`, `DismissedStaysDark`, `NotifiesOfEnd`, step properties `DisabledForAWhile`, `RadarAloneIsSlow`; live: `EmptyRoomGoesDark` | `StorageRoom`: 2 inputs, the timer started by hand as well (elsewhere), a radar believed from its second report on, 2 machines |
| `output` | `OfflineIsUnknown`, `LoadingEnds`, `KnownIsCurrent` | 3 values, 3 open requests |
| `udp_transport` | `ConnectedCanWrite`, `NewestCommandLast`; live: `WantedWins` | 2 lookups at a time, 3 copies waiting and 3 in the air |
| `persistence` | `KeptOverRestarts`; live: `WrittenDown` | 2 keys, 2 values |
| `bathrooms` | `AutoLightReaches`, `HeatingFollows` | no constants: all four lights and devices, five phases, both rooms |
| `bathrooms_failover` | `SceneMembersOnline`, violated | the same |
| `bedroom` | `CycleFollows`, `AskedIsLit`, `NoPingPong` | all lights, scenes and buttons; the web sets four of the lights and three of the groups |
| `polling` | `LiveSensorIsFresh`, `WishesOnly`, `LedsFollow`; live: `SilentSensorGoesStale`, `Converges`, `KeepsListening` | a period of 2 ticks, timeouts of at most 1, a holdoff of 5; 2 readings, 2 requests open, 2 calls under way; silence after 3 ticks, 2 brightnesses |

Every property is broken by a plausible mutation of the code, listed in PROJECT.json
("mutants"); the mutated definition stands beside the original as `Bug...`, marked
*Variant*, and is used by nothing else.

**Why the bounds are enough.** *device*: with two identifiers and four callers the
identifiers run out, wrap around, and are reused while an old answer is under way;
one tolerated miss separates "missed" from "too many". *tcp_transport*: three sockets
are the current one, one that was forgotten and one that is being set up; two lookups
overlap. *web_api*: two clients are one that acts and one that watches; one more of
either adds nothing to what the formulas distinguish. *automated_input*: two inputs
may disagree; a third one can only do what one of the two does. *output*: three
requests are the newest, an older one, and one that was refused or replaced between
them. *udp_transport*: two lookups let a socket be replaced and forgotten; three copies
are those of one payload and one of another between them. *bedroom*: every light but
`heatLamp` is set by scenes; the four the web sets are a LED with a half value of its own,
those that scenes set last, and the one in no scene. *polling*: a period longer than the
longest timeout makes the schedule carry over, a holdoff longer than period and grace
outlasts the metric; two requests, or calls, may overtake each other, and a third adds
nothing but another of either. *persistence*: one key is kept
while another is lost; a value is the initial one or not; restarts are not bounded. The
proofs drop all of these bounds for the safety properties.

**Fairness.** `Device!FairSpec`: a request's timer runs out if nothing settles it, the
keepalive interval ticks, and - for the property about a reachable device - a device
that answers is heard now and then. `TcpTransport!FairSpec`: the interval and the
timers run; resolutions end, and the network lets some attempt succeed (strong
fairness, since an attempt may be ended by a forgotten socket); a socket without
traffic idles out. `WebApi!FairSpec`: only the timer of a client that has vanished, as
nothing restarts it. `AutomatedInputLogic!FairSpec`: timers that run run out.
`Output` claims no liveness: that a request ends is `EveryRequestSettles` of `Device`;
nor does `Bathrooms`, where nothing has to happen.
`UdpTransport!FairSpec`: the interval ticks, lookups end, and for a valid port one
succeeds now and then. `Persistence!FairSpec`: the schedule, which nobody stops, runs, and
a write succeeds now and then (strong fairness, as the process may be down between).
`Polling!FairSpec`: time goes on, timeouts and the interval fire, a request is answered or times out, a
machine that is reachable does and answers what it was asked, and a peer that is up accepts a
connection in the end (strong fairness, as an attempt may fail before) and resets one
it does not know when that is written to. Nothing is assumed about a connection that is only read.
`Bedroom` claims no liveness: `NoPingPong` bounds the stack, and each set on it has finitely
many members.

**What is left open.** Whether `Timer.start()` of a disabled timer starts it and
whether disabling stops it; whether the callback of an Observable runs for a value it
already has (`Asks` in `Output`); whether a group that is dark for a moment while its
members are set tells its observers (`PassesDark` in `Bathrooms`, `DarkMoment` in `BathroomLight`); when it is night (`Message`);
whether setting a machine to what it is set to already asserts it (`SetState`); how long anything takes.

## 5. What the checks showed

* `web_api_count`: the count of streams is described as the number of connected
  clients (`app/app.ts:126`), but `lib/api/main.ts:139` subtracts all but one. After the
  only client has left it stays 1. What does hold is that an open counted stream keeps it
  above zero (`OpenStreamsAreCounted`, which is proved).
* A client that vanishes before it has answered its first ping is never dropped: its
  timer has not been started. `VanishedClientDropped` says "after a pong".
* `KnownIsCurrent` needs its exception: an `Output` or `Led` may show an older value
  when answers overtake each other; the newer kinds of items show the value set even
  when its own request failed and an older one succeeded.
* `LoadingEnds` needs two: a `Led` set to the value it has issues no request and
  loads until the next one, and an RGB light that plays an animation compares a fresh
  object with itself and loads until it is set.
* A TCP transport may be connected without a usable socket, and heals only through
  the idle time-out of a socket it has forgotten (`UnwritableHeals`).
* A UDP transport does not have that problem: connected means that it can write, as
  `_onDisconnection` runs whichever socket fails. Forgotten sockets are never closed, and
  an error of one breaks the connection, which the next tick sets up again.
* Repeating every payload after 10 ms does not let an older command win, even when the
  second copies of two payloads are interleaved: time-outs of one length keep their order.
* State that was persisted is lost if the 30-second schedule, or a signal, writes before
  `restore()` has finished: initial values replace the file, or, while modules are still
  loading, nothing at all does (`{}`). It is also lost when a process dies half-way through a write,
  and when `readFile` rejects: the `try` around it does not await it, so the rejection
  ends the process, which persists on the way out. `KeptOverRestarts` names these causes
  as exceptions, and holds for everything else.
* `bathrooms_failover`: autoLight turns on all lights "because scene members not online"
  (`mrpelz-bathroom.ts:685`), but which devices it asks for is not what its scenes light.
  At night it asks for the night light (line 608) and turns on the mirror's LEDs alone
  (line 206): with the night light online and the LEDs not, the room stays dark. In the
  other bathroom more scenes have that gap. `AutoLightReaches` says when it cannot happen.
* The heating follows the lights even when a scene replaces another through a dark
  moment, whether or not the group reports it (`HeatingFollows`).
* The copies of `automatedInputLogic` in the bathrooms report `startTimerFromManualOn: true`
  (`mrpelz-bathroom.ts:475`), but start no timer when a scene is turned on by hand: such a light
  stays on until somebody, or an input that falls, turns it off. `NotForgotten` is therefore
  about lights the automation turned on.
* A sensor that answers is never shown as stale (`LiveSensorIsFresh`), although its requests
  overlap and dates are skipped or met twice: the ten seconds beyond the period are enough as long
  as a request times out earlier. A holdoff is the exception. The log says that it lasts five minutes
  (`schedule.ts:73`); it lasts one (`:22`).
* A wish set while an answer of the machine is on its way may be taken back by it, as a change
  of the actual state counts as somebody's wish at the machine. It never turns into anything
  nobody wished (`WishesOnly`), and wish and machine agree in the end (`Converges`).
* The silence that is to end a lost connection never comes for the socket of the avr, as queries
  written every five seconds count as interaction (`tcp-client.ts:160`): it depends on the peer's
  reset, or on the system giving up. `KeepsListening` needs that assumption for it and for no other.
* `disconnect()` while a socket is connecting leaves it connecting (`tcp-client.ts:100`): it may then
  be connected although that is not wanted, with no interval to look after it.
* The LEDs of the terrarium show a brightness set by the web for up to five seconds as a wish, though
  not as light: unless overridden, it is taken back by the schedule (`util.ts:152`). What they show is
  the sun (`LedsFollow`).
* Washer and dryer share one notification. It always ends, and says that one of them has ended
  (`NotifiesOfEnd`), but a dryer that starts silences the washer's. At night messages are ignored,
  those that would end a notification, too. `getHours() > 23` (`storage-room.ts:250`) is never true:
  "night" begins at midnight.
* In the bedroom scenes and cycle never disagree once everything has returned, and their
  observers never nest deeper than one within the other (`NoPingPong`).

## 6. Proofs

Every invariant and every step property of the passing runs is a theorem, and so are both
refinements. They hold for every value of the constants, under the named assumptions on
them (finite or disjoint sets, a positive number of identifiers, groups that exist):

* **DeviceProofs.** The inductive invariant `IInv` adds to the type invariant that
  promises and the table of requests match one to one (`EveryPromiseTracked`), that an
  offline device runs no ordinary requests, and, for `IdentifiersTakeTurns`, that the
  identifiers a message has yet to see given out are those ahead in the rolling order.
  Alone, `OfflineRunsNoRequests` is not inductive: aborting needs to know that what is
  registered is what is pending. The refinement (`DeviceImplementsService`) maps each
  action to accepting, refusing, settling, coming up, going down or a stutter.
* **TcpTransportProofs.** `IInv` adds `DisconnectedIsIdle` (a transport that is not
  connected has no timer, no half-read message, and an open socket only if it forgot it)
  and `Reading` (the timer runs while a message is half read, connected or not) to the
  two properties; without the first, a connection could begin with a message half read
  (`ConnectionsBeginClean`). `DisconnectedForGood`, here and in UdpTransportProofs, is what is safe about
  `DisconnectIsFinal` and `WantedWins`: with nothing left that connects, nothing does.
* **WebApiProofs.** The five invariants are inductive together: that a closed socket
  has nothing attached is what makes a new stream on it start clean, and the count
  being positive needs to know which streams are attached.
* **RoomProofs**, the light. `NotForgotten` becomes inductive as `WillGoOff`, which
  also says what holds while the light is off; `DismissedStaysDark` as `Dismissal`, which
  adds that the automation is disabled as long as the dismissal lasts. The two step
  properties need only types. All of this carries over to bathrooms and storage room,
  whose specification is not `Spec`: each step there is one of `AutomatedInputLogic`, a
  scene that lights the room (`LightOn`) or its moment in the dark (`DarkMoment`), and the
  latter two keep the invariant as well (`RoomStep`). `StorageImplementsRoom` is a refinement, with
  fairness: forgetting the bridge, `StorageSpec` implements `RoomSpec`.
* **RoomProofs**, radar and notification. `RadarAloneIsSlow` compares the reports there have
  been with what the code counts; `GuardInv` adds that it never counts more. `NotifiesOfEnd`
  needs `NotificationInv`: while the end of a machine is notified notifications are enabled,
  for otherwise a machine that starts would not end the notification.
* **RoomProofs**, the bedroom. `BedroomInv` relates the stack of sets to the lights: a set that an
  observer began finds its scene lit (`InnerIsLit`), so it has nothing to set and begins no
  other; the cycle is ahead of the lights only until the first light of its scene is set
  (`CycleIsAhead`), as three lights tell any two scenes apart (`OneSceneOn`); the lights
  that the outermost set is through with are as asked for (`OnTheWay`). Beyond what the run checks
  it follows that the outcome of any set, of a group or a single light too, is settled
  when it begins (`OutcomeIsSettled`).
* **RoomProofs**, the bathrooms. `AutoLightReaches` and `HeatingFollows` are inductive with the
  types. The first is a matter of the two tables, phase by phase (`SceneReaches`), and of
  no phase being possible only if nothing is online (`NothingPossible`).
* **OutputProofs.** `Asking` adds, for `Output` and `Led`, that something is always set
  and that the newest request, while it is open, asked for it: its answer then reports
  what is set, which is what `KnownIsCurrent` and `LoadingEnds` need.
* **UdpTransportProofs.** `NewestIsLast` says that the copies, those in the air before
  those that wait, form one queue with the newest payload's at its end, until something
  is disturbed. `ConnectedCanWrite` needs `ConnectsToValid`: a transport is connected
  only if its port is valid, for otherwise a throwing `connect()` would close its socket.
* **PersistenceProofs.** `IInv` says, for each phase, where what was last set is kept:
  in the file while the process is down or starting, in what was read, and in the
  observables when it is up; `Untouched` that until then they have their initial values,
  `AtRest` that nothing of a process outlives it but the file.
* **PollingProofs.** `ConnectionIsWatched` and `FlagsAreHeld` are what is safe about `KeepsListening` and
  `Converges`: the flags of a client agree with its socket, which is watched for silence from
  its first moment on, and a flag of an external state is set only while a call is under way
  that will clear it. `WishesOnly` and `LedsFollow` are inductive. `LiveSensorIsFresh` is not: `Covered`
  says why the timer of the metric cannot run out first - more of it is left than until the
  next date plus the grace, or than until an open request times out - and `Timed` that the next date
  is at most a period ahead and never waited for beyond it. The assumption that is needed is
  `Timeout < Grace`: 1 or 2 seconds against 10 in the code, for all sensors but one. The
  dust sensor of the test device may take 40 seconds (`services/sds011.ts:16`); for it the theorem
  says nothing, and a quick answer followed by a slow one does show it as stale.

Most theorems' last step is `BY ..., PTL DEF Spec`; before it stand `Init => IInv`,
`IInv /\ [Next]_vars => IInv'` (one step per action) and `IInv =>` the property.

**Only model-checked:** all liveness, since the prover does not do fairness: `DeadDeviceGoesOffline`,
`ReachableDeviceComesOnline`, `EveryRequestSettles`, `DisconnectIsFinal`, `UnwritableHeals`, `KeepsConnecting`,
`VanishedClientDropped`, `EmptyRoomGoesDark`, `WantedWins`, `WrittenDown`, `SilentSensorGoesStale`, `Converges` and
`KeepsListening`. (That `StorageImplementsRoom` includes fairness is no exception: both
specifications state the same fairness.) The two violations are TLC's as well.

## 7. Not modelled

* Encodings of payloads, the wording of logs and documents, metrics and the log itself
  (nothing reads them back), start-up wiring (it runs once, before anything happens),
  the tree and what is looked up in it (it does not change), deployment.
* What nobody uses: `CachePromise`, `scheduledRamp`, orchestrations, the sequence
  numbers of a UDP transport, `once` and `stop` of a schedule, `reconnect` of a TCP client.
* The HTTP hooks, where the order of close and failure is the library's.
* A line that is cut off by a lost connection stays in `DelimitedStream` and is joined with
  the first one of the next connection; what the bridge said in between is never heard.
* The remaining rooms flip lights by buttons and are covered by `Output` and the actions of the
  modelled rooms; the `infoscreen` is set by the media as any `ExternalState` is.
