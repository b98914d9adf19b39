------------------------------- MODULE WebApi -------------------------------
(***************************************************************************)
(* The WebSocket stream of WebApi and the interactions of Serialization it *)
(* carries. Every change of an interaction is pushed to every open stream, *)
(* a message of a stream sets a collector, and the number of streams is    *)
(* pushed like a value of its own. handleStreamClose tears a stream down:  *)
(* it runs on the socket's 'close' and also when no pong came for a while, *)
(* so for one stream it may run several times; in between the socket is    *)
(* closing and may still deliver a pong or a message.                      *)
(***************************************************************************)
EXTENDS FiniteSets, Integers

CONSTANTS
  Clients,       \* bound: streams that exist at the same time
  Emitters,      \* interactions of type EMIT
  Collectors,    \* interactions of type COLLECT
  Values,        \* values of the type of every interaction
  None           \* the client does not know yet

ASSUME InteractionsAssumption == Emitters \cap Collectors = {}
ASSUME ValuesAssumption == None \notin Values

Ids == Emitters \cup Collectors

VARIABLES
  value,         \* the value of each interaction's state
  ws,            \* ws[c]: "closed", "open" or "closing"
  reachable,     \* clients that still answer a ping
  counted,       \* clients whose stream is counted (count is not '0')
  listening,     \* clients whose two observers are attached
  pinging,       \* clients whose pingPong interval runs
  timing,        \* clients whose pingPongTimer runs
  streamCount,   \* _streamCount
  known,         \* known[c][i]: what c last got as the value of i, pushed or read
  told           \* told[c]: what c last got as the streamCount, pushed or read

vars == <<value, ws, reachable, counted, listening, pinging, timing, streamCount, known, told>>

-----------------------------------------------------------------------------
\* _streamCount.set(n): those that listen are told of a change.
SetStreamCount(n, listeners) ==
  /\ streamCount' = n
  /\ told' = [c \in Clients |-> IF n # streamCount /\ c \in listeners THEN n ELSE told[c]]

\* Variant: collectors are not observed.
BugEmittersOnly(i, v) ==
  /\ value' = [value EXCEPT ![i] = v]
  /\ known' = [c \in Clients |-> IF c \in listening /\ v # value[i] /\ i \in Emitters
                                   THEN [known[c] EXCEPT ![i] = v] ELSE known[c]]

\* _updates.trigger: what changed goes to every stream.
Push(i, v) ==
  /\ value' = [value EXCEPT ![i] = v]
  /\ known' = [c \in Clients |-> IF c \in listening /\ v # value[i]
                                   THEN [known[c] EXCEPT ![i] = v] ELSE known[c]]

\* Variant: the stream of a closed client stays attached.
BugStaysAttached(c) ==
  /\ UNCHANGED listening
  /\ pinging' = pinging \ {c}
  /\ timing' = timing \ {c}
  /\ IF c \in counted
       THEN SetStreamCount(streamCount - (IF streamCount > 1 THEN streamCount - 1 ELSE 0),
                           listening \ {c})
       ELSE UNCHANGED <<streamCount, told>>

\* Variant: the timer is not stopped.
BugTimerLeft(c) ==
  /\ listening' = listening \ {c}
  /\ pinging' = pinging \ {c}
  /\ UNCHANGED timing
  /\ IF c \in counted
       THEN SetStreamCount(streamCount - (IF streamCount > 1 THEN streamCount - 1 ELSE 0),
                           listening \ {c})
       ELSE UNCHANGED <<streamCount, told>>

\* handleStreamClose, run as often as it is called.
HandleStreamClose(c) ==
  /\ listening' = listening \ {c}
  /\ pinging' = pinging \ {c}
  /\ timing' = timing \ {c}
  /\ IF c \in counted
       THEN SetStreamCount(streamCount - (IF streamCount > 1 THEN streamCount - 1 ELSE 0),
                           listening \ {c})
       ELSE UNCHANGED <<streamCount, told>>

-----------------------------------------------------------------------------
Init ==
  /\ value \in [Ids -> Values]
  /\ ws = [c \in Clients |-> "closed"]
  /\ reachable = {}
  /\ counted = {}
  /\ listening = {}
  /\ pinging = {}
  /\ timing = {}
  /\ streamCount = 0
  /\ known = [c \in Clients |-> [i \in Ids |-> None]]
  /\ told = [c \in Clients |-> None]

\* Variant: the stream is counted before its observers are attached.
BugCountsFirst(c, count) ==
  /\ ws[c] = "closed"
  /\ ws' = [ws EXCEPT ![c] = "open"]
  /\ reachable' = reachable \cup {c}
  /\ counted' = IF count THEN counted \cup {c} ELSE counted \ {c}
  /\ listening' = listening \cup {c}
  /\ pinging' = pinging \cup {c}
  /\ streamCount' = IF count THEN streamCount + 1 ELSE streamCount
  /\ told' = [d \in Clients |-> IF d = c THEN None
                                ELSE IF count /\ d \in listening THEN streamCount + 1 ELSE told[d]]
  /\ known' = [known EXCEPT ![c] = [i \in Ids |-> None]]
  /\ UNCHANGED <<value, timing>>

\* _handleStreamUpgrade and _handleStream: a new stream, counted or not.
HandleStream(c, count) ==
  /\ ws[c] = "closed"
  /\ ws' = [ws EXCEPT ![c] = "open"]
  /\ reachable' = reachable \cup {c}
  /\ counted' = IF count THEN counted \cup {c} ELSE counted \ {c}
  /\ listening' = listening \cup {c}
  /\ pinging' = pinging \cup {c}
  /\ streamCount' = IF count THEN streamCount + 1 ELSE streamCount
  /\ told' = [d \in Clients |-> IF count /\ d \in listening \cup {c} THEN streamCount + 1
                                ELSE IF d = c THEN None ELSE told[d]]
  /\ known' = [known EXCEPT ![c] = [i \in Ids |-> None]]
  /\ UNCHANGED <<value, timing>>

\* _handleValuesGet: the client of a stream reads all values and the count.
HandleValuesGet(c) ==
  /\ c \in listening /\ c \in reachable
  /\ known' = [known EXCEPT ![c] = value]
  /\ told' = [told EXCEPT ![c] = streamCount]
  /\ UNCHANGED <<value, ws, reachable, counted, listening, pinging, timing, streamCount>>

\* A message that names a collector and a value of its type: Serialization.inject.
\* Every other message changes nothing.
Inject(c, i, v) ==
  /\ ws[c] # "closed" /\ c \in reachable
  /\ i \in Collectors
  /\ Push(i, v)
  /\ UNCHANGED <<ws, reachable, counted, listening, pinging, timing, streamCount, told>>

\* A state of the house changes: the observer registered by Serialization.
Emit(i, v) ==
  /\ i \in Emitters
  /\ Push(i, v)
  /\ UNCHANGED <<ws, reachable, counted, listening, pinging, timing, streamCount, told>>

\* A client answers a ping. Pongs are heard until the socket is closed.
Pong(c) ==
  /\ ws[c] # "closed" /\ c \in reachable
  /\ c \in pinging \/ ws[c] = "closing"
  /\ timing' = timing \cup {c}
  /\ UNCHANGED <<value, ws, reachable, counted, listening, pinging, streamCount, known, told>>

\* A client vanishes without a word: no pong, no close.
Vanish(c) ==
  /\ c \in reachable
  /\ reachable' = reachable \ {c}
  /\ UNCHANGED <<value, ws, counted, listening, pinging, timing, streamCount, known, told>>

\* pingPongTimer runs out: the stream is torn down, ws.close() starts closing.
PingPongTimeout(c) ==
  /\ c \in timing
  /\ HandleStreamClose(c)
  /\ ws' = [ws EXCEPT ![c] = "closing"]
  /\ UNCHANGED <<value, reachable, counted, known>>

\* 'close' of the socket: the client closed it, the connection broke, or closing
\* it is finished.
OnClose(c) ==
  /\ ws[c] # "closed"
  /\ ws' = [ws EXCEPT ![c] = "closed"]
  /\ reachable' = reachable \ {c}
  /\ HandleStreamClose(c)
  /\ UNCHANGED <<value, counted, known>>

Next ==
  \/ \E c \in Clients, count \in BOOLEAN : HandleStream(c, count)
  \/ \E c \in Clients, i \in Ids, v \in Values : Inject(c, i, v)
  \/ \E i \in Ids, v \in Values : Emit(i, v)
  \/ \E c \in Clients : HandleValuesGet(c) \/ Pong(c) \/ Vanish(c) \/ PingPongTimeout(c) \/ OnClose(c)

Spec == Init /\ [][Next]_vars

\* The timer of a client that has vanished is not restarted, so it runs out.
FairSpec ==
  /\ Spec
  /\ \A c \in Clients : WF_vars(c \notin reachable /\ PingPongTimeout(c))

-----------------------------------------------------------------------------
(* Properties.                                                             *)

\* The variables keep their types; the count of streams never falls below zero
\* (api/main.ts 137-141).
TypeOK ==
  /\ value \in [Ids -> Values]
  /\ ws \in [Clients -> {"closed", "open", "closing"}]
  /\ \A set \in {reachable, counted, listening, pinging, timing} : set \subseteq Clients
  /\ streamCount \in Nat
  /\ known \in [Clients -> [Ids -> Values \cup {None}]]
  /\ told \in [Clients -> Nat \cup {None}]

\* What a client knows of an interaction, read once and pushed since, is its
\* value, whoever changed it (api/main.ts 85-89, 195-204, serialization.ts
\* 177-179, 198-200).
StreamsAreCurrent ==
  \A c \in listening, i \in Ids : known[c][i] \in {None, value[i]}

\* The same of the count, which a counted stream moreover knows from its first
\* moment on (api/main.ts 81-91, 137-141).
StreamsKnowCount ==
  \A c \in listening :
    /\ told[c] \in {None, streamCount}
    /\ c \in counted => told[c] = streamCount

\* Closing one stream twice does not make the others disappear: while a counted
\* stream listens the count is not zero (api/main.ts 130-147).
OpenStreamsAreCounted == listening \cap counted # {} => streamCount > 0

\* A closed socket leaves nothing behind: no observer, no interval, and no timer
\* restarted by a pong that came while it was closing (api/main.ts 126-147).
ClosedLeavesNothing ==
  \A c \in Clients : ws[c] = "closed" => c \notin listening \cup pinging \cup timing

\* A client that vanishes after it has answered a ping is dropped (api/main.ts
\* 93-94, 126-128, 147). One that never answered is not: its timer never started.
VanishedClientDropped ==
  \A c \in Clients : (c \in timing /\ c \notin reachable) ~> (c \notin listening)

\* What the metric of the count says of it: "number of connected clients to
\* webApi stream WebSocket" (app.ts 122-127).
StreamCountIsClients == streamCount = Cardinality(listening \cap counted)

=============================================================================
