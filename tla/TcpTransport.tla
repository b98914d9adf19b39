---------------------------- MODULE TcpTransport ----------------------------
(***************************************************************************)
(* The connection handling of a TCPTransport. Every second _connect looks  *)
(* at what is wanted and what is: it resolves the host and sets up a       *)
(* socket, or tears the connection down. Name resolution is awaited, and a *)
(* socket takes a while to connect, so another second may pass before: the *)
(* transport then sets up one more socket and forgets the previous one,    *)
(* whose listeners stay attached. Only _socket is ever destroyed, and only *)
(* while the transport counts as connected.                                *)
(*                                                                         *)
(* Incoming bytes are messages behind a length; a message timer breaks the *)
(* connection when the rest of a message does not come.                    *)
(***************************************************************************)
EXTENDS Naturals

CONSTANTS
  Sockets,       \* bound: sockets that exist at the same time
  MaxLookups,    \* bound: name resolutions awaited at the same time
  None           \* _socket is null

ASSUME SocketsAssumption == None \notin Sockets
ASSUME LookupsAssumption == MaxLookups \in Nat

VARIABLES
  wanted,        \* _shouldBeConnected
  isConnected,   \* _isConnected
  lookups,       \* runs of _setUpSocket that await the name resolution
  phase,         \* phase[s]: "gone", "connecting" or "open"
  armed,         \* sockets whose idle timeout has not fired since they were active
  socket,        \* _socket: the last socket set up, even if it is gone by now
  length,        \* _currentLength # 0: the length of a message was read, not its rest
  timer          \* _messageTimer runs

vars == <<wanted, isConnected, lookups, phase, armed, socket, length, timer>>

Live == {s \in Sockets : phase[s] # "gone"}

-----------------------------------------------------------------------------
(* _onDisconnection, after p is what has become of the sockets. It returns  *)
(* early when not connected; otherwise _nukeSocket destroys _socket.       *)

\* Variant: without a socket there is nothing to disconnect.
BugNoSocketNoBreak(p) ==
  IF ~isConnected \/ socket = None
    THEN phase' = p /\ UNCHANGED <<isConnected, socket, length, timer>>
    ELSE /\ phase' = [s \in Sockets |-> IF s = socket THEN "gone" ELSE p[s]]
         /\ isConnected' = FALSE
         /\ socket' = None
         /\ length' = FALSE
         /\ timer' = FALSE

OnDisconnection(p) ==
  IF ~isConnected
    THEN phase' = p /\ UNCHANGED <<isConnected, socket, length, timer>>
    ELSE /\ phase' = [s \in Sockets |-> IF s = socket THEN "gone" ELSE p[s]]
         /\ isConnected' = FALSE
         /\ socket' = None
         /\ length' = FALSE
         /\ timer' = FALSE

\* Variant: no socket is set up while there still is a previous one.
BugOneSocket(w) ==
  \/ /\ w /\ ~isConnected /\ socket = None
     /\ lookups < MaxLookups
     /\ lookups' = lookups + 1
     /\ UNCHANGED <<isConnected, phase, socket, length, timer>>
  \/ /\ ~w /\ isConnected
     /\ OnDisconnection(phase)
     /\ UNCHANGED lookups
  \/ /\ (w = isConnected \/ (w /\ socket # None))
     /\ UNCHANGED <<isConnected, lookups, phase, socket, length, timer>>

\* _connect, when w is what is wanted.
Connect(w) ==
  \/ /\ w /\ ~isConnected
     /\ lookups < MaxLookups
     /\ lookups' = lookups + 1
     /\ UNCHANGED <<isConnected, phase, socket, length, timer>>
  \/ /\ ~w /\ isConnected
     /\ OnDisconnection(phase)
     /\ UNCHANGED lookups
  \/ /\ w = isConnected
     /\ UNCHANGED <<isConnected, lookups, phase, socket, length, timer>>

-----------------------------------------------------------------------------
Init ==
  /\ wanted = FALSE
  /\ isConnected = FALSE
  /\ lookups = 0
  /\ phase = [s \in Sockets |-> "gone"]
  /\ armed = {}
  /\ socket = None
  /\ length = FALSE
  /\ timer = FALSE

\* Variant: the interval only ever connects.
BugTickConnects == wanted /\ Connect(wanted) /\ UNCHANGED <<wanted, armed>>

\* setInterval(_connect, keepAlive / 2)
Tick == Connect(wanted) /\ UNCHANGED <<wanted, armed>>

\* connect() and disconnect(): setting what is wanted runs _connect at once.
SetWanted ==
  /\ wanted' = ~wanted
  /\ Connect(~wanted)
  /\ UNCHANGED armed

\* reconnect()
Reconnect ==
  /\ isConnected
  /\ OnDisconnection(phase)
  /\ UNCHANGED <<wanted, lookups, armed>>

LookupFails ==
  /\ lookups > 0
  /\ lookups' = lookups - 1
  /\ UNCHANGED <<wanted, isConnected, phase, armed, socket, length, timer>>

\* The name is resolved, whatever has happened meanwhile: a new socket takes
\* the place of _socket and starts connecting.
LookupResolves(s) ==
  /\ lookups > 0
  /\ phase[s] = "gone"
  /\ lookups' = lookups - 1
  /\ phase' = [phase EXCEPT ![s] = "connecting"]
  /\ armed' = armed \cup {s}
  /\ socket' = s
  /\ UNCHANGED <<wanted, isConnected, length, timer>>

\* The name is resolved but connecting throws: the new socket is destroyed,
\* and with it the reference to the previous one is lost.
SetUpThrows ==
  /\ lookups > 0
  /\ lookups' = lookups - 1
  /\ socket' = None
  /\ UNCHANGED <<wanted, isConnected, phase, armed, length, timer>>

\* 'connect' of any socket set up so far.
OnConnection(s) ==
  /\ phase[s] = "connecting"
  /\ phase' = [phase EXCEPT ![s] = "open"]
  /\ armed' = armed \cup {s}
  /\ isConnected' = TRUE
  /\ UNCHANGED <<wanted, lookups, socket, length, timer>>

\* Variant: 'end' and 'error' are only heard on the socket in use.
BugUnheard(s) ==
  /\ phase[s] # "gone"
  /\ IF s = socket
       THEN OnDisconnection([phase EXCEPT ![s] = "gone"])
       ELSE /\ phase' = [phase EXCEPT ![s] = "gone"]
            /\ UNCHANGED <<isConnected, socket, length, timer>>
  /\ armed' = armed \ {s}
  /\ UNCHANGED <<wanted, lookups>>

\* 'end' or 'error' of any socket: it is gone, and so is the one in use.
Ends(s) ==
  /\ phase[s] # "gone"
  /\ OnDisconnection([phase EXCEPT ![s] = "gone"])
  /\ armed' = armed \ {s}
  /\ UNCHANGED <<wanted, lookups>>

\* 'timeout' of any socket, once per idle period; the socket itself stays.
Idles(s) ==
  /\ phase[s] # "gone"
  /\ s \in armed
  /\ OnDisconnection(phase)
  /\ armed' = armed \ {s}
  /\ UNCHANGED <<wanted, lookups>>

\* Variant: reading a length leaves the message timer alone.
BugUntimed(zero) ==
  /\ socket # None /\ phase[socket] = "open"
  /\ ~length
  /\ length' = ~zero
  /\ armed' = armed \cup {socket}
  /\ UNCHANGED <<wanted, isConnected, lookups, phase, socket, timer>>

\* The length of a message can be read from _socket; it may be zero. The timer
\* starts in any case.
ReadLength(zero) ==
  /\ socket # None /\ phase[socket] = "open"
  /\ ~length
  /\ length' = ~zero
  /\ timer' = TRUE
  /\ armed' = armed \cup {socket}
  /\ UNCHANGED <<wanted, isConnected, lookups, phase, socket>>

\* The rest of the message can be read: it is handed to the device.
ReadPayload ==
  /\ socket # None /\ phase[socket] = "open"
  /\ length
  /\ length' = FALSE
  /\ timer' = FALSE
  /\ armed' = armed \cup {socket}
  /\ UNCHANGED <<wanted, isConnected, lookups, phase, socket>>

\* writeToNetwork: bytes sent are activity of _socket, if there is still one to
\* send them; without one writing throws.
Write ==
  /\ socket # None
  /\ armed' = armed \cup ({socket} \cap Live)
  /\ UNCHANGED <<wanted, isConnected, lookups, phase, socket, length, timer>>

\* The message timer runs out.
MessageTimeout ==
  /\ timer
  /\ IF isConnected
       THEN OnDisconnection(phase)
       ELSE timer' = FALSE /\ UNCHANGED <<isConnected, phase, socket, length>>
  /\ UNCHANGED <<wanted, lookups, armed>>

Next ==
  \/ Tick
  \/ SetWanted
  \/ Reconnect
  \/ LookupFails
  \/ SetUpThrows
  \/ \E s \in Sockets : LookupResolves(s) \/ OnConnection(s) \/ Ends(s) \/ Idles(s)
  \/ \E zero \in BOOLEAN : ReadLength(zero)
  \/ ReadPayload
  \/ Write
  \/ MessageTimeout

Spec == Init /\ [][Next]_vars

\* The interval and the timers keep running; a forgotten socket carries no
\* traffic and idles out. Of the network this is assumed: resolutions end and
\* succeed now and then, so do attempts to connect, and the other side gives up
\* connections it is not using.
FairSpec ==
  /\ Spec
  /\ WF_vars(Tick)
  /\ WF_vars(MessageTimeout)
  /\ WF_vars(LookupFails \/ SetUpThrows \/ \E s \in Sockets : LookupResolves(s))
  /\ SF_vars(\E s \in Sockets : LookupResolves(s))
  /\ \A s \in Sockets :
       /\ SF_vars(OnConnection(s))
       /\ WF_vars(s # socket /\ Idles(s))
       /\ WF_vars(s # socket /\ Ends(s))

-----------------------------------------------------------------------------
(* Properties.                                                             *)

\* The variables keep their types; no name resolution ends twice (tcp.ts 36-45,
\* 197-213).
TypeOK ==
  /\ wanted \in BOOLEAN /\ isConnected \in BOOLEAN
  /\ length \in BOOLEAN /\ timer \in BOOLEAN
  /\ lookups \in 0..MaxLookups
  /\ phase \in [Sockets -> {"gone", "connecting", "open"}]
  /\ armed \subseteq Sockets
  /\ socket \in Sockets \cup {None}

\* However many sockets were set up and forgotten, the transport only counts as
\* connected while at least one of its sockets is (tcp.ts 127-152, 215-219).
ConnectedHasOpenSocket == isConnected => \E s \in Sockets : phase[s] = "open"

\* A message that stays incomplete is noticed: the message timer runs as long
\* as the rest is missing on a connected transport (tcp.ts 143-147, 160-180).
IncompleteMessageTimed == length /\ isConnected => timer

\* Once disconnect() has been called for good the transport ends up
\* disconnected, sockets still being set up notwithstanding (tcp.ts 87-94).
DisconnectIsFinal == <>[]~wanted => <>[]~isConnected

\* Connected without a socket to write to ('no socket!', tcp.ts 270, or one
\* that is gone) does not last: the socket that made it so idles out or ends.
UnwritableHeals ==
  (isConnected /\ socket \notin Live) ~> (~isConnected \/ socket \in Live)

\* While a connection is wanted the transport gets connected again and again.
KeepsConnecting == <>[]wanted => []<>isConnected

=============================================================================
