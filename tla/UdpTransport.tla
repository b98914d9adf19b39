---------------------------- MODULE UdpTransport ----------------------------
(***************************************************************************)
(* A UDPTransport, the transport of nearly every device. Its connection is *)
(* handled as that of a TCPTransport, but nothing tells that the other     *)
(* side is gone and no socket ever idles out: a socket that was replaced   *)
(* while it was open, by a name resolution that took longer than a second, *)
(* stays open for ever. Its errors still break the connection.             *)
(*                                                                         *)
(* Every payload is sent twice, the second copy 10 ms after the first and  *)
(* through whatever is _socket by then. What a copy says does not matter   *)
(* here, only whether it is one of the payload written last: the device    *)
(* should act on that one last. Numbering of messages (sequenceHandling)   *)
(* is used by no caller and left out.                                      *)
(***************************************************************************)
EXTENDS Naturals, Sequences

CONSTANTS
  MaxLookups,    \* bound: name resolutions awaited at the same time
  MaxCopies      \* bound: copies waiting for their 10 ms, and copies in the air

ASSUME LookupsAssumption == MaxLookups \in Nat
ASSUME CopiesAssumption == MaxCopies \in Nat

VARIABLES
  wanted,        \* _shouldBeConnected
  isConnected,   \* _isConnected
  lookups,       \* runs of _setUpSocket that await the name resolution
  socket,        \* _socket: "none", "open", or "failed" when it could not be bound
  forgotten,     \* open sockets that _socket no longer refers to exist
  validPort,     \* connect() of a socket does not throw; never changes
  waiting,       \* second copies that wait for their time-out, oldest first
  air,           \* copies on their way to the device, oldest first
  heard,         \* the device has last heard a copy of the newest payload
  disturbed      \* history: since the newest payload was written a copy was lost or
                 \* overtaken, by the network or for want of a socket

connection == <<wanted, isConnected, lookups, socket, forgotten, validPort>>
traffic == <<waiting, air, heard, disturbed>>
vars == <<connection, traffic>>

\* Is it a copy of the newest payload, or of an older one?
Copies == {"newest", "older"}

-----------------------------------------------------------------------------
(* The connection.                                                         *)

\* _onDisconnection, when s is _socket by now.
OnDisconnection(s) ==
  /\ isConnected' = FALSE
  /\ socket' = IF isConnected THEN "none" ELSE s

\* _setUpSocket after the await: _socket is replaced, connected or not.
Replaced == forgotten' = (forgotten \/ socket = "open")

\* _connect, when w is what is wanted.
Connect(w) ==
  \/ /\ w /\ ~isConnected
     /\ lookups < MaxLookups
     /\ lookups' = lookups + 1
     /\ UNCHANGED <<isConnected, socket>>
  \/ /\ ~w /\ isConnected
     /\ OnDisconnection(socket)
     /\ UNCHANGED lookups
  \/ /\ w = isConnected
     /\ UNCHANGED <<isConnected, lookups, socket>>

Init ==
  /\ wanted = FALSE
  /\ isConnected = FALSE
  /\ lookups = 0
  /\ socket = "none"
  /\ forgotten = FALSE
  /\ validPort \in BOOLEAN
  /\ waiting = <<>>
  /\ air = <<>>
  /\ heard = TRUE
  /\ disturbed = FALSE

\* Variant: the interval only ever disconnects.
BugTickDisconnects == ~wanted /\ Connect(wanted) /\ UNCHANGED <<wanted, forgotten, validPort, traffic>>

\* setInterval(_connect, keepAlive / 2)
Tick == Connect(wanted) /\ UNCHANGED <<wanted, forgotten, validPort, traffic>>

\* connect() and disconnect(): setting what is wanted runs _connect at once.
SetWanted ==
  /\ wanted' = ~wanted
  /\ Connect(~wanted)
  /\ UNCHANGED <<forgotten, validPort, traffic>>

\* reconnect()
Reconnect ==
  /\ isConnected
  /\ OnDisconnection(socket)
  /\ UNCHANGED <<wanted, lookups, forgotten, validPort, traffic>>

LookupFails ==
  /\ lookups > 0
  /\ lookups' = lookups - 1
  /\ UNCHANGED <<wanted, isConnected, socket, forgotten, validPort, traffic>>

\* The name is resolved: a new socket is set up, and bound before anything else
\* happens. 'listening' makes the transport connected.
LookupResolves ==
  /\ lookups > 0
  /\ lookups' = lookups - 1
  /\ validPort
  /\ Replaced
  /\ socket' = "open"
  /\ isConnected' = TRUE
  /\ UNCHANGED <<wanted, validPort, traffic>>

\* Variant: the 'error' of a socket that cannot be bound is not listened to.
BugBindUnheard ==
  /\ lookups > 0
  /\ lookups' = lookups - 1
  /\ validPort
  /\ Replaced
  /\ socket' = "failed"
  /\ UNCHANGED <<wanted, isConnected, validPort, traffic>>

\* ... but it cannot be bound: 'error'.
BindFails ==
  /\ lookups > 0
  /\ lookups' = lookups - 1
  /\ validPort
  /\ Replaced
  /\ OnDisconnection("failed")
  /\ UNCHANGED <<wanted, validPort, traffic>>

\* ... but its connect() throws, for a port out of range: it is destroyed.
SetUpThrows ==
  /\ lookups > 0
  /\ lookups' = lookups - 1
  /\ ~validPort
  /\ Replaced
  /\ socket' = "none"
  /\ UNCHANGED <<wanted, isConnected, validPort, traffic>>

\* 'error' of any open socket, such as a port that is unreachable.
SocketError ==
  /\ socket = "open" \/ forgotten
  /\ OnDisconnection(socket)
  /\ UNCHANGED <<wanted, lookups, forgotten, validPort, traffic>>

-----------------------------------------------------------------------------
(* Payloads.                                                               *)

\* All copies so far are of an older payload from now on.
Aged(q) == [i \in DOMAIN q |-> "older"]

\* Variant: the second copies are sent latest first.
BugStacked ==
  /\ isConnected /\ socket = "open"
  /\ Len(waiting) < MaxCopies /\ Len(air) < MaxCopies
  /\ air' = Append(Aged(air), "newest")
  /\ waiting' = <<"newest">> \o Aged(waiting)
  /\ heard' = FALSE
  /\ disturbed' = FALSE
  /\ UNCHANGED connection

\* writeToNetwork. Whoever calls it, requests, keepalives and triggerReset of the
\* device, has seen isConnected. Without a socket it throws and nothing is sent.
Write ==
  /\ isConnected /\ socket = "open"
  /\ Len(waiting) < MaxCopies /\ Len(air) < MaxCopies
  /\ air' = Append(Aged(air), "newest")
  /\ waiting' = Append(Aged(waiting), "newest")
  /\ heard' = FALSE
  /\ disturbed' = FALSE
  /\ UNCHANGED connection

\* Time-outs of the same length run out in the order they were started in. Without
\* a socket the copy is not sent (`_socket?.send`).
Repeat ==
  /\ waiting # <<>>
  /\ Len(air) < MaxCopies
  /\ waiting' = Tail(waiting)
  /\ IF socket = "open"
       THEN air' = Append(air, Head(waiting)) /\ UNCHANGED disturbed
       ELSE UNCHANGED air /\ disturbed' = TRUE
  /\ UNCHANGED <<connection, heard>>

\* The oldest copy arrives; the network may keep it and deliver it once more.
Arrives(keep) ==
  /\ air # <<>>
  /\ heard' = (Head(air) = "newest")
  /\ air' = IF keep THEN air ELSE Tail(air)
  /\ UNCHANGED <<connection, waiting, disturbed>>

\* The oldest copy is lost, or overtaken by the one behind.
Lost ==
  /\ air # <<>>
  /\ air' = Tail(air)
  /\ disturbed' = TRUE
  /\ UNCHANGED <<connection, waiting, heard>>

Overtaken ==
  /\ Len(air) > 1
  /\ air' = [air EXCEPT ![1] = air[2], ![2] = air[1]]
  /\ disturbed' = TRUE
  /\ UNCHANGED <<connection, waiting, heard>>

Next ==
  \/ Tick
  \/ SetWanted
  \/ Reconnect
  \/ LookupFails
  \/ LookupResolves
  \/ BindFails
  \/ SetUpThrows
  \/ SocketError
  \/ Write
  \/ Repeat
  \/ \E keep \in BOOLEAN : Arrives(keep)
  \/ Lost
  \/ Overtaken

Spec == Init /\ [][Next]_vars

\* The interval keeps running; name resolutions end, and for a valid port one
\* succeeds now and then.
FairSpec ==
  /\ Spec
  /\ WF_vars(Tick)
  /\ WF_vars(LookupFails \/ LookupResolves \/ BindFails \/ SetUpThrows)
  /\ SF_vars(LookupResolves)

-----------------------------------------------------------------------------
(* Properties.                                                             *)

\* The variables keep their types (udp.ts 63-79, 205-240, 282-297).
TypeOK ==
  /\ wanted \in BOOLEAN /\ isConnected \in BOOLEAN /\ forgotten \in BOOLEAN
  /\ validPort \in BOOLEAN /\ heard \in BOOLEAN /\ disturbed \in BOOLEAN
  /\ lookups \in 0..MaxLookups
  /\ socket \in {"none", "open", "failed"}
  /\ waiting \in Seq(Copies) /\ Len(waiting) <= MaxCopies
  /\ air \in Seq(Copies) /\ Len(air) <= MaxCopies

\* A device that sees its transport connected can write to it, however many name
\* resolutions overlapped and whichever socket failed: the transport counts as
\* connected exactly while _socket is open (udp.ts 181-200, 221-239, 270-273).
ConnectedCanWrite == isConnected <=> socket = "open"

\* Sending everything twice never lets an older command win: when all copies have
\* arrived, and unless one of them was lost or overtaken, the device has heard the
\* newest payload last (udp.ts 282-297).
NewestCommandLast == waiting = <<>> /\ air = <<>> /\ ~disturbed => heard

\* What is wanted for good wins: the transport gets connected again and again, or
\* ends up disconnected (udp.ts 105-107, 130-137).
WantedWins ==
  /\ validPort /\ <>[]wanted => []<>isConnected
  /\ <>[]~wanted => <>[]~isConnected

=============================================================================
