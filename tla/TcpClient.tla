------------------------------ MODULE TcpClient ------------------------------
(***************************************************************************)
(* A TCPClient: it keeps one socket connected as long as that is wanted.   *)
(* An interval connects again and replaces a connection on which there was *)
(* silence for too long; writing counts as well as reading. The socket of  *)
(* the avr is wanted for good, and the schedule writes a query to it; the  *)
(* sockets of washer and dryer are only read, and wanted while their       *)
(* bridge is online.                                                       *)
(*                                                                         *)
(* _isDisconnecting is set and reset in one go and left out, and so is the *)
(* queue of writes, as nobody writes without a connection. A socket that   *)
(* fails emits error and close together.                                   *)
(***************************************************************************)
EXTENDS Integers

CONSTANT Silence   \* _reconnectAfterInteractionSilence in ticks

ASSUME SilenceAssumption == Silence \in Nat \ {0}

VARIABLES
  queried,       \* is it the avr's? never changes
  wanted,        \* _shouldBeConnected, as long as which the interval runs
  isConnecting,
  isConnected,
  silence,       \* ticks since _lastInteraction, or Never
  socket,        \* "none", "connecting", "open", "stale": open on this side only,
                 \* or "reset": stale, and written to
  peerUp         \* the other side listens, and the network is there

clientVars == <<queried, wanted, isConnecting, isConnected, silence, socket, peerUp>>

Never == -1
Open == {"open", "stale", "reset"}

-----------------------------------------------------------------------------
ClientInit ==
  /\ queried \in BOOLEAN
  /\ wanted = FALSE
  /\ isConnecting = FALSE
  /\ isConnected = FALSE
  /\ silence = Never
  /\ socket = "none"
  /\ peerUp = FALSE

\* _connect: a new socket starts connecting, unless there is one already.
StartsConnecting ==
  IF isConnected \/ isConnecting
    THEN UNCHANGED <<isConnecting, isConnected, silence, socket>>
    ELSE /\ isConnecting' = TRUE
         /\ socket' = "connecting"
         /\ UNCHANGED <<isConnected, silence>>

\* _disconnect and _cleanupSocket: a connection is dropped. A socket that is still
\* connecting goes on.
CleanupSocket ==
  IF isConnected
    THEN /\ isConnected' = FALSE
         /\ silence' = Never
         /\ socket' = "none"
         /\ UNCHANGED isConnecting
    ELSE UNCHANGED <<isConnecting, isConnected, silence, socket>>

ConnectClient ==
  /\ wanted' = TRUE
  /\ StartsConnecting
  /\ UNCHANGED <<queried, peerUp>>

DisconnectClient ==
  /\ ~queried
  /\ wanted' = FALSE
  /\ CleanupSocket
  /\ UNCHANGED <<queried, peerUp>>

\* The interval: it connects, or replaces a silent connection.
Interval ==
  /\ wanted
  /\ IF isConnected /\ silence >= Silence
       THEN /\ isConnected' = FALSE
            /\ isConnecting' = TRUE
            /\ silence' = Never
            /\ socket' = "connecting"
       ELSE StartsConnecting
  /\ UNCHANGED <<queried, wanted, peerUp>>

\* Variant: a connection is not watched before something was read or written.
BugUnwatched ==
  /\ socket = "connecting" /\ peerUp
  /\ isConnecting' = FALSE
  /\ isConnected' = TRUE
  /\ socket' = "open"
  /\ UNCHANGED <<queried, wanted, silence, peerUp>>

\* 'connect', whether it is still wanted or not.
SocketConnects ==
  /\ socket = "connecting" /\ peerUp
  /\ isConnecting' = FALSE
  /\ isConnected' = TRUE
  /\ socket' = "open"
  /\ silence' = 0
  /\ UNCHANGED <<queried, wanted, peerUp>>

\* 'error' and 'close' of a socket that never connected.
SocketFails ==
  /\ socket = "connecting"
  /\ isConnecting' = FALSE
  /\ socket' = "none"
  /\ UNCHANGED <<queried, wanted, isConnected, silence, peerUp>>

\* 'close' of one that did: the other side closes or resets it, or nothing is
\* acknowledged for long.
SocketCloses ==
  /\ socket \in Open
  /\ CleanupSocket
  /\ UNCHANGED <<queried, wanted, peerUp>>

\* 'data'
SocketReads ==
  /\ socket = "open" /\ peerUp
  /\ silence' = 0
  /\ UNCHANGED <<queried, wanted, isConnecting, isConnected, socket, peerUp>>

\* _write, called by the schedule: the query of the avr.
Query ==
  /\ IF queried /\ isConnected
       THEN /\ silence' = 0
            /\ socket' = IF socket = "open" THEN "open" ELSE "reset"
       ELSE UNCHANGED <<silence, socket>>
  /\ UNCHANGED <<queried, wanted, isConnecting, isConnected, peerUp>>

\* The other side goes and comes, with or without what it knew of the connection.
PeerToggles ==
  /\ peerUp' = ~peerUp
  /\ socket' \in {socket, IF socket = "open" THEN "stale" ELSE socket}
  /\ UNCHANGED <<queried, wanted, isConnecting, isConnected, silence>>

ClientTick ==
  /\ silence' = IF silence \in 0..(Silence - 1) THEN silence + 1 ELSE silence
  /\ UNCHANGED <<queried, wanted, isConnecting, isConnected, socket, peerUp>>

ClientStep ==
  \/ ConnectClient \/ DisconnectClient \/ Interval
  \/ SocketConnects \/ SocketFails \/ SocketCloses \/ SocketReads
  \/ PeerToggles

=============================================================================
