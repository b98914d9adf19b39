------------------------ MODULE TcpTransportProofs ------------------------
(***************************************************************************)
(* Proofs about TcpTransport, for any number of sockets and of name         *)
(* resolutions under way.                                                  *)
(*                                                                         *)
(* That the rest of a message is timed depends on what a transport that    *)
(* does not count as connected can do: its _socket is never an open one, so *)
(* that it reads nothing and keeps no length and no timer from before.     *)
(***************************************************************************)
EXTENDS TcpTransport, TLAPS

USE SocketsAssumption, LookupsAssumption

Idle == ~length /\ ~timer /\ (socket \in Sockets => phase[socket] # "open")

\* What is left of a connection once it does not count any more.
DisconnectedIsIdle == ~isConnected => Idle

Reading == length => timer

IInv == TypeOK /\ ConnectedHasOpenSocket /\ DisconnectedIsIdle /\ Reading

-----------------------------------------------------------------------------
(* _onDisconnection, whatever has become of the sockets before.            *)

Phases == [Sockets -> {"gone", "connecting", "open"}]

\* It keeps the types and leaves the transport disconnected and idle, provided
\* that the sockets of a disconnected transport are no more open than before.
LEMMA Disconnected ==
  ASSUME IInv, NEW p \in Phases, OnDisconnection(p),
         \A s \in Sockets : p[s] = "open" => phase[s] = "open"
  PROVE  /\ isConnected' = FALSE
         /\ phase' \in Phases
         /\ socket' \in Sockets \cup {None}
         /\ length' = FALSE /\ timer' = FALSE
         /\ socket' \in Sockets => phase'[socket'] # "open"
<1>1. CASE ~isConnected
  BY <1>1 DEF OnDisconnection, IInv, TypeOK, DisconnectedIsIdle, Idle, Phases
<1>2. CASE isConnected
  BY <1>2 DEF OnDisconnection, IInv, TypeOK, Phases
<1>3. QED
  BY <1>1, <1>2

\* A step that disconnects keeps the invariant if it keeps the other types.
LEMMA DisconnectionKeeps ==
  ASSUME IInv, NEW p \in Phases, OnDisconnection(p),
         \A s \in Sockets : p[s] = "open" => phase[s] = "open",
         wanted' \in BOOLEAN, lookups' \in 0..MaxLookups, armed' \subseteq Sockets
  PROVE  IInv'
<1>1. TypeOK'
  BY Disconnected DEF TypeOK, Phases
<1>2. ~isConnected' /\ ~length' /\ Idle'
  BY Disconnected DEF Idle
<1>3. QED
  BY <1>1, <1>2 DEF IInv, ConnectedHasOpenSocket, DisconnectedIsIdle, Reading

\* _connect keeps it, whatever is wanted.
LEMMA ConnectKeeps ==
  ASSUME IInv, NEW w \in BOOLEAN, Connect(w), wanted' \in BOOLEAN, armed' = armed
  PROVE  IInv'
<1> USE DEF IInv, TypeOK
<1>1. CASE ~w /\ isConnected /\ OnDisconnection(phase) /\ UNCHANGED lookups
  BY <1>1, DisconnectionKeeps DEF Phases
<1>2. CASE UNCHANGED <<isConnected, phase, socket, length, timer>> /\ lookups' \in 0..MaxLookups
  BY <1>2 DEF ConnectedHasOpenSocket, DisconnectedIsIdle, Idle, Reading
<1>3. QED
  BY <1>1, <1>2 DEF Connect

-----------------------------------------------------------------------------
\* The initial state.
LEMMA InitInv ==
  ASSUME Init
  PROVE  IInv
<1>1. lookups \in 0..MaxLookups
  BY DEF Init
<1>2. ~isConnected /\ ~length /\ ~timer /\ socket \notin Sockets
  BY DEF Init
<1>3. TypeOK
  BY <1>1 DEF Init, TypeOK
<1>4. QED
  BY <1>2, <1>3 DEF IInv, ConnectedHasOpenSocket, DisconnectedIsIdle, Idle, Reading

\* One step per action of TcpTransport.
LEMMA InvKept ==
  ASSUME IInv, [Next]_vars
  PROVE  IInv'
<1> USE DEF IInv, TypeOK
<1>1. CASE Tick \/ SetWanted
  BY <1>1, ConnectKeeps DEF Tick, SetWanted
<1>2. CASE Reconnect
  BY <1>2, DisconnectionKeeps DEF Reconnect, Phases
<1>3. CASE LookupFails
  BY <1>3 DEF LookupFails, ConnectedHasOpenSocket, DisconnectedIsIdle, Idle, Reading
<1>4. CASE SetUpThrows
  BY <1>4 DEF SetUpThrows, ConnectedHasOpenSocket, DisconnectedIsIdle, Idle, Reading
<1>5. ASSUME NEW s \in Sockets, LookupResolves(s) PROVE IInv'
  <2>1. phase' = [phase EXCEPT ![s] = "connecting"] /\ socket' = s
    BY <1>5 DEF LookupResolves
  <2>2. TypeOK'
    BY <1>5 DEF LookupResolves
  <2>3. ConnectedHasOpenSocket'
    BY <1>5, <2>1 DEF LookupResolves, ConnectedHasOpenSocket
  <2>4. DisconnectedIsIdle' /\ Reading'
    BY <1>5, <2>1 DEF LookupResolves, DisconnectedIsIdle, Idle, Reading
  <2>5. QED
    BY <2>2, <2>3, <2>4
<1>6. ASSUME NEW s \in Sockets, OnConnection(s) PROVE IInv'
  BY <1>6 DEF OnConnection, ConnectedHasOpenSocket, DisconnectedIsIdle, Reading
<1>7. ASSUME NEW s \in Sockets, Ends(s) PROVE IInv'
  <2>1. [phase EXCEPT ![s] = "gone"] \in Phases
    BY DEF Phases
  <2>2. \A t \in Sockets : [phase EXCEPT ![s] = "gone"][t] = "open" => phase[t] = "open"
    OBVIOUS
  <2>3. QED
    BY <1>7, <2>1, <2>2, DisconnectionKeeps DEF Ends
<1>8. ASSUME NEW s \in Sockets, Idles(s) PROVE IInv'
  BY <1>8, DisconnectionKeeps DEF Idles, Phases
<1>9. ASSUME NEW zero \in BOOLEAN, ReadLength(zero) PROVE IInv'
  <2>1. isConnected
    BY <1>9 DEF ReadLength, DisconnectedIsIdle, Idle
  <2>2. QED
    BY <1>9, <2>1 DEF ReadLength, ConnectedHasOpenSocket, DisconnectedIsIdle, Reading
<1>10. CASE ReadPayload
  <2>1. isConnected
    BY <1>10 DEF ReadPayload, DisconnectedIsIdle, Idle
  <2>2. QED
    BY <1>10, <2>1 DEF ReadPayload, ConnectedHasOpenSocket, DisconnectedIsIdle, Reading
<1>11. CASE Write
  BY <1>11 DEF Write, ConnectedHasOpenSocket, DisconnectedIsIdle, Idle, Reading
<1>12. CASE MessageTimeout
  <2>1. isConnected
    BY <1>12 DEF MessageTimeout, DisconnectedIsIdle, Idle
  <2>2. QED
    BY <1>12, <2>1, DisconnectionKeeps DEF MessageTimeout, Phases
<1>13. CASE UNCHANGED vars
  BY <1>13 DEF vars, ConnectedHasOpenSocket, DisconnectedIsIdle, Idle, Reading
<1>14. QED
  BY <1>1, <1>2, <1>3, <1>4, <1>5, <1>6, <1>7, <1>8, <1>9, <1>10, <1>11, <1>12, <1>13 DEF Next

\* The inductive invariant holds in every reachable state.
LEMMA InductiveInvariant == Spec => []IInv
BY InitInv, InvKept, PTL DEF Spec

\* The variables keep their types, the bound on name resolutions included.
THEOREM TypeCorrect == Spec => []TypeOK
<1>1. IInv => TypeOK
  BY DEF IInv
<1>2. QED
  BY InductiveInvariant, <1>1, PTL

\* A transport that counts as connected has an open socket (tcp.ts 127-152).
THEOREM ConnectedSocket == Spec => []ConnectedHasOpenSocket
<1>1. IInv => ConnectedHasOpenSocket
  BY DEF IInv
<1>2. QED
  BY InductiveInvariant, <1>1, PTL

\* The rest of a message is never waited for without the message timer (tcp.ts
\* 143-147, 160-180).
THEOREM MessagesTimed == Spec => []IncompleteMessageTimed
<1>1. IInv => IncompleteMessageTimed
  BY DEF IInv, Reading, IncompleteMessageTimed
<1>2. QED
  BY InductiveInvariant, <1>1, PTL

\* A connection never begins within a message of an earlier one, with its length or its
\* timer, whichever sockets were forgotten: what does not count as connected reads
\* nothing and has nothing half read (tcp.ts 127-195).
THEOREM ConnectionsBeginClean == Spec => []DisconnectedIsIdle
<1>1. IInv => DisconnectedIsIdle
  BY DEF IInv
<1>2. QED
  BY InductiveInvariant, <1>1, PTL

\* Nothing is left that could connect: no socket is wanted, being set up or connecting.
Settled ==
  ~wanted /\ ~isConnected /\ lookups = 0 /\ \A s \in Sockets : phase[s] # "connecting"

\* Once nothing is left to connect, only connect() makes a transport connect again: no
\* interval, timer or forgotten socket does (tcp.ts 78-94, 127-152).
StaysDisconnected == [][Settled => Settled' \/ wanted']_vars

\* So it is for any number of sockets.
THEOREM DisconnectedForGood == Spec => StaysDisconnected
<1>1. ASSUME TypeOK, Settled, Next PROVE Settled' \/ wanted'
  <2>1. CASE Tick \/ SetWanted \/ Reconnect
    BY <1>1, <2>1 DEF Tick, SetWanted, Reconnect, Connect, Settled, TypeOK
  <2>2. CASE LookupFails \/ SetUpThrows \/ \E s \in Sockets : LookupResolves(s) \/ OnConnection(s)
    BY <1>1, <2>2 DEF LookupFails, SetUpThrows, LookupResolves, OnConnection, Settled, TypeOK
  <2>3. ASSUME NEW s \in Sockets, Ends(s) \/ Idles(s) PROVE Settled'
    BY <1>1, <2>3 DEF Ends, Idles, OnDisconnection, Settled, TypeOK
  <2>4. CASE ReadPayload \/ Write \/ \E zero \in BOOLEAN : ReadLength(zero)
    BY <1>1, <2>4 DEF ReadPayload, Write, ReadLength, Settled
  <2>5. CASE MessageTimeout
    BY <1>1, <2>5 DEF MessageTimeout, Settled
  <2>6. QED
    BY <1>1, <2>1, <2>2, <2>3, <2>4, <2>5 DEF Next
<1>2. TypeOK /\ [Next]_vars => [Settled => Settled' \/ wanted']_vars
  BY <1>1
<1>3. QED
  BY TypeCorrect, <1>2, PTL DEF Spec, StaysDisconnected

=============================================================================
