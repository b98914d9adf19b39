------------------------- MODULE UdpTransportProofs -------------------------
(***************************************************************************)
(* Proofs about UdpTransport for any number of name resolutions and copies *)
(* at a time. The newest payload is heard last because the copies form one *)
(* queue, those in the air before those that wait, and the newest written  *)
(* is the last of it until it is heard.                                    *)
(***************************************************************************)
EXTENDS UdpTransport, TLAPS

Newest(q) == q[Len(q)] = "newest"

NewestIsLast ==
  ~disturbed =>
    /\ waiting # <<>> => Newest(waiting)
    /\ waiting = <<>> /\ air # <<>> => Newest(air)
    /\ waiting = <<>> /\ air = <<>> => heard

\* A port out of range never gets anything connected.
ConnectsToValid == isConnected => validPort

IInv == TypeOK /\ ConnectedCanWrite /\ ConnectsToValid /\ NewestIsLast

\* What becomes of a queue when all of it gets older and one copy is added.
LEMMA AgedAndAppended ==
  ASSUME NEW q \in Seq(Copies)
  PROVE  /\ Append(Aged(q), "newest") \in Seq(Copies)
         /\ Len(Append(Aged(q), "newest")) = Len(q) + 1
         /\ Append(Aged(q), "newest") # <<>>
         /\ Newest(Append(Aged(q), "newest"))
<1>1. Aged(q) \in Seq(Copies) /\ Len(Aged(q)) = Len(q)
  BY DEF Aged, Copies
<1> QED
  BY <1>1 DEF Newest, Copies

\* What is left of a queue when its oldest copy is taken.
LEMMA Taken ==
  ASSUME NEW q \in Seq(Copies), q # <<>>
  PROVE  /\ Tail(q) \in Seq(Copies)
         /\ Len(Tail(q)) = Len(q) - 1
         /\ Head(q) \in Copies
         /\ Newest(q) /\ Tail(q) # <<>> => Newest(Tail(q))
         /\ Newest(q) /\ Tail(q) = <<>> => Head(q) = "newest"
BY DEF Newest

\* The connection changes only as OnDisconnection and a new socket make it.
LEMMA ConnectKeeps ==
  ASSUME TypeOK, ConnectedCanWrite, NEW w \in BOOLEAN, Connect(w)
  PROVE  /\ isConnected' \in BOOLEAN
         /\ lookups' \in 0..MaxLookups
         /\ socket' \in {"none", "open", "failed"}
         /\ isConnected' <=> socket' = "open"
         /\ isConnected' => isConnected
<1>1. lookups' \in 0..MaxLookups
  BY LookupsAssumption DEF TypeOK, Connect
<1>2. /\ isConnected' \in BOOLEAN
      /\ socket' \in {"none", "open", "failed"}
      /\ isConnected' <=> socket' = "open"
      /\ isConnected' => isConnected
  BY Zenon DEF TypeOK, ConnectedCanWrite, Connect, OnDisconnection
<1> QED
  BY <1>1, <1>2

LEMMA InitHolds ==
  ASSUME Init
  PROVE  IInv
<1>1. lookups \in 0..MaxLookups
  BY LookupsAssumption DEF Init
<1>2. /\ waiting \in Seq(Copies) /\ Len(waiting) <= MaxCopies
      /\ air \in Seq(Copies) /\ Len(air) <= MaxCopies
  BY CopiesAssumption DEF Init
<1>3. ConnectedCanWrite /\ ConnectsToValid
  BY DEF Init, ConnectedCanWrite, ConnectsToValid
<1> QED
  BY <1>1, <1>2, <1>3 DEF Init, IInv, TypeOK, NewestIsLast

\* What is true of the connection and of the traffic, one at a time.
ConnectionOK ==
  /\ wanted \in BOOLEAN /\ isConnected \in BOOLEAN /\ forgotten \in BOOLEAN
  /\ validPort \in BOOLEAN
  /\ lookups \in 0..MaxLookups
  /\ socket \in {"none", "open", "failed"}
  /\ ConnectedCanWrite
  /\ ConnectsToValid

TrafficOK ==
  /\ heard \in BOOLEAN /\ disturbed \in BOOLEAN
  /\ waiting \in Seq(Copies) /\ Len(waiting) <= MaxCopies
  /\ air \in Seq(Copies) /\ Len(air) <= MaxCopies
  /\ NewestIsLast

LEMMA Parts == IInv <=> ConnectionOK /\ TrafficOK
BY DEF IInv, TypeOK, ConnectionOK, TrafficOK

\* No step breaks what is true of the connection.
LEMMA NextKeepsConnection ==
  ASSUME IInv, [Next]_vars
  PROVE  ConnectionOK'
<1> USE DEF ConnectionOK, ConnectedCanWrite, ConnectsToValid
<1>1. ConnectionOK /\ TypeOK
  BY Parts DEF IInv
<1>2. CASE Tick \/ SetWanted
  <2>1. PICK w \in BOOLEAN : Connect(w) /\ wanted' \in BOOLEAN /\ UNCHANGED <<forgotten, validPort>>
    BY <1>1, <1>2 DEF Tick, SetWanted, TypeOK
  <2> QED
    BY <1>1, <2>1, ConnectKeeps
<1>3. CASE Reconnect \/ SocketError
  BY <1>1, <1>3 DEF Reconnect, SocketError, OnDisconnection
<1>4. CASE LookupFails
  BY <1>1, <1>4, LookupsAssumption DEF LookupFails
<1>5. CASE LookupResolves
  <2>1. lookups' \in 0..MaxLookups
    BY <1>1, <1>5, LookupsAssumption DEF LookupResolves
  <2> QED
    BY <1>1, <1>5, <2>1 DEF LookupResolves, Replaced
<1>6. CASE BindFails
  <2>1. lookups' \in 0..MaxLookups
    BY <1>1, <1>6, LookupsAssumption DEF BindFails
  <2> QED
    BY <1>1, <1>6, <2>1 DEF BindFails, Replaced, OnDisconnection
<1>7. CASE SetUpThrows
  <2>1. lookups' \in 0..MaxLookups
    BY <1>1, <1>7, LookupsAssumption DEF SetUpThrows
  <2> QED
    BY <1>1, <1>7, <2>1 DEF SetUpThrows, Replaced
<1>8. CASE UNCHANGED connection
  BY <1>1, <1>8 DEF connection
<1> QED
  BY <1>2, <1>3, <1>4, <1>5, <1>6, <1>7, <1>8
  DEF Next, vars, Write, Repeat, Arrives, Lost, Overtaken

\* No step breaks what is true of the traffic.
LEMMA NextKeepsTraffic ==
  ASSUME IInv, [Next]_vars
  PROVE  TrafficOK'
<1>1. TrafficOK
  BY Parts
<1>2. CASE Write
  <2>1. /\ waiting' = Append(Aged(waiting), "newest")
        /\ air' = Append(Aged(air), "newest")
        /\ heard' = FALSE /\ disturbed' = FALSE
        /\ Len(waiting) < MaxCopies /\ Len(air) < MaxCopies
    BY <1>2 DEF Write
  <2>2. /\ waiting' \in Seq(Copies) /\ Len(waiting') <= MaxCopies
        /\ waiting' # <<>> /\ Newest(waiting')
        /\ air' \in Seq(Copies) /\ Len(air') <= MaxCopies
    BY <1>1, <2>1, AgedAndAppended, CopiesAssumption DEF TrafficOK
  <2> QED
    BY <2>1, <2>2 DEF TrafficOK, NewestIsLast, Newest
<1>3. CASE Repeat
  <2>1. /\ waiting # <<>> /\ waiting' = Tail(waiting) /\ heard' = heard
        /\ Len(air) < MaxCopies
    BY <1>3 DEF Repeat
  <2>2. /\ waiting' \in Seq(Copies) /\ Len(waiting') <= MaxCopies
        /\ Head(waiting) \in Copies
    BY <1>1, <2>1, Taken, CopiesAssumption DEF TrafficOK
  <2>3. CASE socket = "open"
    <3>1. air' = Append(air, Head(waiting)) /\ disturbed' = disturbed
      BY <1>3, <2>3 DEF Repeat
    <3>2. /\ air' \in Seq(Copies) /\ Len(air') <= MaxCopies
          /\ air' # <<>> /\ air'[Len(air')] = Head(waiting)
      BY <1>1, <2>1, <2>2, <3>1, CopiesAssumption DEF TrafficOK
    <3> QED
      BY <1>1, <2>1, <2>2, <3>1, <3>2, Taken DEF TrafficOK, NewestIsLast, Newest
  <2>4. CASE socket # "open"
    BY <1>1, <1>3, <2>1, <2>2, <2>4 DEF Repeat, TrafficOK, NewestIsLast
  <2> QED
    BY <2>3, <2>4
<1>4. ASSUME NEW keep \in BOOLEAN, Arrives(keep) PROVE TrafficOK'
  <2>1. /\ air # <<>> /\ heard' = (Head(air) = "newest")
        /\ waiting' = waiting /\ disturbed' = disturbed
    BY <1>4 DEF Arrives
  <2>2. CASE keep
    BY <1>1, <1>4, <2>1, <2>2 DEF Arrives, TrafficOK, NewestIsLast
  <2>3. CASE ~keep
    <3>1. air' = Tail(air)
      BY <1>4, <2>3 DEF Arrives
    <3>2. air' \in Seq(Copies) /\ Len(air') <= MaxCopies
      BY <1>1, <2>1, <3>1, Taken, CopiesAssumption DEF TrafficOK
    <3>3. NewestIsLast'
      BY <1>1, <2>1, <3>1, Taken DEF TrafficOK, NewestIsLast
    <3> QED
      BY <1>1, <2>1, <3>2, <3>3 DEF TrafficOK
  <2> QED
    BY <2>2, <2>3
<1>5. CASE Lost
  <2>1. /\ air # <<>> /\ air' = Tail(air) /\ disturbed' = TRUE
        /\ waiting' = waiting /\ heard' = heard
    BY <1>5 DEF Lost
  <2>2. air' \in Seq(Copies) /\ Len(air') <= MaxCopies
    BY <1>1, <2>1, Taken, CopiesAssumption DEF TrafficOK
  <2> QED
    BY <1>1, <2>1, <2>2 DEF TrafficOK, NewestIsLast
<1>6. CASE Overtaken
  <2>1. /\ Len(air) > 1 /\ air' = [air EXCEPT ![1] = air[2], ![2] = air[1]]
        /\ disturbed' = TRUE /\ waiting' = waiting /\ heard' = heard
    BY <1>6 DEF Overtaken
  <2>2. air' \in Seq(Copies) /\ Len(air') = Len(air)
    BY <1>1, <2>1 DEF TrafficOK
  <2> QED
    BY <1>1, <2>1, <2>2 DEF TrafficOK, NewestIsLast
<1>7. CASE UNCHANGED traffic
  BY <1>1, <1>7 DEF traffic, TrafficOK, NewestIsLast
<1> QED
  BY <1>2, <1>3, <1>4, <1>5, <1>6, <1>7
  DEF Next, vars, Tick, SetWanted, Reconnect, LookupFails, LookupResolves, BindFails,
      SetUpThrows, SocketError

LEMMA Inductive == Spec => []IInv
<1>1. Init => IInv
  BY InitHolds
<1>2. IInv /\ [Next]_vars => IInv'
  <2> SUFFICES ASSUME IInv, [Next]_vars PROVE IInv'
    OBVIOUS
  <2>1. ConnectionOK' /\ TrafficOK'
    BY NextKeepsConnection, NextKeepsTraffic
  <2> QED
    BY <2>1 DEF IInv, TypeOK, ConnectionOK, TrafficOK
<1> QED
  BY <1>1, <1>2, PTL DEF Spec

\* The variables of the transport keep their types (udp.ts 63-79).
THEOREM TypeCorrect == Spec => []TypeOK
<1>1. IInv => TypeOK
  BY DEF IInv
<1> QED
  BY <1>1, Inductive, PTL

\* A device that sees its transport connected can write to it (udp.ts 181-200).
THEOREM CanWrite == Spec => []ConnectedCanWrite
<1>1. IInv => ConnectedCanWrite
  BY DEF IInv
<1> QED
  BY <1>1, Inductive, PTL

\* The newest command is heard last, copies notwithstanding (udp.ts 282-297).
THEOREM NewestWins == Spec => []NewestCommandLast
<1>1. IInv => NewestCommandLast
  BY DEF IInv, NewestIsLast, NewestCommandLast
<1> QED
  BY <1>1, Inductive, PTL

\* Nothing is left that could connect: no socket is wanted or being set up.
Settled == ~wanted /\ ~isConnected /\ lookups = 0

\* Once nothing is left to connect, only connect() makes a transport connect again, open
\* sockets it forgot and their errors notwithstanding (udp.ts 105-107, 130-137, 181-200).
StaysDisconnected == [][Settled => Settled' \/ wanted']_vars

\* So it is for any number of name resolutions.
THEOREM DisconnectedForGood == Spec => StaysDisconnected
<1>1. ASSUME TypeOK, Settled, Next PROVE Settled' \/ wanted'
  <2>1. CASE Tick \/ SetWanted \/ Reconnect \/ SocketError
    BY <1>1, <2>1
       DEF Tick, SetWanted, Reconnect, SocketError, OnDisconnection, Connect, Settled, TypeOK
  <2>2. CASE LookupFails \/ LookupResolves \/ BindFails \/ SetUpThrows
    BY <1>1, <2>2 DEF LookupFails, LookupResolves, BindFails, SetUpThrows, Settled, TypeOK
  <2>3. CASE Write \/ Repeat \/ (\E keep \in BOOLEAN : Arrives(keep)) \/ Lost \/ Overtaken
    BY <1>1, <2>3 DEF Write, Repeat, Arrives, Lost, Overtaken, connection, Settled
  <2>4. QED
    BY <1>1, <2>1, <2>2, <2>3 DEF Next
<1>2. TypeOK /\ [Next]_vars => [Settled => Settled' \/ wanted']_vars
  BY <1>1
<1>3. QED
  BY TypeCorrect, <1>2, PTL DEF Spec, StaysDisconnected

=============================================================================
