---------------------------- MODULE WebApiProofs ----------------------------
(***************************************************************************)
(* Proofs about WebApi, for any number of streams, any interactions and any *)
(* values. The four safety properties and the types are inductive together. *)
(***************************************************************************)
EXTENDS WebApi, TLAPS

USE InteractionsAssumption, ValuesAssumption

IInv ==
  /\ TypeOK
  /\ StreamsAreCurrent
  /\ StreamsKnowCount
  /\ OpenStreamsAreCounted
  /\ ClosedLeavesNothing

-----------------------------------------------------------------------------
(* handleStreamClose.                                                      *)

\* The count after closing a counted stream is not zero if it was not before.
LEMMA Remaining ==
  ASSUME NEW n \in Nat
  PROVE  /\ n - (IF n > 1 THEN n - 1 ELSE 0) \in Nat
         /\ n > 0 => n - (IF n > 1 THEN n - 1 ELSE 0) > 0
OBVIOUS

\* What it does to the count and to what the streams know of it.
LEMMA CountClosed ==
  ASSUME TypeOK, StreamsKnowCount, NEW c \in Clients, HandleStreamClose(c), counted' = counted
  PROVE  /\ streamCount' \in Nat
         /\ streamCount > 0 => streamCount' > 0
         /\ told' \in [Clients -> Nat \cup {None}]
         /\ StreamsKnowCount'
<1>1. CASE c \notin counted
  BY <1>1 DEF HandleStreamClose, TypeOK, StreamsKnowCount
<1>2. CASE c \in counted
  <2> DEFINE n == streamCount - (IF streamCount > 1 THEN streamCount - 1 ELSE 0)
  <2>1. n \in Nat /\ (streamCount > 0 => n > 0)
    BY Remaining DEF TypeOK
  <2>2. SetStreamCount(n, listening \ {c})
    BY <1>2 DEF HandleStreamClose
  <2> HIDE DEF n
  <2>3. streamCount' = n
    BY <2>2 DEF SetStreamCount
  <2>4. \A d \in Clients :
          told'[d] = IF n # streamCount /\ d \in listening \ {c} THEN n ELSE told[d]
    BY <2>2 DEF SetStreamCount
  <2>5. told' \in [Clients -> Nat \cup {None}]
    BY <2>1, <2>2 DEF SetStreamCount, TypeOK
  <2>6. listening' = listening \ {c}
    BY DEF HandleStreamClose
  <2>7. StreamsKnowCount'
    BY <2>3, <2>4, <2>6 DEF StreamsKnowCount, TypeOK
  <2>8. QED
    BY <2>1, <2>3, <2>5, <2>7
<1>3. QED
  BY <1>1, <1>2

\* A step that closes a stream, in whatever way, keeps the invariant.
LEMMA CloseKeeps ==
  ASSUME IInv, NEW c \in Clients, HandleStreamClose(c),
         NEW w \in {"closed", "closing"}, ws' = [ws EXCEPT ![c] = w],
         reachable' \subseteq reachable, UNCHANGED <<value, counted, known>>
  PROVE  IInv'
<1> USE DEF IInv
<1>1. /\ listening' = listening \ {c}
      /\ pinging' = pinging \ {c}
      /\ timing' = timing \ {c}
  BY DEF HandleStreamClose
<1>2. TypeOK'
  <2>1. /\ listening' \subseteq Clients /\ pinging' \subseteq Clients /\ timing' \subseteq Clients
        /\ reachable' \subseteq Clients /\ counted' \subseteq Clients
    BY <1>1 DEF TypeOK
  <2>2. ws' \in [Clients -> {"closed", "open", "closing"}]
    BY DEF TypeOK
  <2>3. QED
    BY <2>1, <2>2, CountClosed DEF TypeOK
<1>3. StreamsAreCurrent'
  BY <1>1 DEF StreamsAreCurrent
<1>4. OpenStreamsAreCounted'
  BY <1>1, CountClosed DEF OpenStreamsAreCounted
<1>5. ClosedLeavesNothing'
  BY <1>1 DEF ClosedLeavesNothing, TypeOK
<1>6. QED
  BY <1>2, <1>3, <1>4, <1>5, CountClosed

-----------------------------------------------------------------------------
(* Every step keeps the invariant.                                         *)

\* The initial state.
LEMMA InitInv ==
  ASSUME Init
  PROVE  IInv
BY DEF Init, IInv, TypeOK, StreamsAreCurrent, StreamsKnowCount, OpenStreamsAreCounted,
       ClosedLeavesNothing

\* A change of an interaction, pushed to every stream (api/main.ts 85-89).
LEMMA PushKeeps ==
  ASSUME IInv, NEW i \in Ids, NEW v \in Values, Push(i, v),
         UNCHANGED <<ws, reachable, counted, listening, pinging, timing, streamCount, told>>
  PROVE  IInv'
<1> USE DEF IInv
<1>1. value' = [value EXCEPT ![i] = v] /\ value' \in [Ids -> Values]
  BY DEF Push, TypeOK
<1>2. \A c \in Clients : known'[c] \in [Ids -> Values \cup {None}]
  BY DEF Push, TypeOK
<1>3. known' \in [Clients -> [Ids -> Values \cup {None}]]
  BY <1>2 DEF Push
<1>4. TypeOK'
  BY <1>1, <1>3 DEF TypeOK
<1>5. ASSUME NEW c \in listening, NEW j \in Ids
      PROVE  known'[c][j] \in {None, value'[j]}
  <2>1. c \in Clients /\ known[c] \in [Ids -> Values \cup {None}] /\ value \in [Ids -> Values]
    BY DEF TypeOK
  <2>2. known[c][j] \in {None, value[j]}
    BY DEF StreamsAreCurrent
  <2>3. CASE v = value[i]
    BY <1>1, <2>1, <2>2, <2>3 DEF Push
  <2>4. CASE v # value[i]
    <3>1. known'[c] = [known[c] EXCEPT ![i] = v]
      BY <2>1, <2>4 DEF Push
    <3>2. QED
      BY <1>1, <2>1, <2>2, <3>1
  <2>5. QED
    BY <2>3, <2>4
<1>6. StreamsAreCurrent'
  BY <1>5 DEF StreamsAreCurrent
<1>7. QED
  BY <1>4, <1>6 DEF StreamsKnowCount, OpenStreamsAreCounted, ClosedLeavesNothing

\* A new stream, counted or not (api/main.ts 72-95).
LEMMA StreamKeeps ==
  ASSUME IInv, NEW c \in Clients, NEW count \in BOOLEAN, HandleStream(c, count)
  PROVE  IInv'
<1> USE DEF IInv
<1>1. /\ ws' = [ws EXCEPT ![c] = "open"]
      /\ listening' = listening \cup {c}
      /\ pinging' = pinging \cup {c}
      /\ UNCHANGED <<value, timing>>
      /\ streamCount' = IF count THEN streamCount + 1 ELSE streamCount
      /\ counted' = IF count THEN counted \cup {c} ELSE counted \ {c}
      /\ reachable' = reachable \cup {c}
  BY DEF HandleStream
<1>2. \A d \in Clients :
        told'[d] = IF count /\ d \in listening \cup {c} THEN streamCount + 1
                   ELSE IF d = c THEN None ELSE told[d]
  BY DEF HandleStream
<1>3. streamCount' \in Nat /\ streamCount + 1 \in Nat /\ streamCount + 1 > 0
  BY <1>1 DEF TypeOK
<1>4. TypeOK'
  <2>1. told' \in [Clients -> Nat \cup {None}]
    BY <1>3 DEF HandleStream, TypeOK
  <2>2. known' = [known EXCEPT ![c] = [i \in Ids |-> None]]
    BY DEF HandleStream
  <2>3. known' \in [Clients -> [Ids -> Values \cup {None}]]
    BY <2>2 DEF TypeOK
  <2>4. /\ counted' \subseteq Clients /\ reachable' \subseteq Clients
        /\ listening' \subseteq Clients /\ pinging' \subseteq Clients
    BY <1>1 DEF TypeOK
  <2>5. QED
    BY <1>1, <1>3, <2>1, <2>3, <2>4 DEF TypeOK
<1>5. StreamsAreCurrent'
  <2>1. \A d \in Clients, i \in Ids :
          known'[d][i] = IF d = c THEN None ELSE known[d][i]
    BY DEF HandleStream, TypeOK
  <2>2. QED
    BY <1>1, <2>1 DEF StreamsAreCurrent, TypeOK
<1>6. StreamsKnowCount'
  BY <1>1, <1>2 DEF StreamsKnowCount, TypeOK
<1>7. OpenStreamsAreCounted'
  <2>1. CASE count
    BY <1>1, <1>3, <2>1 DEF OpenStreamsAreCounted
  <2>2. CASE ~count
    BY <1>1, <2>2 DEF OpenStreamsAreCounted
  <2>3. QED
    BY <2>1, <2>2
<1>8. ClosedLeavesNothing'
  <2>1. ws[c] = "closed" /\ c \notin timing
    BY DEF HandleStream, ClosedLeavesNothing
  <2>2. QED
    BY <1>1, <2>1 DEF ClosedLeavesNothing, TypeOK
<1>9. QED
  BY <1>4, <1>5, <1>6, <1>7, <1>8

\* A client reads all values (api/main.ts 191-205).
LEMMA ReadKeeps ==
  ASSUME IInv, NEW c \in Clients, HandleValuesGet(c)
  PROVE  IInv'
<1> USE DEF IInv
<1>1. TypeOK'
  BY DEF HandleValuesGet, TypeOK
<1>2. StreamsAreCurrent' /\ StreamsKnowCount'
  BY DEF HandleValuesGet, TypeOK, StreamsAreCurrent, StreamsKnowCount
<1>3. OpenStreamsAreCounted' /\ ClosedLeavesNothing'
  BY DEF HandleValuesGet, OpenStreamsAreCounted, ClosedLeavesNothing
<1>4. QED
  BY <1>1, <1>2, <1>3

\* One step per action of WebApi.
LEMMA InvKept ==
  ASSUME IInv, [Next]_vars
  PROVE  IInv'
<1>1. ASSUME NEW c \in Clients, NEW count \in BOOLEAN, HandleStream(c, count) PROVE IInv'
  BY <1>1, StreamKeeps
<1>2. ASSUME NEW c \in Clients, NEW i \in Ids, NEW v \in Values, Inject(c, i, v) PROVE IInv'
  BY <1>2, PushKeeps DEF Inject
<1>3. ASSUME NEW i \in Ids, NEW v \in Values, Emit(i, v) PROVE IInv'
  BY <1>3, PushKeeps DEF Emit
<1>4. ASSUME NEW c \in Clients, HandleValuesGet(c) PROVE IInv'
  BY <1>4, ReadKeeps
<1>5. ASSUME NEW c \in Clients, Pong(c) PROVE IInv'
  BY <1>5 DEF Pong, IInv, TypeOK, StreamsAreCurrent, StreamsKnowCount,
              OpenStreamsAreCounted, ClosedLeavesNothing
<1>6. ASSUME NEW c \in Clients, Vanish(c) PROVE IInv'
  BY <1>6 DEF Vanish, IInv, TypeOK, StreamsAreCurrent, StreamsKnowCount,
              OpenStreamsAreCounted, ClosedLeavesNothing
<1>7. ASSUME NEW c \in Clients, PingPongTimeout(c) PROVE IInv'
  BY <1>7, CloseKeeps DEF PingPongTimeout
<1>8. ASSUME NEW c \in Clients, OnClose(c) PROVE IInv'
  BY <1>8, CloseKeeps DEF OnClose
<1>9. CASE UNCHANGED vars
  BY <1>9 DEF vars, IInv, TypeOK, StreamsAreCurrent, StreamsKnowCount,
              OpenStreamsAreCounted, ClosedLeavesNothing
<1>10. QED
  BY <1>1, <1>2, <1>3, <1>4, <1>5, <1>6, <1>7, <1>8, <1>9 DEF Next

\* The inductive invariant holds in every reachable state.
LEMMA InductiveInvariant == Spec => []IInv
BY InitInv, InvKept, PTL DEF Spec

\* The variables keep their types; the count never falls below zero.
THEOREM TypeCorrect == Spec => []TypeOK
BY InductiveInvariant, PTL DEF IInv

\* What a client knows of an interaction is its value (api/main.ts 85-89).
THEOREM CurrentStreams == Spec => []StreamsAreCurrent
BY InductiveInvariant, PTL DEF IInv

\* What a client knows of the count is the count (api/main.ts 81-91, 137-141).
THEOREM KnownCount == Spec => []StreamsKnowCount
BY InductiveInvariant, PTL DEF IInv

\* The count is not zero while a counted stream listens (api/main.ts 130-147).
THEOREM CountedStreams == Spec => []OpenStreamsAreCounted
BY InductiveInvariant, PTL DEF IInv

\* A closed socket leaves no observer, interval or timer behind (api/main.ts
\* 126-147).
THEOREM NothingLeft == Spec => []ClosedLeavesNothing
BY InductiveInvariant, PTL DEF IInv
=============================================================================
