---------------------------- MODULE DeviceProofs ----------------------------
(***************************************************************************)
(* Theorems about Device for every number of identifiers, issuers and      *)
(* tolerated misses: its safety invariants, and that it implements         *)
(* RequestService.                                                         *)
(***************************************************************************)
EXTENDS Device, TLAPS, NaturalsInduction, WellFoundedInduction

USE NumIdsAssumption, TolerateAssumption, ClientsAssumption,
    EnvironmentAssumption

(***************************************************************************)
(* The identifier loop finds a free identifier when there is one, and no   *)
(* free identifier lies before it.                                         *)
(***************************************************************************)

\* A nonempty set of naturals has a least element.
LEMMA LeastNatural ==
  ASSUME NEW T, T \subseteq Nat, T # {}
  PROVE  \E x \in T : \A y \in T : x <= y
<1>1. IsWellFoundedOn(OpToRel(<, Nat), Nat)
  BY NatLessThanWellFounded
<1>2. PICK x \in T : \A y \in T : ~ (<<y, x>> \in OpToRel(<, Nat))
  BY <1>1, WFMin
<1>3. \A y \in T : ~ (y < x)
  BY <1>2 DEF OpToRel
<1>4. \A y \in T : x \in Nat /\ y \in Nat
  OBVIOUS
<1>5. \A y \in T : x <= y
  BY ONLY <1>3, <1>4
<1>6. QED
  BY <1>5

\* The rolling number needs between 1 and NumIds draws to any identifier.
LEMMA DrawsRange ==
  ASSUME NEW i \in Ids, NEW j \in Ids
  PROVE  Draws(i, j) \in 1..NumIds
BY DEF Ids, Draws

\* What the loop returns (request, main.ts 405-417).
LEMMA NextFreeIsFirst ==
  ASSUME lastId \in Ids, Free # {}
  PROVE  /\ NextFree \in Free
         /\ \A j \in Free : Draws(lastId, NextFree) <= Draws(lastId, j)
<1> DEFINE D == {Draws(lastId, i) : i \in Free}
<1>1. lastId \in Ids /\ Free \subseteq Ids
  BY DEF Free
<1>2. D \subseteq Nat /\ D # {}
  BY <1>1, DrawsRange
<1>3. PICK d \in D : \A e \in D : d <= e
  BY <1>2, LeastNatural
<1>4. \E i \in Free : \A j \in Free : Draws(lastId, i) <= Draws(lastId, j)
  BY <1>3
<1>5. QED
  BY <1>4 DEF NextFree

(***************************************************************************)
(* The inductive invariant: bookkeeping of requests and promises, and the  *)
(* order in which the identifiers come round.                              *)
(***************************************************************************)

TypeOfRequests ==
  /\ connected \in BOOLEAN /\ alive \in BOOLEAN /\ flag \in BOOLEAN
  /\ missed \in 0..Tolerate
  /\ requests \in [Ids -> Clients \cup {None}]
  /\ promise \in [Clients -> {"idle", "pending"} \cup Outcomes]

Tracked ==
  /\ \A i \in Ids : requests[i] # None => promise[requests[i]] = "pending"
  /\ \A c \in Clients : promise[c] = "pending" => \E i \in Ids : requests[i] = c
  /\ \A i, j \in Ids : requests[i] = requests[j] /\ requests[i] # None => i = j

Book == TypeOfRequests /\ Tracked /\ OfflineRunsNoRequests

TypeOfSent == lastId \in Ids /\ sent \subseteq Messages

\* An open message is awaited; what is ahead of a message comes round first.
Turns ==
  /\ \A m \in sent : m.open => requests[m.id] # None
  /\ \A m \in sent : \A j \in m.ahead : Draws(lastId, j) < Draws(lastId, m.id)
  /\ IdentifiersTakeTurns

IInv == Book /\ TypeOfSent /\ Turns

-----------------------------------------------------------------------------
(* Failures: r is what stays registered when the request of c has failed.  *)

Remainder(c, r) ==
  /\ r \in [Ids -> Clients \cup {None}]
  /\ \A i \in Ids : r[i] # c
  /\ \A i \in Ids : r[i] = requests[i] \/ (r[i] = None /\ requests[i] = c)

\* Aborting everything leaves no request and no open promise (main.ts 263-270).
LEMMA AbortAllKeepsBook ==
  ASSUME Book, connected' \in BOOLEAN, alive' \in BOOLEAN, flag' \in BOOLEAN,
         missed' \in 0..Tolerate,
         NEW p \in [Clients -> {"idle", "pending"} \cup Outcomes],
         \A c \in Clients : promise[c] # "pending" => p[c] # "pending",
         AbortAll(p)
  PROVE  Book'
<1>1. promise' \in [Clients -> {"idle", "pending"} \cup Outcomes]
  BY DEF AbortAll, ErrorFor, Outcomes, Book, TypeOfRequests
<1>2. \A c \in Clients : promise'[c] # "pending"
  BY DEF AbortAll, ErrorFor, Book, TypeOfRequests
<1>3. requests' = [i \in Ids |-> None]
  BY DEF AbortAll
<1>4. TypeOfRequests'
  BY <1>1, <1>3 DEF TypeOfRequests
<1>5. Tracked'
  BY <1>2, <1>3 DEF Tracked
<1>6. OfflineRunsNoRequests'
  BY <1>3 DEF OfflineRunsNoRequests
<1>7. QED
  BY <1>4, <1>5, <1>6 DEF Book

\* Giving one issuer its outcome and releasing its identifier keeps the book.
LEMMA OutcomeKeepsBook ==
  ASSUME Book, NEW c \in Clients, NEW o \in Outcomes, NEW r, Remainder(c, r),
         connected' \in BOOLEAN, alive' \in BOOLEAN, flag' \in BOOLEAN,
         missed' \in 0..Tolerate,
         isOnline => isOnline',
         requests' = r, promise' = [promise EXCEPT ![c] = o]
  PROVE  Book'
<1>1. o # "pending"
  BY DEF Outcomes
<1>2. TypeOfRequests'
  BY DEF Book, TypeOfRequests, Remainder
<1>3. \A i \in Ids : r[i] # None => requests[i] = r[i] /\ r[i] # c
  BY DEF Remainder
<1>4. \A d \in Clients : promise'[d] = IF d = c THEN o ELSE promise[d]
  BY DEF Book, TypeOfRequests
<1>5. Tracked'
  <2>1. \A i \in Ids : requests'[i] # None => promise'[requests'[i]] = "pending"
    BY <1>3, <1>4 DEF Book, Tracked, TypeOfRequests, Remainder
  <2>2. ASSUME NEW d \in Clients, promise'[d] = "pending"
        PROVE  \E i \in Ids : requests'[i] = d
    <3>1. d # c /\ promise[d] = "pending"
      BY <2>2, <1>1, <1>4
    <3>2. PICK i \in Ids : requests[i] = d
      BY <3>1 DEF Book, Tracked
    <3>3. r[i] = d
      BY <3>1, <3>2 DEF Remainder
    <3>4. QED
      BY <3>3
  <2>3. \A i, j \in Ids :
          requests'[i] = requests'[j] /\ requests'[i] # None => i = j
    BY <1>3 DEF Book, Tracked
  <2>4. QED
    BY <2>1, <2>2, <2>3 DEF Tracked
<1>6. OfflineRunsNoRequests'
  BY <1>3 DEF Book, OfflineRunsNoRequests
<1>7. QED
  BY <1>2, <1>5, <1>6 DEF Book

\* A failed keepalive, counted or taking the device offline (main.ts 303-326).
LEMMA KeepAliveFailsKeepsBook ==
  ASSUME Book, NEW c \in Clients, NEW o \in Outcomes, NEW r, Remainder(c, r),
         UNCHANGED <<connected, alive>>,
         KeepAliveFails(r, [promise EXCEPT ![c] = o])
  PROVE  Book' /\ \A i \in Ids : requests'[i] \in {r[i], None}
<1> DEFINE p == [promise EXCEPT ![c] = o]
<1>1. p \in [Clients -> {"idle", "pending"} \cup Outcomes]
  BY DEF Book, TypeOfRequests
<1>2. missed \in Nat /\ Tolerate \in Nat
  BY DEF Book, TypeOfRequests
<1>3. connected' \in BOOLEAN /\ alive' \in BOOLEAN
  BY DEF Book, TypeOfRequests
<1>4. ASSUME requests' = r, promise' = p, missed' \in 0..Tolerate, flag' = flag
      PROVE  Book' /\ \A i \in Ids : requests'[i] \in {r[i], None}
  <2>1. flag' \in BOOLEAN /\ (isOnline => isOnline')
    BY <1>4 DEF Book, TypeOfRequests, isOnline
  <2>2. Book'
    BY <1>3, <1>4, <2>1, OutcomeKeepsBook
  <2>3. QED
    BY <1>4, <2>2
<1>5. ASSUME missed' = 0, flag' = FALSE, AbortAll(p)
      PROVE  Book' /\ \A i \in Ids : requests'[i] \in {r[i], None}
  <2>1. \A d \in Clients : promise[d] # "pending" => p[d] # "pending"
    BY DEF Outcomes, Book, TypeOfRequests
  <2>2. missed' \in 0..Tolerate
    BY <1>2, <1>5
  <2>3. flag' \in BOOLEAN
    BY <1>5
  <2>4. Book'
    BY <1>1, <1>3, <1>5, <2>1, <2>2, <2>3, AbortAllKeepsBook
  <2>5. QED
    BY <1>5, <2>4 DEF AbortAll
<1>6. CASE ~isOnline
  BY <1>4, <1>6 DEF KeepAliveFails, Book, TypeOfRequests
<1>7. CASE isOnline /\ missed + 1 <= Tolerate
  <2>1. missed' \in 0..Tolerate
    BY <1>2, <1>7 DEF KeepAliveFails
  <2>2. requests' = r /\ promise' = p /\ flag' = flag
    BY <1>7 DEF KeepAliveFails
  <2>3. QED
    BY <1>4, <2>1, <2>2
<1>8. CASE isOnline /\ ~(missed + 1 <= Tolerate)
  <2>1. missed' = 0 /\ flag' = FALSE /\ AbortAll(p)
    BY <1>8 DEF KeepAliveFails
  <2>2. QED
    BY <1>5, <2>1
<1>9. QED
  BY <1>6, <1>7, <1>8

\* A failed request of any issuer.
LEMMA FailsKeepsBook ==
  ASSUME Book, NEW c \in Clients, NEW r, Remainder(c, r),
         UNCHANGED <<connected, alive>>,
         Fails(c, r)
  PROVE  Book' /\ \A i \in Ids : requests'[i] \in {r[i], None}
<1>1. ErrorFor(c) \in Outcomes
  BY DEF ErrorFor, Outcomes
<1>2. CASE c \in KeepAlives
  BY <1>1, <1>2, KeepAliveFailsKeepsBook DEF Fails
<1>3. CASE c \notin KeepAlives
  BY <1>1, <1>3, OutcomeKeepsBook DEF Fails, Book, TypeOfRequests, isOnline
<1>4. QED
  BY <1>2, <1>3

-----------------------------------------------------------------------------
(* Messages and the turns of the identifiers.                              *)

\* n is m after the step: no longer open when its request is released.
Follows(n, m) == n.id = m.id /\ n.open = (m.open /\ requests'[m.id] # None)

\* Releasing identifiers and losing messages keeps the turns.
LEMMA ReleaseKeepsTurns ==
  ASSUME TypeOfSent, Turns, lastId' = lastId, sent' \subseteq Messages,
         \A i \in Ids : requests'[i] \in {requests[i], None},
         \A n \in sent' : \E m \in sent : Follows(n, m) /\ n.ahead = m.ahead
  PROVE  TypeOfSent' /\ Turns'
<1>1. ASSUME NEW n \in sent'
      PROVE  /\ n.open => requests'[n.id] # None
             /\ \A j \in n.ahead : Draws(lastId', j) < Draws(lastId', n.id)
             /\ requests'[n.id] # None /\ ~n.open => n.ahead = {}
  <2>1. PICK m \in sent : Follows(n, m) /\ n.ahead = m.ahead
    BY <1>1
  <2>2. m \in Messages
    BY DEF TypeOfSent
  <2>3. n.open => requests'[n.id] # None
    BY <2>1 DEF Follows
  <2>4. \A j \in n.ahead : Draws(lastId', j) < Draws(lastId', n.id)
    BY <2>1 DEF Follows, Turns
  <2>5. ASSUME requests'[n.id] # None, ~n.open PROVE n.ahead = {}
    <3>1. requests[m.id] # None /\ ~m.open
      BY <2>1, <2>2, <2>5 DEF Follows, Messages
    <3>2. QED
      BY <2>1, <3>1 DEF Turns, IdentifiersTakeTurns
  <2>6. QED
    BY <2>3, <2>4, <2>5
<1>2. \A n \in sent' : n.open => requests'[n.id] # None
  BY <1>1
<1>3. \A n \in sent' : \A j \in n.ahead : Draws(lastId, j)' < Draws(lastId, n.id)'
  BY <1>1 DEF Draws
<1>4. IdentifiersTakeTurns'
  BY <1>1 DEF IdentifiersTakeTurns
<1>5. QED
  BY <1>2, <1>3, <1>4 DEF TypeOfSent, Turns

\* Past a nearer identifier k, the way to j is shorter by the way to k.
LEMMA DrawsShift ==
  ASSUME NEW i \in Ids, NEW j \in Ids, NEW k \in Ids, Draws(i, k) < Draws(i, j)
  PROVE  Draws(k, j) = Draws(i, j) - Draws(i, k)
BY DEF Ids, Draws

\* Different identifiers are at different distances.
LEMMA DrawsDiffer ==
  ASSUME NEW i \in Ids, NEW j \in Ids, NEW k \in Ids, Draws(i, j) = Draws(i, k)
  PROVE  j = k
BY DEF Ids, Draws

\* Drawing the next identifier keeps the turns (main.ts 405-417): the messages
\* that stay have one identifier less ahead, the new one has all others.
LEMMA DrawKeepsTurns ==
  ASSUME TypeOfSent, Turns, NEW x \in Ids, lastId' = x,
         \A j \in Free : Draws(lastId, x) <= Draws(lastId, j),
         sent' \subseteq Messages,
         \A i \in Ids : (i = x /\ x \in Free) \/ requests'[i] \in {requests[i], None},
         \A n \in sent' :
           \/ n = NewMessage(x) /\ requests'[x] # None
           \/ \E m \in sent : Follows(n, m) /\ n.ahead = m.ahead \cap (Free \ {x})
  PROVE  TypeOfSent' /\ Turns'
<1>1. lastId \in Ids /\ Free \subseteq Ids
  BY DEF TypeOfSent, Free
<1>2. ASSUME NEW n \in sent'
      PROVE  /\ n.open => requests'[n.id] # None
             /\ \A j \in n.ahead : Draws(x, j) < Draws(x, n.id)
             /\ requests'[n.id] # None /\ ~n.open => n.ahead = {}
  <2>1. CASE n = NewMessage(x) /\ requests'[x] # None
    <3>1. n.id = x /\ n.open /\ n.ahead = Ids \ {x}
      BY <2>1 DEF NewMessage
    <3>2. \A j \in Ids \ {x} : Draws(x, j) < Draws(x, x)
      BY DEF Ids, Draws
    <3>3. QED
      BY <2>1, <3>1, <3>2
  <2>2. ASSUME NEW m \in sent, Follows(n, m), n.ahead = m.ahead \cap (Free \ {x})
        PROVE  /\ n.open => requests'[n.id] # None
               /\ \A j \in n.ahead : Draws(x, j) < Draws(x, n.id)
               /\ requests'[n.id] # None /\ ~n.open => n.ahead = {}
    <3>1. m.id \in Ids /\ m.open \in BOOLEAN /\ n.id = m.id
      BY <2>2 DEF TypeOfSent, Messages, Follows
    <3>2. n.open => requests'[n.id] # None
      BY <2>2 DEF Follows
    <3>3. ASSUME NEW j \in n.ahead
          PROVE  /\ Draws(lastId, x) < Draws(lastId, j)
                 /\ Draws(lastId, j) < Draws(lastId, m.id)
      <4>1. j \in m.ahead /\ j \in Free /\ j # x /\ j \in Ids
        BY <1>1, <2>2, <3>3
      <4>2. Draws(lastId, x) <= Draws(lastId, j) /\ Draws(lastId, j) # Draws(lastId, x)
        BY <1>1, <4>1, DrawsDiffer
      <4>3. Draws(lastId, x) \in 1..NumIds /\ Draws(lastId, j) \in 1..NumIds
        BY <1>1, <4>1, DrawsRange
      <4>4. Draws(lastId, x) < Draws(lastId, j)
        BY <4>2, <4>3
      <4>5. Draws(lastId, j) < Draws(lastId, m.id)
        BY <4>1 DEF Turns
      <4>6. QED
        BY <4>4, <4>5
    <3>4. ASSUME NEW j \in n.ahead PROVE Draws(x, j) < Draws(x, n.id)
      <4>1. j \in Ids
        BY <1>1, <2>2, <3>4
      <4>2. /\ Draws(lastId, x) \in 1..NumIds /\ Draws(lastId, j) \in 1..NumIds
            /\ Draws(lastId, m.id) \in 1..NumIds
        BY <1>1, <3>1, <4>1, DrawsRange
      <4>3. Draws(lastId, x) < Draws(lastId, m.id)
        BY <3>3, <3>4, <4>2
      <4>4. Draws(x, j) = Draws(lastId, j) - Draws(lastId, x)
        BY <1>1, <3>3, <4>1, DrawsShift
      <4>5. Draws(x, m.id) = Draws(lastId, m.id) - Draws(lastId, x)
        BY <1>1, <3>1, <4>3, DrawsShift
      <4>6. QED
        BY <3>1, <3>3, <4>2, <4>4, <4>5
    <3>5. ASSUME requests'[n.id] # None, ~n.open PROVE n.ahead = {}
      <4>1. ~m.open
        BY <2>2, <3>1, <3>5 DEF Follows
      <4>2. CASE m.id = x
        <5>1. ASSUME NEW j \in n.ahead PROVE FALSE
          <6>1. j \in Ids
            BY <1>1, <2>2, <5>1
          <6>2. Draws(lastId, x) \in 1..NumIds /\ Draws(lastId, j) \in 1..NumIds
            BY <1>1, <6>1, DrawsRange
          <6>3. Draws(lastId, x) < Draws(lastId, j) /\ Draws(lastId, j) < Draws(lastId, x)
            BY <3>3, <4>2, <5>1
          <6>4. QED
            BY <6>2, <6>3
        <5>2. QED
          BY <5>1
      <4>3. CASE m.id # x
        BY <2>2, <3>1, <3>5, <4>1, <4>3 DEF Turns, IdentifiersTakeTurns
      <4>4. QED
        BY <4>2, <4>3
    <3>6. QED
      BY <3>2, <3>4, <3>5
  <2>3. QED
    BY <2>1, <2>2
<1>3. \A n \in sent' : n.open => requests'[n.id] # None
  BY <1>2
<1>4. \A n \in sent' : \A j \in n.ahead : Draws(lastId, j)' < Draws(lastId, n.id)'
  BY <1>2 DEF Draws
<1>5. IdentifiersTakeTurns'
  BY <1>2 DEF IdentifiersTakeTurns
<1>6. QED
  BY <1>3, <1>4, <1>5 DEF TypeOfSent, Turns

-----------------------------------------------------------------------------
(* Every step keeps the inductive invariant.                               *)

\* The messages of a step that only releases identifiers.
LEMMA ClosedFollow ==
  ASSUME TypeOfRequests, TypeOfSent, Turns, NEW S, S \subseteq Messages,
         NEW x, x = Released,
         \A i \in Ids : requests'[i] \in {requests[i], None},
         \A m \in S : \E l \in sent : m.id = l.id /\ m.open = l.open
  PROVE  /\ Closed(S, x) \subseteq Messages
         /\ \A n \in Closed(S, x) :
              \E m \in S : /\ n.id = m.id /\ n.ahead = m.ahead
                          /\ n.open = (m.open /\ requests'[m.id] # None)
<1>1. ASSUME NEW m \in S
      PROVE  (m.open /\ m.id \notin x) = (m.open /\ requests'[m.id] # None)
  <2>1. m.open => requests[m.id] # None
    BY DEF Turns
  <2>2. m.id \in Ids
    BY DEF Messages
  <2>3. QED
    BY <2>1, <2>2 DEF Released
<1>2. ASSUME NEW n \in Closed(S, x)
      PROVE  /\ n \in Messages
             /\ \E m \in S : /\ n.id = m.id /\ n.ahead = m.ahead
                            /\ n.open = (m.open /\ requests'[m.id] # None)
  <2>1. PICK m \in S : n = [m EXCEPT !.open = m.open /\ m.id \notin x]
    BY <1>2 DEF Closed
  <2>2. m \in [id : Ids, open : BOOLEAN, ahead : SUBSET Ids]
    BY DEF Messages
  <2>3. /\ n.id = m.id /\ n.ahead = m.ahead
        /\ n.open = (m.open /\ m.id \notin x)
    BY <2>1, <2>2
  <2>4. n \in Messages
    BY <2>1, <2>2 DEF Messages
  <2>5. n.open = (m.open /\ requests'[m.id] # None)
    BY <1>1, <2>3
  <2>6. QED
    BY <2>3, <2>4, <2>5
<1>3. QED
  BY <1>2

\* The initial state.
LEMMA InitEstablishes == Init => IInv
<1> SUFFICES ASSUME Init PROVE IInv
  OBVIOUS
<1>1. TypeOfRequests
  <2>1. connected \in BOOLEAN /\ alive \in BOOLEAN /\ flag \in BOOLEAN
    BY DEF Init
  <2>2. missed \in 0..Tolerate
    BY DEF Init
  <2>3. requests \in [Ids -> Clients \cup {None}]
    BY DEF Init
  <2>4. promise \in [Clients -> {"idle", "pending"} \cup Outcomes]
    BY DEF Init
  <2>5. QED
    BY <2>1, <2>2, <2>3, <2>4 DEF TypeOfRequests
<1>2. Tracked
  BY DEF Init, Tracked
<1>3. OfflineRunsNoRequests
  BY DEF Init, OfflineRunsNoRequests
<1>4. TypeOfSent /\ Turns
  BY DEF Init, TypeOfSent, Turns, IdentifiersTakeTurns, Ids
<1>5. QED
  BY <1>1, <1>2, <1>3, <1>4 DEF IInv, Book

\* A step that touches neither identifiers nor messages.
LEMMA SameTurns ==
  ASSUME TypeOfSent, Turns, UNCHANGED <<lastId, requests, sent>>
  PROVE  TypeOfSent' /\ Turns'
BY DEF TypeOfSent, Turns, IdentifiersTakeTurns, Draws

\* A failure that follows drawing x: no identifier free, or a write that threw.
LEMMA FailedDrawKeeps ==
  ASSUME IInv, Book', NEW x \in Ids, lastId' = x,
         \A j \in Free : Draws(lastId, x) <= Draws(lastId, j),
         \A i \in Ids : requests'[i] \in {requests[i], None},
         sent' = Closed(Drawn(sent, x), Released)
  PROVE  IInv'
<1>1. Drawn(sent, x) \subseteq Messages
  BY DEF Drawn, Messages, IInv, TypeOfSent
<1>2. \A m \in Drawn(sent, x) : \E l \in sent :
        /\ m.id = l.id /\ m.open = l.open
        /\ m.ahead = l.ahead \cap (Free \ {x})
  BY DEF Drawn, Messages, IInv, TypeOfSent
<1>3. /\ sent' \subseteq Messages
      /\ \A n \in sent' :
           \E m \in Drawn(sent, x) :
             /\ n.id = m.id /\ n.ahead = m.ahead
             /\ n.open = (m.open /\ requests'[m.id] # None)
  BY <1>1, <1>2, ClosedFollow DEF IInv, Book
<1>4. \A n \in sent' : \E l \in sent :
        Follows(n, l) /\ n.ahead = l.ahead \cap (Free \ {x})
  BY <1>2, <1>3 DEF Follows
<1>5. TypeOfSent' /\ Turns'
  BY <1>3, <1>4, DrawKeepsTurns DEF IInv
<1>6. QED
  BY <1>5 DEF IInv

\* A step that releases identifiers without drawing one.
LEMMA ReleaseKeeps ==
  ASSUME IInv, Book', lastId' = lastId, NEW S \in SUBSET sent, NEW x, x = Released,
         \A i \in Ids : requests'[i] \in {requests[i], None},
         sent' = Closed(S, x)
  PROVE  IInv'
<1>1. S \subseteq Messages /\ \A m \in S : \E l \in sent : m.id = l.id /\ m.open = l.open
  BY DEF IInv, TypeOfSent
<1>2. /\ sent' \subseteq Messages
      /\ \A n \in sent' : \E m \in S :
           /\ n.id = m.id /\ n.ahead = m.ahead
           /\ n.open = (m.open /\ requests'[m.id] # None)
  BY <1>1, ClosedFollow DEF IInv, Book
<1>3. \A n \in sent' : \E m \in sent : Follows(n, m) /\ n.ahead = m.ahead
  BY <1>2 DEF Follows
<1>4. TypeOfSent' /\ Turns'
  BY <1>2, <1>3, ReleaseKeepsTurns DEF IInv
<1>5. QED
  BY <1>4 DEF IInv

\* One step per action of Device.
THEOREM NextKeeps == IInv /\ [Next]_vars => IInv'
<1> SUFFICES ASSUME IInv, [Next]_vars PROVE IInv'
  OBVIOUS
<1> USE DEF IInv
<1>1. /\ requests \in [Ids -> Clients \cup {None}] /\ lastId \in Ids
      /\ missed \in 0..Tolerate
      /\ promise \in [Clients -> {"idle", "pending"} \cup Outcomes]
  BY DEF Book, TypeOfRequests, TypeOfSent
<1>2. \A c \in Clients : promise[c] # "pending" => Remainder(c, requests)
  BY DEF Book, TypeOfRequests, Tracked, Remainder
<1>3. Free # {} => /\ NextFree \in Free /\ NextFree \in Ids
                   /\ \A j \in Free : Draws(lastId, NextFree) <= Draws(lastId, j)
  <2>1. SUFFICES ASSUME Free # {} PROVE NextFree \in Free /\ NextFree \in Ids
                   /\ \A j \in Free : Draws(lastId, NextFree) <= Draws(lastId, j)
    OBVIOUS
  <2>2. Free \subseteq Ids
    BY DEF Free
  <2>3. QED
    BY <2>1, <2>2, NextFreeIsFirst DEF Book, TypeOfSent
<1>4. ASSUME NEW c \in Clients, RequestOffline(c) PROVE IInv'
  <2>1. promise[c] # "pending" /\ "failed" \in Outcomes
    BY <1>4 DEF RequestOffline, MayIssue, Outcomes
  <2>2. Book'
    BY <1>2, <1>4, <2>1, OutcomeKeepsBook
    DEF RequestOffline, Book, TypeOfRequests, isOnline
  <2>3. QED
    BY <1>4, <2>2, SameTurns DEF RequestOffline
<1>5. ASSUME NEW c \in Clients, RequestRollover(c) PROVE IInv'
  <2>1. Remainder(c, requests) /\ "failed" \in Outcomes
    BY <1>2, <1>5 DEF RequestRollover, MayIssue, Outcomes
  <2>2. Book' /\ \A i \in Ids : requests'[i] \in {requests[i], None}
    <3>1. CASE c \in KeepAlives
      <4>1. KeepAliveFails(requests, [promise EXCEPT ![c] = "failed"])
        BY <1>5, <3>1 DEF RequestRollover
      <4>2. UNCHANGED <<connected, alive>>
        BY <1>5 DEF RequestRollover
      <4>3. QED
        BY <2>1, <4>1, <4>2, KeepAliveFailsKeepsBook
    <3>2. CASE c \notin KeepAlives
      <4>1. /\ promise' = [promise EXCEPT ![c] = "failed"]
            /\ UNCHANGED <<connected, alive, flag, missed, requests>>
        BY <1>5, <3>2 DEF RequestRollover
      <4>2. QED
        BY <2>1, <4>1, OutcomeKeepsBook DEF Book, TypeOfRequests, isOnline
    <3>3. QED
      BY <3>1, <3>2
  <2>3. FirstDrawn \in Ids /\ Free = {}
    BY <1>1, <1>5 DEF RequestRollover, FirstDrawn, Ids
  <2>4. lastId' = FirstDrawn /\ sent' = Closed(Drawn(sent, FirstDrawn), Released)
    BY <1>5 DEF RequestRollover
  <2>5. QED
    BY <2>2, <2>3, <2>4, FailedDrawKeeps
<1>6. ASSUME NEW c \in Clients, RequestUnwritten(c) PROVE IInv'
  <2>1. Remainder(c, requests)
    BY <1>2, <1>6 DEF RequestUnwritten, MayIssue
  <2>2. /\ Fails(c, requests) /\ UNCHANGED <<connected, alive>> /\ Free # {}
        /\ lastId' = NextFree /\ sent' = Closed(Drawn(sent, NextFree), Released)
    BY <1>6 DEF RequestUnwritten
  <2>3. Book' /\ \A i \in Ids : requests'[i] \in {requests[i], None}
    BY <2>1, <2>2, FailsKeepsBook
  <2>4. QED
    BY <1>3, <2>2, <2>3, FailedDrawKeeps
<1>7. ASSUME NEW c \in Clients, RequestSent(c) PROVE IInv'
  <2> DEFINE x == NextFree
  <2>1. x \in Ids /\ requests[x] = None /\ x \in Free
    BY <1>3, <1>7 DEF RequestSent, Free
  <2>2. /\ requests' = [requests EXCEPT ![x] = c]
        /\ promise' = [promise EXCEPT ![c] = "pending"]
        /\ promise[c] # "pending" /\ Admitted(c)
        /\ UNCHANGED <<connected, alive, flag, missed>> /\ lastId' = x
    BY <1>7 DEF RequestSent, MayIssue
  <2>3. /\ \A i \in Ids : requests'[i] = IF i = x THEN c ELSE requests[i]
        /\ \A d \in Clients : promise'[d] = IF d = c THEN "pending" ELSE promise[d]
    BY <1>1, <2>1, <2>2
  <2>4. c # None /\ \A i \in Ids : requests[i] # c
    BY <2>2 DEF Book, Tracked
  <2>5. TypeOfRequests'
    BY <2>2 DEF Book, TypeOfRequests
  <2>6. Tracked'
    <3>1. \A i \in Ids : requests'[i] # None => promise'[requests'[i]] = "pending"
      BY <1>1, <2>3 DEF Book, Tracked
    <3>2. \A d \in Clients : promise'[d] = "pending" => \E i \in Ids : requests'[i] = d
      BY <2>1, <2>3 DEF Book, Tracked
    <3>3. \A i, j \in Ids : requests'[i] = requests'[j] /\ requests'[i] # None => i = j
      BY <2>3, <2>4 DEF Book, Tracked
    <3>4. QED
      BY <3>1, <3>2, <3>3 DEF Tracked
  <2>7. OfflineRunsNoRequests'
    BY <2>2, <2>3 DEF Book, OfflineRunsNoRequests, isOnline, Admitted
  <2>8. /\ sent' \subseteq Drawn(sent, x) \cup {NewMessage(x)}
        /\ NewMessage(x) \in Messages /\ Drawn(sent, x) \subseteq Messages
    BY <1>7, <2>1 DEF RequestSent, Drawn, NewMessage, Messages, TypeOfSent
  <2>9. \A n \in Drawn(sent, x) : \E m \in sent :
          Follows(n, m) /\ n.ahead = m.ahead \cap (Free \ {x})
    <3>1. ASSUME NEW n \in Drawn(sent, x)
          PROVE  \E m \in sent : Follows(n, m) /\ n.ahead = m.ahead \cap (Free \ {x})
      <4>1. PICK m \in sent : n = [m EXCEPT !.ahead = m.ahead \cap (Free \ {x})]
        BY <3>1 DEF Drawn
      <4>2. m \in [id : Ids, open : BOOLEAN, ahead : SUBSET Ids]
        BY DEF TypeOfSent, Messages
      <4>3. n.id = m.id /\ n.open = m.open /\ n.ahead = m.ahead \cap (Free \ {x})
        BY <4>1, <4>2
      <4>4. m.open => requests'[m.id] # None
        BY <2>3, <2>4, <4>2 DEF Turns
      <4>5. n.open = (m.open /\ requests'[m.id] # None)
        BY <4>2, <4>3, <4>4
      <4>6. QED
        BY <4>3, <4>5 DEF Follows
    <3>2. QED
      BY <3>1
  <2>10. TypeOfSent' /\ Turns'
    <3>1. \A j \in Free : Draws(lastId, x) <= Draws(lastId, j)
      BY <1>3, <2>1
    <3>2. /\ requests'[x] # None
          /\ \A i \in Ids : (i = x /\ x \in Free) \/ requests'[i] \in {requests[i], None}
      BY <2>1, <2>3, <2>4
    <3>3. /\ sent' \subseteq Messages
          /\ \A n \in sent' :
               \/ n = NewMessage(x) /\ requests'[x] # None
               \/ \E m \in sent : Follows(n, m) /\ n.ahead = m.ahead \cap (Free \ {x})
      BY <2>8, <2>9, <3>2
    <3>4. QED
      BY <2>1, <2>2, <3>1, <3>2, <3>3, DrawKeepsTurns
  <2>11. QED
    BY <2>5, <2>6, <2>7, <2>10 DEF Book
<1>8. ASSUME NEW m \in sent, AnswerDropped(m) PROVE IInv'
  <2>1. UNCHANGED <<connected, alive, flag, missed, lastId, requests, promise>>
    BY <1>8 DEF AnswerDropped
  <2>2. Book'
    BY <2>1 DEF Book, TypeOfRequests, Tracked, OfflineRunsNoRequests, isOnline
  <2>3. sent' \subseteq sent
    BY <1>8 DEF AnswerDropped
  <2>4. TypeOfSent' /\ Turns'
    BY <2>1, <2>3 DEF TypeOfSent, Turns, IdentifiersTakeTurns, Draws
  <2>5. QED
    BY <2>2, <2>4
<1>9. ASSUME NEW m \in sent, AnswerMatched(m) PROVE IInv'
  <2> DEFINE c == requests[m.id]
  <2> DEFINE r == [requests EXCEPT ![m.id] = None]
  <2> DEFINE S == IF Duplicating THEN sent ELSE sent \ {m}
  <2>1. m.id \in Ids
    BY DEF TypeOfSent, Messages
  <2>2. /\ c # None
        /\ promise' = [promise EXCEPT ![c] = "answered"] /\ requests' = r
        /\ sent' = Closed(S, {m.id})
        /\ UNCHANGED <<connected, alive, lastId>>
        /\ \/ flag' = TRUE /\ missed' = 0
           \/ UNCHANGED <<flag, missed>>
    BY <1>9 DEF AnswerMatched
  <2>3. c \in Clients
    BY <1>1, <2>1, <2>2
  <2>4. \A i \in Ids : r[i] = IF i = m.id THEN None ELSE requests[i]
    BY <1>1
  <2>5. Remainder(c, r)
    BY <1>1, <2>1, <2>3, <2>4 DEF Remainder, Book, Tracked
  <2>6. missed' \in 0..Tolerate
    BY <1>1, <2>2
  <2>7. flag' \in BOOLEAN /\ (isOnline => isOnline')
    <3>1. (flag' = TRUE \/ flag' = flag) /\ connected' = connected
      BY <2>2
    <3>2. flag \in BOOLEAN /\ connected \in BOOLEAN
      BY DEF Book, TypeOfRequests
    <3>3. flag' \in BOOLEAN
      BY <3>1, <3>2
    <3>4. (connected /\ flag) => (connected' /\ flag')
      BY <3>1, <3>2
    <3>5. QED
      BY <3>3, <3>4 DEF isOnline
  <2>8. connected' \in BOOLEAN /\ alive' \in BOOLEAN /\ "answered" \in Outcomes
    BY <2>2 DEF Book, TypeOfRequests, Outcomes
  <2>9. Book'
    BY <2>2, <2>3, <2>5, <2>6, <2>7, <2>8, OutcomeKeepsBook
  <2>10. {m.id} = Released
    BY <2>1, <2>2, <2>4 DEF Released
  <2>11. S \in SUBSET sent /\ \A i \in Ids : requests'[i] \in {requests[i], None}
    BY <2>2, <2>4
  <2>12. QED
    BY <2>2, <2>9, <2>10, <2>11, ReleaseKeeps
<1>10. ASSUME NEW i \in Ids, Timeout(i) PROVE IInv'
  <2> DEFINE c == requests[i]
  <2> DEFINE r == [requests EXCEPT ![i] = None]
  <2>1. /\ c # None /\ Fails(c, r) /\ sent' = Closed(sent, Released)
        /\ UNCHANGED <<connected, alive, lastId>>
    BY <1>10 DEF Timeout
  <2>2. c \in Clients
    BY <1>1, <2>1
  <2>3. \A j \in Ids : r[j] = IF j = i THEN None ELSE requests[j]
    BY <1>1
  <2>4. Remainder(c, r)
    BY <1>1, <2>2, <2>3 DEF Remainder, Book, Tracked
  <2>5. Book' /\ \A j \in Ids : requests'[j] \in {r[j], None}
    BY <2>1, <2>2, <2>4, FailsKeepsBook
  <2>6. \A j \in Ids : requests'[j] \in {requests[j], None}
    BY <2>3, <2>5
  <2>7. QED
    BY <2>1, <2>5, <2>6, ReleaseKeeps
<1>11. CASE TransportConnects
  <2>1. Book'
    BY <1>11
    DEF TransportConnects, Book, TypeOfRequests, Tracked, OfflineRunsNoRequests, isOnline
  <2>2. QED
    BY <1>11, <2>1, SameTurns DEF TransportConnects
<1>12. CASE TransportDisconnects
  <2>1. connected' = FALSE /\ sent' = {} /\ UNCHANGED <<alive, flag, missed, lastId>>
    BY <1>12 DEF TransportDisconnects
  <2>2. Book'
    <3>1. CASE flag
      BY <1>12, <2>1, <3>1, AbortAllKeepsBook
      DEF TransportDisconnects, Book, TypeOfRequests
    <3>2. CASE ~flag
      BY <1>12, <2>1, <3>2
      DEF TransportDisconnects, Book, TypeOfRequests, Tracked, OfflineRunsNoRequests,
          isOnline
    <3>3. QED
      BY <3>1, <3>2
  <2>3. TypeOfSent' /\ Turns'
    BY <2>1 DEF TypeOfSent, Turns, IdentifiersTakeTurns
  <2>4. QED
    BY <2>2, <2>3
<1>13. CASE RemoteToggles
  <2>1. Book'
    BY <1>13
    DEF RemoteToggles, Book, TypeOfRequests, Tracked, OfflineRunsNoRequests, isOnline
  <2>2. QED
    BY <1>13, <2>1, SameTurns DEF RemoteToggles
<1>14. CASE UNCHANGED vars
  <2>1. Book'
    BY <1>14 DEF vars, Book, TypeOfRequests, Tracked, OfflineRunsNoRequests, isOnline
  <2>2. QED
    BY <1>14, <2>1, SameTurns DEF vars
<1>15. QED
  BY <1>4, <1>5, <1>6, <1>7, <1>8, <1>9, <1>10, <1>11, <1>12, <1>13, <1>14
  DEF Next, Request

-----------------------------------------------------------------------------
(* The invariants of the runs, for all values of the constants.            *)

\* The inductive invariant holds in every reachable state.
LEMMA InductiveInvariant == Spec => []IInv
<1>1. IInv /\ [Next]_vars => IInv'
  BY NextKeeps
<1>2. QED
  BY InitEstablishes, <1>1, PTL DEF Spec

\* The state keeps its type, the missed counter its limit (main.ts 206-226).
THEOREM TypeCorrect == Spec => []TypeOK
<1>1. IInv => TypeOK
  BY DEF IInv, Book, TypeOfRequests, TypeOfSent, TypeOK
<1>2. QED
  BY InductiveInvariant, <1>1, PTL

\* Whatever the interleaving of answers, timers, writes that fail and
\* connections that break, an offline device has no caller waiting on it.
THEOREM OfflineAborts == Spec => []OfflineRunsNoRequests
<1>1. IInv => OfflineRunsNoRequests
  BY DEF IInv, Book
<1>2. QED
  BY InductiveInvariant, <1>1, PTL

\* An open promise and a registered identifier always come in pairs.
THEOREM PromisesTracked == Spec => []EveryPromiseTracked
<1>1. IInv => EveryPromiseTracked
  <2> SUFFICES ASSUME IInv, NEW c \in Clients
               PROVE  IF promise[c] = "pending"
                        THEN \E i \in Ids : Registered(c) = {i}
                        ELSE Registered(c) = {}
    BY DEF EveryPromiseTracked
  <2>1. CASE promise[c] = "pending"
    <3>1. PICK i \in Ids : requests[i] = c
      BY <2>1 DEF IInv, Book, Tracked
    <3>2. \A j \in Ids : requests[j] = c => j = i
      BY <3>1 DEF IInv, Book, Tracked
    <3>3. Registered(c) = {i}
      BY <3>1, <3>2 DEF Registered
    <3>4. QED
      BY <2>1, <3>3
  <2>2. CASE promise[c] # "pending"
    <3>1. \A i \in Ids : requests[i] # c
      BY <2>2 DEF IInv, Book, Tracked
    <3>2. QED
      BY <2>2, <3>1 DEF Registered
  <2>3. QED
    BY <2>1, <2>2
<1>2. QED
  BY InductiveInvariant, <1>1, PTL

\* A stale answer meets a newer request only after a full turn of identifiers.
THEOREM TurnsTaken == Spec => []IdentifiersTakeTurns
<1>1. IInv => IdentifiersTakeTurns
  BY DEF IInv, Turns
<1>2. QED
  BY InductiveInvariant, <1>1, PTL

-----------------------------------------------------------------------------
(* Device implements RequestService.                                       *)

\* A failed request that leaves the online state alone.
LEMMA OutcomeIsService ==
  ASSUME NEW c \in Clients, isOnline' = isOnline,
         NEW o \in {"empty", "failed"}, promise' = [promise EXCEPT ![c] = o]
  PROVE  Service!Refuse(c) \/ Service!Settle(c)
<1>1. o \in Service!Outcomes /\ o \in Service!Outcomes \ {"answered"}
  BY DEF Service!Outcomes
<1>2. CASE promise[c] = "pending"
  BY <1>1, <1>2 DEF Service!Settle
<1>3. CASE promise[c] # "pending"
  BY <1>1, <1>3 DEF Service!Refuse
<1>4. QED
  BY <1>2, <1>3

\* Aborting everything takes the service down; an issuer that is exempt may
\* have failed on its own account.
LEMMA AbortIsGoDown ==
  ASSUME promise \in [Clients -> {"idle", "pending"} \cup Outcomes],
         isOnline = TRUE, isOnline' = FALSE,
         NEW p, AbortAll(p),
         \A d \in Clients : p[d] = promise[d] \/ (d \in KeepAlives /\ p[d] = "failed")
  PROVE  Service!GoDown
<1>1. \A d \in Clients :
        promise'[d] = IF promise[d] = "pending" THEN ErrorFor(d) ELSE p[d]
  BY DEF AbortAll
<1>2. \A d \in Clients : ErrorFor(d) \in {"empty", "failed"}
  BY DEF ErrorFor
<1>3. promise' \in [Clients -> {"idle"} \cup Service!Outcomes]
  <2>1. \A d \in Clients : promise'[d] \in {"idle"} \cup Service!Outcomes
    BY <1>1, <1>2 DEF Service!Outcomes, Outcomes
  <2>2. promise' = [d \in Clients |-> promise'[d]]
    BY DEF AbortAll
  <2>3. QED
    BY <2>1, <2>2
<1>4. \A d \in Clients :
        IF promise[d] = "pending"
          THEN promise'[d] \in {"empty", "failed"}
          ELSE promise'[d] = promise[d] \/ (d \in KeepAlives /\ promise'[d] = "failed")
  BY <1>1, <1>2
<1>5. QED
  BY <1>3, <1>4 DEF Service!GoDown

\* A failed keepalive is an outcome of its own or takes the service down.
LEMMA KeepAliveFailsIsService ==
  ASSUME promise \in [Clients -> {"idle", "pending"} \cup Outcomes],
         NEW c \in Clients, c \in KeepAlives, NEW r, connected' = connected,
         KeepAliveFails(r, [promise EXCEPT ![c] = "failed"])
  PROVE  Service!Refuse(c) \/ Service!Settle(c) \/ Service!GoDown
<1> DEFINE p == [promise EXCEPT ![c] = "failed"]
<1>1. CASE promise' = p /\ flag' = flag
  <2>1. isOnline' = isOnline
    BY <1>1 DEF isOnline
  <2>2. QED
    BY <1>1, <2>1, OutcomeIsService
<1>2. CASE isOnline /\ flag' = FALSE /\ AbortAll(p)
  <2>1. isOnline = TRUE /\ isOnline' = FALSE
    BY <1>2 DEF isOnline
  <2>2. \A d \in Clients : p[d] = promise[d] \/ (d \in KeepAlives /\ p[d] = "failed")
    OBVIOUS
  <2>3. QED
    BY <1>2, <2>1, <2>2, AbortIsGoDown
<1>3. QED
  BY <1>1, <1>2 DEF KeepAliveFails

\* A failed request of any issuer.
LEMMA FailsIsService ==
  ASSUME promise \in [Clients -> {"idle", "pending"} \cup Outcomes],
         NEW c \in Clients, NEW r, connected' = connected, Fails(c, r)
  PROVE  Service!Refuse(c) \/ Service!Settle(c) \/ Service!GoDown
<1>1. CASE c \in KeepAlives
  <2>1. ErrorFor(c) = "failed"
    BY <1>1 DEF ErrorFor
  <2>2. KeepAliveFails(r, [promise EXCEPT ![c] = "failed"])
    BY <1>1, <2>1 DEF Fails
  <2>3. QED
    BY <1>1, <2>2, KeepAliveFailsIsService
<1>2. CASE c \notin KeepAlives
  <2>1. promise' = [promise EXCEPT ![c] = ErrorFor(c)] /\ flag' = flag
    BY <1>2 DEF Fails
  <2>2. isOnline' = isOnline /\ ErrorFor(c) \in {"empty", "failed"}
    BY <2>1 DEF isOnline, ErrorFor
  <2>3. QED
    BY <2>1, <2>2, OutcomeIsService
<1>3. QED
  BY <1>1, <1>2

\* Every step of a Device is a step of the service it promises, or none.
LEMMA StepIsService == IInv /\ [Next]_vars => [Service!Next]_(Service!vars)
<1> SUFFICES ASSUME IInv, [Next]_vars PROVE Service!Next \/ UNCHANGED Service!vars
  OBVIOUS
<1>1. promise \in [Clients -> {"idle", "pending"} \cup Outcomes]
  BY DEF IInv, Book, TypeOfRequests
<1>2. requests \in [Ids -> Clients \cup {None}] /\ flag \in BOOLEAN
  BY DEF IInv, Book, TypeOfRequests
<1>3. \A m \in sent : m.id \in Ids
  BY DEF IInv, TypeOfSent, Messages
<1>4. ASSUME NEW c \in Clients, RequestOffline(c) PROVE Service!Refuse(c)
  <2>1. promise[c] # "pending" /\ isOnline' = isOnline
        /\ promise' = [promise EXCEPT ![c] = "failed"]
    BY <1>4 DEF RequestOffline, MayIssue, isOnline
  <2>2. QED
    BY <2>1 DEF Service!Refuse, Service!Outcomes
<1>5. ASSUME NEW c \in Clients, RequestRollover(c)
      PROVE  Service!Refuse(c) \/ Service!Settle(c) \/ Service!GoDown
  <2>1. CASE c \in KeepAlives
    BY <1>1, <1>5, <2>1, KeepAliveFailsIsService DEF RequestRollover
  <2>2. CASE c \notin KeepAlives
    <3>1. promise' = [promise EXCEPT ![c] = "failed"] /\ isOnline' = isOnline
      BY <1>5, <2>2 DEF RequestRollover, isOnline
    <3>2. QED
      BY <3>1, OutcomeIsService
  <2>3. QED
    BY <2>1, <2>2
<1>6. ASSUME NEW c \in Clients, RequestUnwritten(c)
      PROVE  Service!Refuse(c) \/ Service!Settle(c) \/ Service!GoDown
  BY <1>1, <1>6, FailsIsService DEF RequestUnwritten
<1>7. ASSUME NEW c \in Clients, RequestSent(c) PROVE Service!Accept(c)
  <2>1. isOnline' = isOnline
    BY <1>7 DEF RequestSent, isOnline
  <2>2. QED
    BY <1>7, <2>1 DEF RequestSent, MayIssue, Admitted, Service!Accept
<1>8. ASSUME NEW m \in sent, AnswerDropped(m) PROVE UNCHANGED Service!vars
  BY <1>8 DEF AnswerDropped, Service!vars, isOnline
<1>9. ASSUME NEW m \in sent, AnswerMatched(m) PROVE Service!Next
  <2> DEFINE c == requests[m.id]
  <2>1. c \in Clients
    BY <1>2, <1>3, <1>9 DEF AnswerMatched
  <2>2. promise[c] = "pending"
    BY <1>3, <1>9 DEF AnswerMatched, IInv, Book, Tracked
  <2>3. promise' = [promise EXCEPT ![c] = "answered"]
        /\ connected /\ connected' = connected
    BY <1>9 DEF AnswerMatched
  <2>4. ASSUME isOnline' = isOnline PROVE Service!Settle(c)
    BY <2>2, <2>3, <2>4 DEF Service!Settle, Service!Outcomes
  <2>5. CASE c \in KeepAlives
    <3>1. flag' = TRUE
      BY <1>9, <2>5 DEF AnswerMatched
    <3>2. isOnline' = TRUE
      BY <2>3, <3>1 DEF isOnline
    <3>3. CASE isOnline
      BY <2>1, <2>4, <3>2, <3>3 DEF Service!Next, isOnline
    <3>4. CASE ~isOnline
      <4>1. Service!ComeUp
        BY <2>2, <2>3, <2>5, <3>2, <3>4 DEF Service!ComeUp
      <4>2. QED
        BY <4>1 DEF Service!Next
    <3>5. QED
      BY <3>3, <3>4
  <2>6. CASE c \notin KeepAlives
    <3>1. isOnline' = isOnline
      BY <1>9, <2>3, <2>6 DEF AnswerMatched, isOnline
    <3>2. QED
      BY <2>1, <2>4, <3>1 DEF Service!Next
  <2>7. QED
    BY <2>5, <2>6
<1>10. ASSUME NEW i \in Ids, Timeout(i) PROVE Service!Next
  <2>1. requests[i] \in Clients
    BY <1>2, <1>10 DEF Timeout
  <2>2. connected' = connected /\ Fails(requests[i], [requests EXCEPT ![i] = None])
    BY <1>10 DEF Timeout
  <2>3. QED
    BY <1>1, <2>1, <2>2, FailsIsService DEF Service!Next
<1>11. CASE TransportConnects
  <2>1. promise' = promise /\ ~connected /\ connected' = TRUE /\ flag' = flag
    BY <1>11 DEF TransportConnects
  <2>2. CASE flag
    <3>1. ~isOnline /\ isOnline' = TRUE
      BY <1>2, <2>1, <2>2 DEF isOnline
    <3>2. QED
      BY <2>1, <3>1 DEF Service!Next, Service!ComeUp
  <2>3. CASE ~flag
    BY <2>1, <2>3 DEF Service!vars, isOnline
  <2>4. QED
    BY <2>2, <2>3
<1>12. CASE TransportDisconnects
  <2>1. connected /\ connected' = FALSE /\ flag' = flag
    BY <1>12 DEF TransportDisconnects
  <2>2. CASE flag
    <3>1. isOnline = TRUE /\ isOnline' = FALSE
      BY <1>2, <2>1, <2>2 DEF isOnline, IInv, Book, TypeOfRequests
    <3>2. AbortAll(promise)
      BY <1>12, <2>2 DEF TransportDisconnects
    <3>3. QED
      BY <1>1, <3>1, <3>2, AbortIsGoDown DEF Service!Next
  <2>3. CASE ~flag
    <3>1. promise' = promise
      BY <1>12, <2>3 DEF TransportDisconnects
    <3>2. isOnline' = isOnline
      BY <2>1, <2>3 DEF isOnline
    <3>3. QED
      BY <3>1, <3>2 DEF Service!vars
  <2>4. QED
    BY <2>2, <2>3
<1>13. CASE RemoteToggles
  BY <1>13 DEF RemoteToggles, Service!vars, isOnline
<1>14. CASE UNCHANGED vars
  BY <1>14 DEF vars, Service!vars, isOnline
<1>15. QED
  BY <1>4, <1>5, <1>6, <1>7, <1>8, <1>9, <1>10, <1>11, <1>12, <1>13, <1>14
  DEF Next, Request, Service!Next

\* The device implements the service: callers never see identifiers, timers,
\* late answers or the missed counter.
THEOREM DeviceImplementsService == Spec => ImplementsRequestService
<1>1. Init => Service!Init
  BY DEF Init, Service!Init, isOnline
<1>2. QED
  BY <1>1, InductiveInvariant, StepIsService, PTL
  DEF Spec, ImplementsRequestService, Service!Spec

=============================================================================
