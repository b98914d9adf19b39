---------------------------- MODULE OutputProofs ----------------------------
(***************************************************************************)
(* The safety of Output for any number of requests open at once and        *)
(* whatever the values are. Inductive is the conjunction of the properties *)
(* with what they rest on: the newest request of an Output or Led asks for *)
(* what is set, and these two kinds always have something set.             *)
(***************************************************************************)
EXTENDS Output, TLAPS

Asking ==
  ~Ng => set # None /\ (newest # None => asked[newest] = set)

IInv ==
  TypeOK /\ OfflineIsUnknown /\ LoadingEnds /\ KnownIsCurrent /\ Asking

\* What setState reads as is a value, or a new object when it is null.
LEMMA ReadsType ==
  ASSUME NEW w \in Values \cup {None}
  PROVE  /\ Reads(w) \in Values \cup {Fresh}
         /\ Reads(w) # None
         /\ w \in Values => Reads(w) = w
         /\ kind # "OutputRGB" => Reads(w) # Fresh
BY OffAssumption, ValuesAssumption DEF Reads

-----------------------------------------------------------------------------
(* Every step keeps the invariant.                                         *)

\* The initial state.
LEMMA InitInv ==
  ASSUME Init
  PROVE  IInv
<1>1. TypeOK
  BY OffAssumption, ValuesAssumption DEF Init, TypeOK, Kinds, Animations, Open
<1>2. OfflineIsUnknown /\ LoadingEnds /\ KnownIsCurrent
  BY DEF Init, OfflineIsUnknown, LoadingEnds, KnownIsCurrent, Open
<1>3. Asking
  BY OffAssumption, ValuesAssumption DEF Init, Asking
<1>4. QED
  BY <1>1, <1>2, <1>3 DEF IInv

\* A refused request: the state is unknown, and nothing waits for the newest.
LEMMA RefusedKeeps ==
  ASSUME IInv, Refused, kind' = kind, online' \in BOOLEAN, ~online' => ~online,
         set' \in Values \cup {None}, ~Ng => set' # None
  PROVE  IInv'
<1>1. TypeOK'
  BY DEF IInv, TypeOK, Refused, Animations, Open
<1>2. OfflineIsUnknown'
  BY DEF IInv, OfflineIsUnknown, Refused, Open
<1>3. LoadingEnds' /\ KnownIsCurrent'
  BY DEF Refused, LoadingEnds, KnownIsCurrent
<1>4. Asking'
  BY DEF Refused, Asking, Ng
<1>5. QED
  BY <1>1, <1>2, <1>3, <1>4 DEF IInv

\* A request under way, for a value or an animation (output.ts 35-38,
\* output-ng-binary.ts 82-91).
LEMMA SentKeeps ==
  ASSUME IInv, NEW s \in Slots, NEW v \in Values, NEW anim \in Animations,
         Sent(s, v, anim), kind' = kind, online' = online,
         set' \in Values \cup {None}, ~Ng => set' = v,
         loading' \in BOOLEAN, unasked' = FALSE, straggler' = straggler
  PROVE  IInv'
<1>1. newest' = s /\ newest' # None /\ asked' = [asked EXCEPT ![s] = v] /\ v # None
  BY ValuesAssumption DEF Sent
<1>2. asked' \in [Slots -> Values \cup {None, Fresh}] /\ asked'[s] = v
  BY <1>1 DEF IInv, TypeOK
<1>3. TypeOK'
  BY <1>1, <1>2 DEF IInv, TypeOK, Sent, Animations, Open
<1>4. OfflineIsUnknown' /\ LoadingEnds' /\ KnownIsCurrent'
  BY <1>1 DEF Sent, OfflineIsUnknown, LoadingEnds, KnownIsCurrent
<1>5. Asking'
  BY <1>1, <1>2, ValuesAssumption DEF Asking, Ng
<1>6. QED
  BY <1>3, <1>4, <1>5 DEF IInv

\* Setting the actuator (output.ts 32, led.ts 60, output-ng-binary.ts 70-74).
LEMMA SetKeeps ==
  ASSUME IInv, NEW v \in Values, Set(v)
  PROVE  IInv'
<1>1. v # None
  BY ValuesAssumption
<1>2. CASE Refused
  BY <1>1, <1>2, RefusedKeeps DEF Set, IInv, TypeOK
<1>3. CASE \E s \in Slots : Sent(s, v, "FINITE") /\ loading' = Raised(v) /\ unasked' = FALSE
                               /\ straggler' = straggler
  <2>1. PICK s \in Slots : Sent(s, v, "FINITE") /\ loading' = Raised(v) /\ unasked' = FALSE
                             /\ straggler' = straggler
    BY <1>3
  <2>2. Raised(v) \in BOOLEAN
    BY DEF Raised, Identical, IInv, TypeOK
  <2>3. QED
    BY <2>1, <2>2, SentKeeps DEF Set, Animations
<1>4. CASE /\ FALSE \in Asks(v)
           /\ loading' = Raised(v)
           /\ unasked' = (unasked \/ ~Identical(actual, v))
           /\ UNCHANGED <<actual, animation, asked, newest, straggler>>
  <2>1. v = set /\ set' = set /\ kind' = kind /\ online' = online
    BY <1>4 DEF Set, Asks
  <2>2. loading' \in BOOLEAN /\ unasked' \in BOOLEAN
    BY <1>4 DEF Raised, Identical, IInv, TypeOK
  <2>3. TypeOK'
    BY <1>4, <2>1, <2>2 DEF IInv, TypeOK, Open
  <2>4. OfflineIsUnknown' /\ KnownIsCurrent' /\ Asking'
    BY <1>4, <2>1 DEF IInv, OfflineIsUnknown, KnownIsCurrent, Asking, Open, Ng, Reads
  <2>5. loading /\ ~unasked => newest # None
    BY <1>1, <2>1 DEF IInv, LoadingEnds
  <2>6. LoadingEnds'
    BY <1>4, <2>5 DEF LoadingEnds, Raised
  <2>7. QED
    BY <2>3, <2>4, <2>6 DEF IInv
<1>5. QED
  BY <1>2, <1>3, <1>4 DEF Set

\* Playing an animation (output-ng-binary.ts 119-133).
LEMMA AnimateKeeps ==
  ASSUME IInv, NEW anim \in Animations, Animate(anim)
  PROVE  IInv'
<1>1. CASE Refused
  BY <1>1, RefusedKeeps DEF Animate, IInv, TypeOK
<1>2. CASE \E s \in Slots : Sent(s, Off, anim) /\ loading' = Raised(None) /\ unasked' = FALSE
                               /\ straggler' = straggler
  <2>1. PICK s \in Slots : Sent(s, Off, anim) /\ loading' = Raised(None) /\ unasked' = FALSE
                             /\ straggler' = straggler
    BY <1>2
  <2>2. Raised(None) \in BOOLEAN
    BY DEF Raised, Identical, IInv, TypeOK
  <2>3. QED
    BY <2>1, <2>2, SentKeeps, OffAssumption DEF Animate
<1>3. QED
  BY <1>1, <1>2 DEF Animate

\* An open request ends with a state that is unknown, or that of the newest
\* request, or that of a straggler.
LEMMA EndKeeps ==
  ASSUME IInv, NEW s \in Open, NEW a \in Values \cup {None, Fresh}, Report(a, set),
         asked' = [asked EXCEPT ![s] = None],
         newest' = IF newest = s THEN None ELSE newest,
         straggler' \in BOOLEAN, animation' \in Animations,
         UNCHANGED <<kind, online, set>>,
         a = None \/ a = Reads(set) \/ (~Ng /\ (newest = None => straggler') /\ newest # s)
  PROVE  IInv'
<1>1. online /\ s \in Slots
  BY DEF IInv, OfflineIsUnknown, Open
<1>2. asked' \in [Slots -> Values \cup {None, Fresh}] /\ \A t \in Slots \ {s} : asked'[t] = asked[t]
  BY <1>1 DEF IInv, TypeOK
<1>3. newest' \in Open' \cup {None}
  BY <1>2 DEF IInv, TypeOK, Open
<1>4. actual' = a /\ loading' \in BOOLEAN /\ unasked' \in BOOLEAN
  BY DEF Report, Identical, IInv, TypeOK
<1>5. TypeOK'
  BY <1>2, <1>3, <1>4 DEF IInv, TypeOK
<1>6. OfflineIsUnknown'
  BY <1>1 DEF OfflineIsUnknown
<1>7. KnownIsCurrent'
  BY <1>4 DEF KnownIsCurrent, Reads, Ng
<1>8. Asking'
  BY <1>1, <1>2, <1>3 DEF IInv, Asking, Ng, TypeOK, Open
<1>9. LoadingEnds'
  <2>1. SUFFICES ASSUME loading', newest' = None, ~(kind = "OutputRGB" /\ set = None)
                 PROVE  unasked'
    BY DEF LoadingEnds
  <2>2. loading /\ a # None /\ ~Identical(a, set)
    BY <2>1 DEF Report
  <2>3. Reads(set) # Fresh
    BY <2>1, ValuesAssumption, OffAssumption DEF Reads, IInv, TypeOK
  <2>4. newest = None
    BY <2>1, <2>2, <2>3 DEF Identical
  <2>5. unasked
    BY <2>1, <2>2, <2>4 DEF IInv, LoadingEnds
  <2>6. QED
    BY <2>1, <2>5 DEF Report
<1>10. QED
  BY <1>5, <1>6, <1>7, <1>8, <1>9 DEF IInv

\* A request that succeeds (output.ts 45-54, output-ng-binary.ts 98-102).
LEMMA AnsweredKeeps ==
  ASSUME IInv, NEW s \in Slots, Answered(s)
  PROVE  IInv'
<1>1. s \in Open /\ Reported(s) \in Values \cup {None, Fresh}
  BY ReadsType DEF Answered, Reported, IInv, TypeOK
<1>2. \/ Reported(s) = Reads(set)
      \/ ~Ng /\ (newest = None => straggler') /\ newest # s
  <2>1. CASE Ng
    BY <2>1 DEF Reported
  <2>2. CASE ~Ng /\ newest = s
    <3>1. asked[s] = set /\ set # None
      BY <1>1, <2>2, ValuesAssumption DEF IInv, Asking, Open
    <3>2. QED
      BY <2>2, <3>1 DEF Reported, Reads
  <2>3. CASE ~Ng /\ newest # s
    BY <2>3 DEF Answered
  <2>4. QED
    BY <2>1, <2>2, <2>3
<1>3. straggler' \in BOOLEAN /\ animation' \in Animations
  BY DEF Answered, IInv, TypeOK
<1>4. QED
  BY <1>1, <1>2, <1>3, EndKeeps DEF Answered

\* A request that fails.
LEMMA FailsKeeps ==
  ASSUME IInv, NEW s \in Slots, Fails(s)
  PROVE  IInv'
<1>1. straggler' \in BOOLEAN /\ animation' \in Animations
  BY DEF Fails, Animations
<1>2. QED
  BY <1>1, EndKeeps DEF Fails

\* The device goes offline (output.ts 21-25).
LEMMA OfflineKeeps ==
  ASSUME IInv, GoesOffline
  PROVE  IInv'
<1>1. actual' = None /\ loading' = FALSE /\ unasked' = FALSE /\ newest' = None
  BY DEF GoesOffline, Report
<1>2. Open' = {}
  BY DEF GoesOffline, Open
<1>3. TypeOK'
  BY <1>1 DEF GoesOffline, IInv, TypeOK, Animations, Open
<1>4. OfflineIsUnknown' /\ LoadingEnds' /\ KnownIsCurrent'
  BY <1>1, <1>2 DEF GoesOffline, OfflineIsUnknown, LoadingEnds, KnownIsCurrent
<1>5. Asking'
  BY <1>1 DEF GoesOffline, IInv, Asking, Ng
<1>6. QED
  BY <1>3, <1>4, <1>5 DEF IInv

\* The device comes online (output.ts 27, output-ng-binary.ts 62).
LEMMA OnlineKeeps ==
  ASSUME IInv, ComesOnline
  PROVE  IInv'
<1>1. CASE Refused
  BY <1>1, RefusedKeeps DEF ComesOnline, IInv, TypeOK, Asking
<1>2. CASE ~Refused
  <2>1. PICK s \in Slots : asked' = [asked EXCEPT ![s] = Reads(set)] /\ newest' = s
    BY <1>2 DEF ComesOnline
  <2>2. UNCHANGED <<actual, loading, unasked, straggler, kind, set>> /\ online'
    BY <1>2 DEF ComesOnline
  <2>3. animation' \in Animations
    BY <1>2 DEF ComesOnline, Animations
  <2>4. Reads(set) \in Values \cup {Fresh} /\ Reads(set) # None
    BY ReadsType DEF IInv, TypeOK
  <2>5. asked' \in [Slots -> Values \cup {None, Fresh}] /\ asked'[s] = Reads(set)
    BY <2>1, <2>4 DEF IInv, TypeOK
  <2>6. TypeOK'
    BY <1>2, <2>1, <2>2, <2>3, <2>4, <2>5 DEF ComesOnline, IInv, TypeOK, Open
  <2>7. newest' # None
    BY <2>1, ValuesAssumption
  <2>8. OfflineIsUnknown' /\ LoadingEnds' /\ KnownIsCurrent'
    BY <2>2, <2>7 DEF OfflineIsUnknown, LoadingEnds, KnownIsCurrent
  <2>9. Asking'
    BY <2>1, <2>2, <2>5 DEF IInv, Asking, Ng, Reads
  <2>10. QED
    BY <2>6, <2>8, <2>9 DEF IInv
<1>3. QED
  BY <1>1, <1>2

\* One step per action of Output.
LEMMA InvKept ==
  ASSUME IInv, [Next]_vars
  PROVE  IInv'
<1>1. CASE AnimationEnds
  <2>1. UNCHANGED <<kind, online, set, actual, loading, asked, newest, unasked, straggler>>
         /\ animation' = "STATIC"
    BY <1>1 DEF AnimationEnds
  <2>2. TypeOK'
    BY <2>1 DEF IInv, TypeOK, Animations, Open
  <2>3. OfflineIsUnknown' /\ LoadingEnds' /\ KnownIsCurrent' /\ Asking'
    BY <2>1 DEF IInv, OfflineIsUnknown, LoadingEnds, KnownIsCurrent, Asking, Ng, Reads, Open
  <2>4. QED
    BY <2>2, <2>3 DEF IInv
<1>2. CASE UNCHANGED vars
  <2>1. TypeOK'
    BY <1>2 DEF vars, IInv, TypeOK, Open
  <2>2. OfflineIsUnknown' /\ LoadingEnds' /\ KnownIsCurrent' /\ Asking'
    BY <1>2 DEF vars, IInv, OfflineIsUnknown, LoadingEnds, KnownIsCurrent, Asking, Ng, Reads, Open
  <2>3. QED
    BY <2>1, <2>2 DEF IInv
<1>3. QED
  BY <1>1, <1>2, SetKeeps, AnimateKeeps, AnsweredKeeps, FailsKeeps, OfflineKeeps, OnlineKeeps
  DEF Next

\* The inductive invariant holds in every reachable state.
LEMMA InductiveInvariant == Spec => []IInv
BY InitInv, InvKept, PTL DEF Spec

-----------------------------------------------------------------------------
(* Theorems.                                                               *)

\* The variables keep their types (items/output.ts 10-33).
THEOREM TypeCorrect == Spec => []TypeOK
BY InductiveInvariant, PTL DEF IInv

\* Nothing is claimed about an actuator whose device is offline (output.ts 21-25).
THEOREM OfflineUnknown == Spec => []OfflineIsUnknown
BY InductiveInvariant, PTL DEF IInv

\* Loading ends with the newest request (actuators.ts 67-79).
THEOREM LoadingPasses == Spec => []LoadingEnds
BY InductiveInvariant, PTL DEF IInv

\* A known state is what is set once the newest request has ended, stragglers of
\* Output and Led excepted (output.ts 45-54, output-ng-binary.ts 98-102).
THEOREM CurrentState == Spec => []KnownIsCurrent
BY InductiveInvariant, PTL DEF IInv

=============================================================================
