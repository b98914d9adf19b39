------------------------------- MODULE Output -------------------------------
(***************************************************************************)
(* An actuator: what is set (setState), what it is taken to be             *)
(* (actualState), and the actuatorStaleness beside them. Setting it issues *)
(* a request on its device, and the outcome decides what actualState       *)
(* becomes; nothing waits for an earlier request, so several may be open,  *)
(* and over UDP their outcomes arrive in any order. When the device comes  *)
(* online the actuator is set again, when it goes offline its state is     *)
(* unknown. What a request may do is what RequestService promises.         *)
(*                                                                         *)
(* Four kinds of items differ in details: Output and Led report what the   *)
(* request asked for; OutputNg (binary, dimmable, buzzer) and OutputRGB    *)
(* report what is set by now, and may also play an animation, with nothing *)
(* set meanwhile. Values of OutputRGB are objects, compared by identity.   *)
(***************************************************************************)
EXTENDS FiniteSets

CONSTANTS
  Values,        \* what the actuator can be set to
  Off,           \* what setState reads as while nothing is set
  Slots,         \* bound: requests open at the same time
  None,          \* actualState unknown, nothing set, no request
  Fresh          \* a new object: equal to no other

ASSUME OffAssumption == Off \in Values
ASSUME ValuesAssumption == None \notin Values \cup Slots /\ Fresh \notin Values \cup {None}

Kinds == {"Output", "Led", "OutputNg", "OutputRGB"}
Animations == {"STATIC", "FINITE", "INFINITE"}

VARIABLES
  kind,          \* the class of the item; never changes
  online,        \* isOnline of its service
  set,           \* _setState; None while an animation was set instead
  actual,        \* _actualState
  animation,     \* _animationState, STATIC for Output and Led
  loading,       \* loading of actuatorStaleness
  asked,         \* asked[s]: what the open request s asked for, or None
  newest,        \* the newest request, as long as it is open
  unasked,       \* history: loading was last raised without a request
  straggler      \* history: actual stems from a request that was not the newest
                 \* and came when that was no longer open

vars == <<kind, online, set, actual, animation, loading, asked, newest, unasked, straggler>>

Ng == kind \in {"OutputNg", "OutputRGB"}

\* setState.value, when w is set: null reads as off, or as a new black.
Reads(w) == IF w # None THEN w ELSE IF kind = "OutputRGB" THEN Fresh ELSE Off

\* a === setState.value
Identical(a, w) == a = Reads(w) /\ a # Fresh

Open == {s \in Slots : asked[s] # None}

-----------------------------------------------------------------------------
(* What actualState.set does, given what is set: the observer of           *)
(* actuatorStaleness ends loading, unless the state is not what was set.   *)

\* Variant: an unknown state does not end loading.
BugLoadsOn(a, w) ==
  /\ actual' = a
  /\ loading' = (loading /\ ~Identical(a, w))
  /\ unasked' = (unasked /\ loading')

Report(a, w) ==
  /\ actual' = a
  /\ loading' = (loading /\ a # None /\ ~Identical(a, w))
  /\ unasked' = (unasked /\ loading')

\* What setState.set(w) does to loading.
Raised(w) == loading \/ ~Identical(actual, w)

\* _set once the request is under way, and when it is refused: _unknown. An
\* animation that is set is FINITE or INFINITE.
Sent(s, v, anim) ==
  /\ online
  /\ asked[s] = None
  /\ asked' = [asked EXCEPT ![s] = v]
  /\ newest' = s
  /\ animation' = IF Ng THEN anim ELSE "STATIC"
  /\ UNCHANGED actual

Refused ==
  /\ newest' = None
  /\ animation' = "STATIC"
  /\ actual' = None
  /\ loading' = FALSE
  /\ unasked' = FALSE
  /\ straggler' = FALSE
  /\ UNCHANGED asked

-----------------------------------------------------------------------------
Init ==
  /\ kind \in Kinds
  /\ online = FALSE
  /\ set = Off
  /\ actual = None
  /\ animation = "STATIC"
  /\ loading = TRUE
  /\ asked = [s \in Slots |-> None]
  /\ newest = None
  /\ unasked = TRUE
  /\ straggler = FALSE

\* Does setting v issue a request? A Led observes changes only; whether the
\* callbacks of the others run for the same value is up to the Observable.
Asks(v) == IF v # set THEN {TRUE} ELSE IF kind = "Led" THEN {FALSE} ELSE BOOLEAN

\* Someone sets the actuator, by whatever way: a person, a scene, a logic.
Set(v) ==
  /\ set' = v
  /\ \/ /\ TRUE \in Asks(v)
        /\ \/ /\ \E s \in Slots : Sent(s, v, "FINITE")
              /\ loading' = Raised(v)
              /\ unasked' = FALSE
              /\ UNCHANGED straggler
           \/ Refused
     \/ /\ FALSE \in Asks(v)
        /\ loading' = Raised(v)
        /\ unasked' = (unasked \/ ~Identical(actual, v))
        /\ UNCHANGED <<actual, animation, asked, newest, straggler>>
  /\ UNCHANGED <<kind, online>>

\* set(request): an animation is played instead, blink or beep; until something
\* is set again nothing is.
Animate(anim) ==
  /\ Ng
  /\ set' = None
  /\ \/ /\ \E s \in Slots : Sent(s, Off, anim)
        /\ loading' = Raised(None)
        /\ unasked' = FALSE
        /\ UNCHANGED straggler
     \/ Refused
  /\ UNCHANGED <<kind, online>>

\* The progress event of the device: it no longer iterates.
AnimationEnds ==
  /\ Ng
  /\ animation' = "STATIC"
  /\ UNCHANGED <<kind, online, set, actual, loading, asked, newest, unasked, straggler>>

\* Variant: every item reports what the request asked for.
BugReportsAsked(s) == asked[s]

\* What a successful request s makes actualState.
Reported(s) == IF Ng THEN Reads(set) ELSE asked[s]

\* An open request succeeds.
Answered(s) ==
  /\ s \in Open
  /\ Report(Reported(s), set)
  /\ asked' = [asked EXCEPT ![s] = None]
  /\ newest' = IF newest = s THEN None ELSE newest
  /\ straggler' = (newest = None)
  /\ UNCHANGED <<kind, online, set, animation>>

\* An open request fails: the state is unknown.
Fails(s) ==
  /\ s \in Open
  /\ Report(None, set)
  /\ asked' = [asked EXCEPT ![s] = None]
  /\ newest' = IF newest = s THEN None ELSE newest
  /\ straggler' = FALSE
  /\ animation' = "STATIC"
  /\ UNCHANGED <<kind, online, set>>

\* Variant: going offline aborts the requests, but nobody observes it.
BugAbortsOnly ==
  /\ online
  /\ online' = FALSE
  /\ IF Open # {} THEN Report(None, set) /\ animation' = "STATIC"
                  ELSE UNCHANGED <<actual, animation, loading, unasked>>
  /\ asked' = [s \in Slots |-> None]
  /\ newest' = None
  /\ straggler' = FALSE
  /\ UNCHANGED <<kind, set>>

\* The device goes offline: its requests are aborted, the state is unknown.
GoesOffline ==
  /\ online
  /\ online' = FALSE
  /\ Report(None, set)
  /\ animation' = "STATIC"
  /\ asked' = [s \in Slots |-> None]
  /\ newest' = None
  /\ straggler' = FALSE
  /\ UNCHANGED <<kind, set>>

\* The device comes online: the actuator is set to what is set, for Ng to off
\* when nothing is. Nothing is open yet.
ComesOnline ==
  /\ ~online
  /\ online' = TRUE
  /\ \/ /\ \E s \in Slots :
             /\ asked' = [asked EXCEPT ![s] = Reads(set)]
             /\ newest' = s
        /\ animation' = IF Ng THEN "FINITE" ELSE "STATIC"
        /\ UNCHANGED <<actual, loading, unasked, straggler>>
     \/ Refused
  /\ UNCHANGED <<kind, set>>

Next ==
  \/ \E v \in Values : Set(v)
  \/ \E anim \in Animations \ {"STATIC"} : Animate(anim)
  \/ AnimationEnds
  \/ \E s \in Slots : Answered(s) \/ Fails(s)
  \/ GoesOffline
  \/ ComesOnline

Spec == Init /\ [][Next]_vars

-----------------------------------------------------------------------------
(* Properties.                                                             *)

\* The variables keep their types (items/output.ts 10-33, output-ng-binary.ts
\* 41-79, tree/properties/actuators.ts 64-65).
TypeOK ==
  /\ kind \in Kinds
  /\ online \in BOOLEAN /\ loading \in BOOLEAN /\ unasked \in BOOLEAN /\ straggler \in BOOLEAN
  /\ set \in Values \cup {None}
  /\ actual \in Values \cup {None, Fresh}
  /\ animation \in Animations
  /\ asked \in [Slots -> Values \cup {None, Fresh}]
  /\ newest \in Open \cup {None}

\* Nothing is claimed about an actuator that cannot be reached, whatever was set,
\* answered or aborted around the moment it got offline (items/output.ts 21-28,
\* 45-50, output-ng-binary.ts 56-63, 91-96).
OfflineIsUnknown == ~online => actual = None /\ animation = "STATIC" /\ Open = {}

\* The interface does not show an actuator as loading for ever: either the newest
\* request is open, or no request was made for what was set - or an animation was
\* set on an OutputRGB, whose state never is the object that reads as set
\* (actuators.ts 67-79).
LoadingEnds ==
  loading => newest # None \/ unasked \/ (kind = "OutputRGB" /\ set = None)

\* When the newest request is no longer open a known state is what is set, but for
\* Output and Led when an older request was answered last (items/output.ts 45-54,
\* output-ng-binary.ts 98-102).
KnownIsCurrent ==
  newest = None /\ actual # None => actual = Reads(set) \/ (straggler /\ ~Ng)

=============================================================================
