------------------------------ MODULE Bathrooms ------------------------------
(***************************************************************************)
(* The lights of the two bathrooms. autoLight, triggered by a button or an *)
(* input in the dark, picks a scene by the elevation of the sun, and falls *)
(* over to the scenes of brighter phases while the devices it asks for are *)
(* offline, in the end to all lights. In one bathroom the heating of the   *)
(* mirror follows the lights, as long as the two are linked.               *)
(*                                                                         *)
(* A light is one of a device of its own and is known by its name here;    *)
(* the device of mirrorLed is `leds`. Brightness does not matter, only     *)
(* what is set to be on. A scene and a group set their members one by one: *)
(* in between the group may be dark for a moment. Whether its observers    *)
(* are told so is up to a library and left open. Who acts, and when, is    *)
(* open as well: people, the web, what was persisted, and autoLightLogic,  *)
(* which triggers autoLight in the dark and turns lights off.              *)
(***************************************************************************)
EXTENDS Naturals

VARIABLES
  room,          \* which of the two bathrooms; never changes
  online,        \* lights whose device is online
  phase,         \* phase of the sun: 1 is the night, 5 the day
  lit,           \* lights set to be on
  heating,       \* mirrorHeating.main.setState
  linked,        \* isMirrorHeatingLinked
  auto,          \* history: "scene" or "all": what autoLight has turned on, if nothing
                 \* has happened to lights, devices and sun since; "no" otherwise
  byHand         \* history: the heating or the link was set since the lights last set it

bathroomVars == <<room, online, phase, lit, heating, linked, auto, byHand>>

BathroomLights == {"ceilingLight", "mirrorLed", "mirrorLight", "nightLight"}

\* The order the members of groups and scenes are set in.
Order == <<"ceilingLight", "mirrorLed", "mirrorLight", "nightLight">>

\* isNight, isAstronomicalTwilight, isNauticalTwilight, isCivilTwilight, isDay: an
\* elevation belongs to exactly one of them.
Phases == 1..5
Night == 1

\* What the scene of each phase turns on; it turns off everything else.
MrpelzLighting ==
  << {"mirrorLed"},
     {"mirrorLed", "nightLight"},
     {"mirrorLed", "mirrorLight"},
     {"mirrorLed", "mirrorLight", "nightLight"},
     {"ceilingLight", "mirrorLed", "mirrorLight"} >>

TsiaLighting ==
  << {"mirrorLed"},
     {"nightLight"},
     {"mirrorLed", "nightLight"},
     {"mirrorLed", "mirrorLight"},
     {"ceilingLight", "mirrorLed", "mirrorLight"} >>

Lighting == IF room = "mrpelzBathroom" THEN MrpelzLighting ELSE TsiaLighting

\* Variant: the devices of two phases are mixed up.
BugAsksOther ==
  << {"nightLight"},
     {"mirrorLight"},
     {"mirrorLed", "nightLight"},
     {"mirrorLed", "mirrorLight", "nightLight"},
     {"ceilingLight", "mirrorLed", "mirrorLight"} >>

\* A scene is turned on if one of these is online, in either bathroom.
AskedFor ==
  << {"nightLight"},
     {"mirrorLed", "nightLight"},
     {"mirrorLed", "mirrorLight"},
     {"mirrorLed", "mirrorLight", "nightLight"},
     {"ceilingLight", "mirrorLed", "mirrorLight"} >>

\* The phases whose scenes autoLight can turn on: that of the sun, or a brighter one.
Possible == {p \in Phases : p >= phase /\ AskedFor[p] \cap online # {}}

-----------------------------------------------------------------------------
\* With lights set to s one after the other there is a moment without any.
PassesDark(s) ==
  /\ lit # {} /\ s # {}
  /\ \E n \in DOMAIN Order :
       \A i \in DOMAIN Order : Order[i] \notin (IF i <= n THEN s ELSE lit)

\* Variant: the heating is only turned on with the lights.
BugOnlyOn(s) ==
  /\ lit' = s
  /\ IF room = "mrpelzBathroom" /\ linked /\ lit = {} /\ s # {}
       THEN heating' = TRUE /\ byHand' = FALSE
       ELSE UNCHANGED <<heating, byHand>>

\* The set() of lights, by a scene or otherwise. The observer of allLights sets the
\* heating when the group changes.
LightsBecome(s) ==
  /\ lit' = s
  /\ \/ /\ room = "mrpelzBathroom" /\ linked
        /\ (lit = {}) # (s = {}) \/ PassesDark(s)
        /\ heating' = (s # {})
        /\ byHand' = FALSE
     \/ /\ room = "mrpelzBathroom" /\ linked => (lit = {}) = (s = {})
        /\ UNCHANGED <<heating, byHand>>

BathroomsInit ==
  /\ room \in {"mrpelzBathroom", "tsiaBathroom"}
  /\ online = {}
  /\ phase \in Phases
  /\ lit = {}
  /\ heating = FALSE
  /\ linked = TRUE
  /\ auto = "no"
  /\ byHand = FALSE

\* autoLight is triggered. (In one bathroom its handler and an observer do the same,
\* one after the other.)
AutoLight ==
  /\ IF Possible = {}
       THEN LightsBecome(BathroomLights) /\ auto' = "all"
       ELSE /\ \E p \in Possible :
                 (\A q \in Possible : p <= q) /\ LightsBecome(Lighting[p])
            /\ auto' = "scene"
  /\ UNCHANGED <<room, online, phase, linked>>

\* allLights is set: by autoLightLogic, a button, or the group of all rooms.
SetAllLights(b) ==
  /\ LightsBecome(IF b THEN BathroomLights ELSE {})
  /\ auto' = "no"
  /\ UNCHANGED <<room, online, phase, linked>>

\* A scene is set by itself. Turned off, it leaves nothing on.
SetScene(p, b) ==
  /\ LightsBecome(IF b THEN Lighting[p] ELSE {})
  /\ auto' = "no"
  /\ UNCHANGED <<room, online, phase, linked>>

\* One light is flipped.
Flip(l) ==
  /\ LightsBecome(IF l \in lit THEN lit \ {l} ELSE lit \cup {l})
  /\ auto' = "no"
  /\ UNCHANGED <<room, online, phase, linked>>

\* allThings is set, which has the heating among the lights.
SetAllThings(b) ==
  /\ room = "mrpelzBathroom"
  /\ lit' = IF b THEN BathroomLights ELSE {}
  /\ heating' = b
  /\ byHand' = FALSE
  /\ auto' = "no"
  /\ UNCHANGED <<room, online, phase, linked>>

FlipHeating ==
  /\ room = "mrpelzBathroom"
  /\ heating' = ~heating
  /\ byHand' = TRUE
  /\ UNCHANGED <<room, online, phase, lit, linked, auto>>

\* The scene enableMirrorHeatingLinkage is set.
FlipLinkage ==
  /\ room = "mrpelzBathroom"
  /\ linked' = ~linked
  /\ byHand' = TRUE
  /\ UNCHANGED <<room, online, phase, lit, heating, auto>>

DeviceComesOrGoes(l) ==
  /\ online' = IF l \in online THEN online \ {l} ELSE online \cup {l}
  /\ auto' = "no"
  /\ UNCHANGED <<room, phase, lit, heating, linked, byHand>>

SunMoves ==
  /\ phase' \in {phase - 1, phase + 1} \cap Phases
  /\ auto' = "no"
  /\ UNCHANGED <<room, online, lit, heating, linked, byHand>>

BathroomsNext ==
  \/ AutoLight
  \/ \E b \in BOOLEAN : SetAllLights(b) \/ SetAllThings(b)
  \/ \E p \in Phases, b \in BOOLEAN : SetScene(p, b)
  \/ \E l \in BathroomLights : Flip(l) \/ DeviceComesOrGoes(l)
  \/ FlipHeating \/ FlipLinkage
  \/ SunMoves

BathroomsSpec == BathroomsInit /\ [][BathroomsNext]_bathroomVars

-----------------------------------------------------------------------------
(* Properties.                                                             *)

\* autoLight does not leave the room dark while some of its devices are online: in
\* one bathroom not unless, at night, the night light answers for LEDs that are
\* offline; in the other one at least when both of these are online
\* (mrpelz-bathroom.ts 602-687, tsia-bathroom.ts 176-239, 579-664).
AutoLightReaches ==
  auto # "no" /\ online # {} =>
    \/ lit \cap online # {}
    \/ /\ room = "mrpelzBathroom" /\ phase = Night
       /\ "nightLight" \in online /\ "mirrorLed" \notin online
    \/ room = "tsiaBathroom" /\ ~({"mirrorLed", "nightLight"} \subseteq online)

\* While it is linked and left alone, the heating is on exactly while some light is,
\* whatever turns lights on and off, and although the group may be dark for a moment
\* while a scene replaces another (mrpelz-bathroom.ts 586-600).
HeatingFollows ==
  room = "mrpelzBathroom" /\ linked /\ ~byHand => (heating <=> lit # {})

\* autoLight turns on all lights when the members of the scene are not online, as it
\* logs (mrpelz-bathroom.ts 684-686): what it turns on by a scene is online in part.
SceneMembersOnline == auto = "scene" => lit \cap online # {}

=============================================================================
