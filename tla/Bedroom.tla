------------------------------ MODULE Bedroom ------------------------------
(***************************************************************************)
(* The scenes of the bedroom and the cycle through them. Turning on a      *)
(* scene sets its members one by one; a scene all of whose members have    *)
(* their value is on, whoever set them, and its observer moves sceneCycle  *)
(* to it; the observer of sceneCycle turns on the scene the cycle was      *)
(* moved to. So one set may call the other's observers in its midst, and   *)
(* on the way from one scene to another lights may pass through a third.   *)
(*                                                                         *)
(* `sets` is the call stack of these sets: a step assigns one member and   *)
(* runs the observers this calls, which may begin a set of their own. What *)
(* comes from outside, a button, the web or what was persisted, finds the  *)
(* stack empty, as JavaScript runs a set to its end first. ionGenerator is *)
(* left out: no scene, light group or observer depends on it.              *)
(***************************************************************************)
EXTENDS Integers, Sequences

CONSTANTS
  WebLights,     \* bound: the lights that the web or persisted values set one by one
  WebGroups      \* bound: the groups the web sets

VARIABLES
  lights,        \* lights[l]: setState of light l
  cycle,         \* sceneCycle
  sets,          \* the sets in progress, the innermost last
  asked          \* history: the scene, or the "dark", last asked for; "other" if
                 \* something else was set since

bedroomVars == <<lights, cycle, sets, asked>>

\* Brightness of a LED: 0, 0.5 and 1. Relays are off or full.
Values == {"off", "half", "full"}

\* The lights, in the order the members of all scenes are listed.
SceneOrder ==
  << "upRed", "leftRed", "rightRed", "nightLight", "upWWhite", "standingLamp",
     "down", "leftWWhite", "rightWWhite", "ceilingLight", "ceilingLightRGB" >>

\* heatLamp belongs to groups, but to no scene.
Members == {SceneOrder[i] : i \in DOMAIN SceneOrder}
Lights == Members \cup {"heatLamp"}
Leds == {"upRed", "leftRed", "rightRed", "upWWhite", "down", "leftWWhite", "rightWWhite"}
ASSUME WebAssumption == WebLights \subseteq Lights

\* The groups, with the order they set their lights in.
Groups ==
  [ allLights |->
      << "down", "upRed", "upWWhite", "ceilingLight", "ceilingLightRGB", "heatLamp",
         "nightLight", "leftRed", "leftWWhite", "rightRed", "rightWWhite", "standingLamp" >>,
    bookshelfLedWWhite |-> << "down", "upWWhite" >>,
    nightstandLedRed |-> << "leftRed", "rightRed" >>,
    nightstandLedWWhite |-> << "leftWWhite", "rightWWhite" >>,
    redLeds |-> << "upRed", "leftRed", "rightRed" >>,
    wWhiteLeds |-> << "down", "upWWhite", "leftWWhite", "rightWWhite" >> ]

ASSUME GroupsAssumption == WebGroups \subseteq DOMAIN Groups

\* What a scene turns on; its other members it turns off.
Lit ==
  [ allOff |-> {},
    allRed |-> {"upRed", "leftRed", "rightRed"},
    onlyNightLight |-> {"nightLight"},
    moodLight |-> {"upRed", "nightLight", "upWWhite", "standingLamp"},
    ceilingLightPlus |->
      {"upWWhite", "standingLamp", "down", "leftWWhite", "rightWWhite", "ceilingLight"},
    everythingOn |-> Members \ {"ceilingLightRGB"} ]

Scenes == DOMAIN Lit

\* The order of sceneCycle.
Cycle ==
  << "allOff", "allRed", "onlyNightLight", "moodLight", "ceilingLightPlus", "everythingOn" >>

\* onValue of member l of scene s; offValue is off for all of them.
OnValue(s, l) ==
  CASE l \notin Lit[s] -> "off"
    [] s = "moodLight" /\ l = "upWWhite" -> "half"
    [] OTHER -> "full"

\* A scene is on: IS_TRUE_IF_ALL_TRUE of its members having their value.
IsOn(s, ls) == \A l \in Members : ls[l] = OnValue(s, l)

\* A set of lights in an order, to a scene or to a value.
SetTo(order, to) == [left |-> order, to |-> to]
Wanted(f, l) == IF f.to \in Scenes THEN OnValue(f.to, l) ELSE f.to

-----------------------------------------------------------------------------
Innermost == sets[Len(sets)]
Outer == SubSeq(sets, 1, Len(sets) - 1)

\* Positions of members that do not have their value yet: the others are not set.
Differing == {i \in DOMAIN Innermost.left : lights[Innermost.left[i]] # Wanted(Innermost, Innermost.left[i])}

\* The scenes whose observer runs and does not return at once, when lights become ls.
\* Variant: it does not return when a scene is no longer on.
BugBothWays(ls) == {s \in Scenes : IsOn(s, ls) # IsOn(s, lights)}

Rising(ls) == {s \in Scenes : IsOn(s, ls) /\ ~IsOn(s, lights)}

\* What the observer of sceneCycle sets.
\* Variant: it flips the scene, and the one it finds lit goes off.
BugFlips(s) == SetTo(SceneOrder, "off")

Triggered(s) == SetTo(SceneOrder, s)

\* sceneCycle.set(s) in the observer of scene s: when it changes, its observer sets s.
\* Variant: only for a scene that was asked for.
BugAskedOnly(s, rest) ==
  IF cycle = s \/ asked = "other"
    THEN cycle' = cycle /\ sets' = rest
    ELSE cycle' = s /\ sets' = Append(rest, Triggered(s))

MoveCycle(s, rest) ==
  IF cycle = s
    THEN cycle' = cycle /\ sets' = rest
    ELSE cycle' = s /\ sets' = Append(rest, Triggered(s))

\* The innermost set once its members up to the i-th are set.
Beyond(i) == [Innermost EXCEPT !.left = SubSeq(@, i + 1, Len(@))]

\* The first member that has not got its value is set, and the observers of the scenes
\* run.
Step ==
  /\ sets # <<>>
  /\ \E i \in Differing :
       /\ \A j \in Differing : i <= j
       /\ LET l == Innermost.left[i]
              ls == [lights EXCEPT ![l] = Wanted(Innermost, l)]
              rest == Append(Outer, Beyond(i))
          IN /\ lights' = ls
             /\ \/ \E s \in Rising(ls) : MoveCycle(s, rest)
                \/ Rising(ls) = {} /\ sets' = rest /\ UNCHANGED cycle
  /\ UNCHANGED asked

\* All members have their value: the set returns to the observer that called it.
Return ==
  /\ sets # <<>> /\ Differing = {}
  /\ sets' = Outer
  /\ UNCHANGED <<lights, cycle, asked>>

-----------------------------------------------------------------------------
BedroomInit ==
  /\ lights = [l \in Lights |-> "off"]
  /\ cycle = "allOff"
  /\ sets = <<>>
  /\ asked = "other"

Quiet == sets = <<>>

\* getMain(allLights)
AllLights == \E l \in Lights : lights[l] # "off"

Begin(order, to, what) ==
  /\ sets' = << SetTo(order, to) >>
  /\ asked' = what
  /\ UNCHANGED lights

\* setMain(scene, true), by a button or the web.
TurnSceneOn(s) == Quiet /\ Begin(SceneOrder, s, s) /\ UNCHANGED cycle

\* setMain(allLights, false)
TurnAllOff == Quiet /\ Begin(Groups.allLights, "off", "dark") /\ UNCHANGED cycle

\* sceneCycle.next() and .previous(); whether they go on at the ends of the cycle is
\* up to EnumState.
Steer(by) ==
  /\ Quiet
  /\ \E i, j \in DOMAIN Cycle :
       /\ Cycle[i] = cycle
       /\ j = i + by \/ (i + by \notin DOMAIN Cycle /\ {i, j} = {1, Len(Cycle)})
       /\ cycle' = Cycle[j]
       /\ Begin(SceneOrder, Cycle[j], Cycle[j])

CycleNext == Steer(1)
CyclePrevious == Steer(-1)

\* The buttons at the bed, at the door and in the room.
OffOrElse(s) == IF AllLights THEN TurnAllOff ELSE TurnSceneOn(s)

BedButtonLeft == IF AllLights THEN CyclePrevious ELSE TurnSceneOn("allRed")
BedButtonMiddle == OffOrElse("onlyNightLight")
BedButtonRight == IF AllLights THEN CycleNext ELSE TurnSceneOn("moodLight")
RoomButton == OffOrElse("onlyNightLight")
MultiButtonTopLeft == OffOrElse("moodLight")
MultiButtonTopRight == OffOrElse("ceilingLightPlus")
MultiButtonBottomLeft == CyclePrevious
MultiButtonBottomRight == CycleNext
WallswitchDoorLeft == IF AllLights THEN CyclePrevious ELSE TurnSceneOn("onlyNightLight")
WallswitchDoorMiddle == OffOrElse("moodLight")
WallswitchDoorRight == IF AllLights THEN CycleNext ELSE TurnSceneOn("ceilingLightPlus")
LongPress == TurnAllOff

\* The buttons of heatLamp, nightLight, standingLamp and ceilingLight flip their light.
Opposite(l) == IF lights[l] = "off" THEN "full" ELSE "off"

FlipButton(l) ==
  Quiet /\ Begin(<<l>>, Opposite(l), "other") /\ UNCHANGED cycle

Buttons ==
  \/ BedButtonLeft \/ BedButtonMiddle \/ BedButtonRight
  \/ RoomButton \/ MultiButtonTopLeft \/ MultiButtonTopRight
  \/ MultiButtonBottomLeft \/ MultiButtonBottomRight
  \/ WallswitchDoorLeft \/ WallswitchDoorMiddle \/ WallswitchDoorRight
  \/ LongPress
  \/ \E l \in {"heatLamp", "nightLight", "standingLamp", "ceilingLight"} : FlipButton(l)

\* The web sets a light, or what was persisted does.
SetLight(l, v) ==
  /\ Quiet
  /\ l \in Leds \/ v # "half"
  /\ Begin(<<l>>, v, "other")
  /\ UNCHANGED cycle

\* The web sets a group; one with relays is on or off.
SetGroup(g, v) ==
  /\ Quiet
  /\ g = "allLights" => v # "half"
  /\ Begin(Groups[g], v, "other")
  /\ UNCHANGED cycle

\* The web turns off a scene: its members become their offValue.
TurnSceneOff(s) == Quiet /\ Begin(SceneOrder, "off", "allOff") /\ UNCHANGED cycle

Web ==
  \/ \E l \in WebLights, v \in Values : SetLight(l, v)
  \/ \E g \in WebGroups, v \in Values : SetGroup(g, v)
  \/ \E s \in Scenes : TurnSceneOn(s) \/ TurnSceneOff(s)

BedroomNext == Step \/ Return \/ Buttons \/ Web

BedroomSpec == BedroomInit /\ [][BedroomNext]_bedroomVars

-----------------------------------------------------------------------------
(* Properties.                                                             *)

\* Whenever the lights are those of a scene, the cycle stands at it, so that next and
\* previous go on from what is to be seen, whoever set the lights and whatever scenes
\* they passed through (mrpelz-bedroom.ts 688-697).
CycleFollows == Quiet => \A s \in Scenes : IsOn(s, lights) => cycle = s

\* What was asked for is what the lights are once all observers have returned: no
\* scene on the way there brings its own lights back (mrpelz-bedroom.ts 684-697,
\* actuators.ts 593-610).
AskedIsLit ==
  Quiet =>
    /\ asked \in Scenes => IsOn(asked, lights)
    /\ asked = "dark" => ~AllLights

\* Scenes and cycle do not call each other for ever: a set that an observer begins
\* finds its scene lit, and begins no other (mrpelz-bedroom.ts 688-697).
NoPingPong == Len(sets) <= 2

=============================================================================
