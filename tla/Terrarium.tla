----------------------------- MODULE Terrarium -----------------------------
(***************************************************************************)
(* The LEDs of the terrarium in the living room. They follow the sun,      *)
(* unless they are overridden: then they do what is wished. Turning on     *)
(* avr or projector, the media, overrides and darkens them, turning off    *)
(* both, or a timer, ends that. Each LED is wrapped by overriddenLed,      *)
(* which keeps the wish and the brightness of the LED itself apart.        *)
(*                                                                         *)
(* Everything here runs in observers, so one action is a whole cascade.    *)
(* Both LEDs behave alike; `leds` is one of them. The infoscreen, which is *)
(* set as well, is an ExternalState. What the wrapper shows of the actual  *)
(* brightness is left out.                                                 *)
(***************************************************************************)
EXTENDS Naturals

CONSTANT Brightness   \* values of brightness besides 0

ASSUME BrightnessAssumption == Brightness \subseteq Nat \ {0}

VARIABLES
  media,         \* setState of avr and projector
  override,      \* isTerrariumLedsOverride
  overrideTimer, \* its isEnabled and isActive
  leds,          \* setBrightness of the wrapper and setState of the LED itself
  sun,           \* what sunlightLeds answers
  ledsOnline,    \* the device of the LEDs is online
  moved          \* history: the sun has moved since the LEDs were last to follow it

terrariumVars == <<media, override, overrideTimer, leds, sun, ledsOnline, moved>>

Levels == {0} \cup Brightness
On(m) == m.avr \/ m.projector

-----------------------------------------------------------------------------
(* The wrapper: what becomes of wish and brightness, when overridden is o. *)

\* setBrightness.set(v), with its callback.
Wished(l, v, o) == [wish |-> v, brightness |-> IF o THEN v ELSE l.brightness]

\* brightness.setState.set(v), with its observer.
\* Variant: it is not observed.
BugUnobserved(l, v, o) == [l EXCEPT !.brightness = v]

Lit(l, v, o) == [wish |-> IF o THEN v ELSE l.wish, brightness |-> v]

\* The observer of the override and the first one of the room.
Darkened(l) == Lit(Lit(l, l.wish, TRUE), 0, TRUE)

\* handleTerrariumLedsAutomation
Automated(l, o) == IF o \/ ~ledsOnline THEN l ELSE Lit(l, sun, o)

TimerStarted(t) ==
  {[t EXCEPT !.isActive = b] : b \in IF t.isEnabled THEN {TRUE} ELSE {TRUE, t.isActive}}

-----------------------------------------------------------------------------
TerrariumInit ==
  /\ media = [avr |-> FALSE, projector |-> FALSE]
  /\ override = FALSE
  /\ overrideTimer = [isEnabled |-> TRUE, isActive |-> FALSE]
  /\ leds = [wish |-> 0, brightness |-> 0]
  /\ sun \in Levels
  /\ ledsOnline = FALSE
  /\ moved = TRUE

\* isTerrariumLedsOverride.set(b): the observers run if it changes.
SetOverride(b, t) ==
  /\ override' = b
  /\ IF b = override THEN overrideTimer' = t /\ UNCHANGED <<leds, moved>>
     ELSE IF b THEN /\ overrideTimer' \in TimerStarted(t)
                    /\ leds' = Darkened(leds)
                    /\ UNCHANGED moved
     ELSE /\ overrideTimer' = [t EXCEPT !.isActive = FALSE]
          /\ leds' = Automated(Wished(leds, 0, FALSE), FALSE)
          /\ moved' = FALSE

\* The scene terrariumLedsOverride.
OverrideScene ==
  /\ \E b \in BOOLEAN : SetOverride(b, overrideTimer)
  /\ UNCHANGED <<media, sun, ledsOnline>>

OverrideRunout ==
  /\ overrideTimer.isActive
  /\ SetOverride(FALSE, [overrideTimer EXCEPT !.isActive = FALSE])
  /\ UNCHANGED <<media, sun, ledsOnline>>

\* The web cancels, resets or flips the timer.
TouchOverrideTimer ==
  /\ overrideTimer' \in [isEnabled : BOOLEAN, isActive : BOOLEAN]
  /\ UNCHANGED <<media, override, leds, sun, ledsOnline, moved>>

\* A couch button or the web sets the media, or one of them is set, or heard of:
\* their group overrides when it changes.
SetMedia ==
  /\ \E b \in BOOLEAN : media' \in {[media EXCEPT !.avr = b], [media EXCEPT !.projector = b],
                                    [avr |-> b, projector |-> b]}
  /\ IF On(media') # On(media)
       THEN SetOverride(On(media'), overrideTimer)
       ELSE UNCHANGED <<override, overrideTimer, leds, moved>>
  /\ UNCHANGED <<sun, ledsOnline>>

\* The web, a group or what was persisted sets the wrapper.
Wish(v) ==
  /\ leds' = Wished(leds, v, override)
  /\ UNCHANGED <<media, override, overrideTimer, sun, ledsOnline, moved>>

\* flip
FlipWish == Wish(IF leds.wish = 0 THEN 1 ELSE 0)

LedsComeOnline ==
  /\ ~ledsOnline
  /\ ledsOnline' = TRUE
  /\ leds' = IF override THEN leds ELSE Lit(leds, sun, override)
  /\ moved' = FALSE
  /\ UNCHANGED <<media, override, overrideTimer, sun>>

LedsGoOffline ==
  /\ ledsOnline
  /\ ledsOnline' = FALSE
  /\ UNCHANGED <<media, override, overrideTimer, leds, sun, moved>>

SunGoesOn ==
  /\ sun' \in Levels \ {sun}
  /\ moved' = TRUE
  /\ UNCHANGED <<media, override, overrideTimer, leds, ledsOnline>>

\* The tasks of the schedule: a wish that is not overridden is taken back, then the
\* automation runs. A task that throws skips those after it.
TerrariumTasks ==
  LET reset == IF override THEN leds ELSE Wished(leds, 0, override)
  IN /\ \/ leds' = leds /\ UNCHANGED moved
        \/ leds' = reset /\ UNCHANGED moved
        \/ leds' = Automated(reset, override) /\ moved' = FALSE
     /\ UNCHANGED <<media, override, overrideTimer, sun, ledsOnline>>

TerrariumStep ==
  \/ OverrideScene \/ OverrideRunout \/ TouchOverrideTimer
  \/ SetMedia
  \/ (\E v \in Levels : Wish(v)) \/ FlipWish
  \/ LedsComeOnline \/ LedsGoOffline \/ SunGoesOn

=============================================================================
