--------------------------------- MODULE Fade ---------------------------------
(***************************************************************************)
(* The two fades of light.c: the brightness and the colour temperature go  *)
(* from where they are to where they were asked to go, by the clock of the *)
(* board, whose counter wraps.  A loop reads the time, callbacks may start *)
(* a fade after it did, and then the fades advance to the time read:       *)
(* main.c reads it after its callbacks, but light.c does not rely on that. *)
(***************************************************************************)
EXTENDS Integers

CONSTANTS
    Wrap,          \* 2^32: the values of the millisecond counter
    FadeTime,      \* LIGHT_FADE_BRIGHTNESS_MS, LIGHT_FADE_MIREDS_MS, in ticks
    MaxLag,        \* bound: the ticks between the loop's sample and its use
    EaseOne,       \* LIGHT_EASE_ONE
    LightLevels,   \* the values asked for; the least is black
    Fades          \* the fades followed, which share nothing but the clock

ASSUME FadeAssumption ==
    /\ FadeTime \in Nat \ {0} /\ EaseOne \in Nat \ {0} /\ MaxLag \in Nat
    /\ Wrap \in Nat /\ FadeTime + MaxLag < Wrap \div 2
    /\ LightLevels \subseteq Nat /\ 0 \in LightLevels
    /\ Fades \subseteq {"brightness", "mireds"} /\ "brightness" \in Fades

VARIABLES
    millis,        \* app_now_ms
    lag,           \* how long ago the loop sampled the time
    lit,           \* is the light on
    coloured,      \* color_mode is LIGHT_COLOR_MODE_RGB
    target,        \* what was asked last of each
    ramps,         \* the light_ramp_t of each fade
    age            \* ghost: ticks since each fade started, up to FadeTime

fadeVars == <<millis, lag, lit, coloured, target, ramps, age>>

Sampled == (millis - lag) % Wrap

-----------------------------------------------------------------------------
\* light_ease: 3t^2 - 2t^3 with one division at the end.
Ease(t) == (3 * t * t * EaseOne - 2 * t * t * t) \div (EaseOne * EaseOne)

\* C's division, which rounds towards zero.
Quotient(a, b) == IF a < 0 THEN -((-a) \div b) ELSE a \div b

\* The value of a fade that has been running for `elapsed` ticks.
ValueAt(r, elapsed) ==
    r.from + Quotient((r.to - r.from) * Ease((elapsed * EaseOne) \div FadeTime), EaseOne)

RampSet(value) ==
    [active |-> FALSE, start |-> 0, from |-> value, to |-> value, current |-> value]

RampStart(r, to) ==
    IF to = r.current THEN RampSet(to)
    ELSE [active |-> TRUE, start |-> millis, from |-> r.current, to |-> to,
          current |-> r.current]

\* Without the signed comparison: a sample older than the start of the fade is
\* almost 2^32 ms after it.
RampTickUnsigned(r) ==
    LET elapsed == (Sampled - r.start) % Wrap
    IN  IF ~r.active THEN r
        ELSE IF elapsed >= FadeTime THEN RampSet(r.to)
        ELSE [r EXCEPT !.current = ValueAt(r, elapsed)]

RampTick(r) ==
    LET elapsed == (Sampled - r.start) % Wrap
        older   == elapsed >= Wrap \div 2
    IN  IF ~r.active \/ older THEN r
        ELSE IF elapsed >= FadeTime THEN RampSet(r.to)
        ELSE [r EXCEPT !.current = ValueAt(r, elapsed)]

-----------------------------------------------------------------------------
\* A fade was given a new target: its age is counted from here.
Restarted(f, r) ==
    /\ ramps' = [ramps EXCEPT ![f] = r]
    /\ age' = [age EXCEPT ![f] = IF r.active THEN 0 ELSE FadeTime]
    /\ UNCHANGED <<millis, lag>>

FadeOn ==
    /\ ~lit /\ lit' = TRUE
    /\ Restarted("brightness", RampStart(RampSet(0), target["brightness"]))
    /\ UNCHANGED <<target, coloured>>

FadeOff ==
    /\ lit /\ lit' = FALSE
    /\ UNCHANGED <<millis, lag, coloured, target, ramps, age>>

\* light_set_color, which has no fade
ColourSet ==
    /\ ~coloured /\ coloured' = TRUE
    /\ UNCHANGED <<millis, lag, lit, target, ramps, age>>

\* light_set_brightness and light_set_mireds, which compare with what was
\* asked last and not with where the fade is; a colour shown instead of the
\* temperature makes any temperature a new one.
FadeTo(f, value) ==
    /\ target[f] # value \/ (f = "mireds" /\ coloured)
    /\ coloured' = (coloured /\ f # "mireds")
    /\ target' = [target EXCEPT ![f] = value]
    /\ Restarted(f, RampStart(ramps[f], value))
    /\ UNCHANGED lit

\* The loop reads the time.
LoopSamples ==
    /\ lag # 0
    /\ lag' = 0
    /\ UNCHANGED <<millis, lit, coloured, target, ramps, age>>

LightTick ==
    /\ ramps' = [f \in Fades |-> RampTick(ramps[f])]
    /\ UNCHANGED <<millis, lag, lit, coloured, target, age>>

MillisecondPasses ==
    /\ lag < MaxLag
    /\ millis' = (millis + 1) % Wrap
    /\ lag' = lag + 1
    /\ age' = [f \in Fades |-> IF age[f] < FadeTime THEN age[f] + 1 ELSE FadeTime]
    /\ UNCHANGED <<lit, coloured, target, ramps>>

FadeInit ==
    /\ millis = 0 /\ lag = 0
    /\ lit = FALSE /\ coloured = FALSE
    /\ target = [f \in Fades |-> 0]
    /\ ramps = [f \in Fades |-> RampSet(target[f])]
    /\ age = [f \in Fades |-> FadeTime]

FadeNext ==
    \/ FadeOn \/ FadeOff \/ ColourSet
    \/ \E f \in Fades, value \in LightLevels : FadeTo(f, value)
    \/ LoopSamples \/ LightTick \/ MillisecondPasses

FadeSpec == FadeInit /\ [][FadeNext]_fadeVars

-----------------------------------------------------------------------------
Between(a, x, b) == (a <= x /\ x <= b) \/ (b <= x /\ x <= a)

\* A fade never overshoots either of its ends, is never ahead of the time
\* that has really passed since it started whatever the counter reads, ends
\* only when its time is over, and once over rests on what was asked last
\* (light.c:122-155).  Tick, sample and command come in any order.
FadesAreSmooth ==
    \A f \in Fades :
        LET r == ramps[f]
            furthest == IF age[f] = FadeTime THEN r.to ELSE ValueAt(r, age[f])
        IN  /\ Between(r.from, r.current, furthest) /\ Between(r.from, furthest, r.to)
            /\ ~r.active => age[f] = FadeTime /\ r.current = r.to
            /\ r.to = target[f]
===============================================================================
