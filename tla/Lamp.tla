--------------------------------- MODULE Lamp ---------------------------------
(***************************************************************************)
(* What the lamp is asked to show: light.c without its fades, led_range.c, *)
(* the part of ha.c that applies a command, and what settings.c keeps of   *)
(* it across a restart.  Pure operators on a light and a range record.     *)
(***************************************************************************)
EXTENDS Integers

CONSTANTS
    MiredsMin, MiredsMax, DefaultMireds,
    DefaultBrightness,
    White,         \* the colour of light_init
    LedCount       \* APP_LED_COUNT

ASSUME LampAssumption ==
    /\ MiredsMin \in Nat /\ MiredsMax \in Nat /\ LedCount \in Nat \ {0}
    /\ DefaultMireds \in MiredsMin..MiredsMax
    /\ DefaultBrightness \in Nat

-----------------------------------------------------------------------------
(* light.c *)

Changed(l) == [l EXCEPT !.generation = @ + 1]

LightInit == [on |-> FALSE, brightness |-> DefaultBrightness, color |-> White,
              mireds |-> DefaultMireds, mode |-> "color_temp", effect |-> "Solid",
              generation |-> 1]

SetPower(l, on) ==
    IF l.on = on THEN l ELSE Changed([l EXCEPT !.on = on])

SetBrightness(l, brightness) ==
    IF l.brightness = brightness THEN l
    ELSE Changed([l EXCEPT !.brightness = brightness])

SetColor(l, color) ==
    IF l.mode = "rgb" /\ l.color = color THEN l
    ELSE Changed([l EXCEPT !.color = color, !.mode = "rgb"])

ClampTo(low, high, x) == IF x < low THEN low ELSE IF x > high THEN high ELSE x

SetMireds(l, mireds) ==
    LET m == ClampTo(MiredsMin, MiredsMax, mireds)
    IN  IF l.mode = "color_temp" /\ l.mireds = m THEN l
        ELSE Changed([l EXCEPT !.mireds = m, !.mode = "color_temp"])

SetEffect(l, effect) ==
    IF l.effect = effect THEN l ELSE Changed([l EXCEPT !.effect = effect])

-----------------------------------------------------------------------------
(* ha.c: a command is a record of the fields it has, of which none is       *)
(* required; what a controller is told is what was asked for.               *)

Asks(command, field) == field \in DOMAIN command

\* ha_apply_command: appearance before power.
ApplyCommand(command, l) ==
    LET l1 == IF Asks(command, "brightness") THEN SetBrightness(l, command.brightness) ELSE l
        l2 == IF Asks(command, "color") THEN SetColor(l1, command.color) ELSE l1
        l3 == IF Asks(command, "mireds") THEN SetMireds(l2, command.mireds) ELSE l2
        l4 == IF Asks(command, "effect") THEN SetEffect(l3, command.effect) ELSE l3
    IN  IF Asks(command, "power") THEN SetPower(l4, command.power) ELSE l4

\* ha_build_state: one attribute, the one of the colour mode.
StateDocument(l) ==
    [on |-> l.on, brightness |-> l.brightness, mode |-> l.mode, effect |-> l.effect,
     shade |-> IF l.mode = "color_temp" THEN [color_temp |-> l.mireds]
              ELSE [color |-> l.color]]

-----------------------------------------------------------------------------
(* led_range.c: begin is counted from zero, end is past the last. *)

RangeInit == [begin |-> 0, end |-> LedCount, generation |-> 1]

RangeMoved(r, begin, end) ==
    IF r.begin = begin /\ r.end = end THEN r
    ELSE [begin |-> begin, end |-> end, generation |-> r.generation + 1]

RangeSet(r, first, last) ==
    IF first < 1 \/ first > last \/ last > LedCount THEN r
    ELSE RangeMoved(r, first - 1, last)

\* An endpoint moved past the other takes it along.
RangeSetFirst(r, first) ==
    LET endpoint == ClampTo(1, LedCount, first)
        begin == endpoint - 1
    IN  RangeMoved(r, begin, IF begin >= r.end THEN endpoint ELSE r.end)

RangeSetLast(r, last) ==
    LET endpoint == ClampTo(1, LedCount, last)
    IN  RangeMoved(r, IF endpoint <= r.begin THEN endpoint - 1 ELSE r.begin, endpoint)

RangeFirst(r) == r.begin + 1
RangeLast(r) == r.end

RangeRestore(first, last) ==
    IF first >= 1 /\ first <= last /\ last <= LedCount
    THEN [RangeInit EXCEPT !.begin = first - 1, !.end = last]
    ELSE RangeInit

-----------------------------------------------------------------------------
(* settings.c and light_restore: everything is written, and a restart takes *)
(* the brightness, the colour and the range from it, off and in white.      *)

Stored(l, r) == [on |-> l.on, brightness |-> l.brightness, color |-> l.color,
                 mireds |-> l.mireds, mode |-> l.mode, effect |-> l.effect,
                 first |-> RangeFirst(r), last |-> RangeLast(r)]

RestoredLight(s) == [LightInit EXCEPT !.brightness = s.brightness, !.color = s.color]
RestoredRange(s) == RangeRestore(s.first, s.last)
=============================================================================
