------------------------------ MODULE PwmSlice ------------------------------
(***************************************************************************)
(* pwm.c: outputs on the two channels of one PWM slice, which has one      *)
(* period for both.  A GPIO and the one sixteen above it are on the same   *)
(* channel of the same slice.  A frequency is its period in counts; the    *)
(* arithmetic from one to the other (pwm_timing_for_frequency) is left out.*)
(***************************************************************************)
EXTENDS Integers, FiniteSetsExt

CONSTANTS
    Outputs,       \* the GPIOs of one slice that have an output
    Periods,       \* counts of a period, one for each frequency
    DutyMax        \* PWM_DUTY_MAX

ASSUME PwmAssumption ==
    /\ Periods \subseteq Nat \ {0} /\ Periods # {} /\ DutyMax \in Nat \ {0}
    /\ Outputs \subseteq Nat /\ Outputs # {}
    /\ \A a, b \in Outputs : (a \div 2) % 8 = (b \div 2) % 8

VARIABLES
    slice,         \* the slice's registers and the functions of its pins
    out,           \* pwm_out_t of each output
    pwmCall        \* the last call on an output, and the signals before it

pwmVars == <<slice, out, pwmCall>>
-----------------------------------------------------------------------------
Duties == {0, DutyMax \div 2, DutyMax}

\* pwm_gpio_to_channel
Channels == 0..1
Channel(o) == o % 2

\* gpio ^ 1
Neighbour(o) == IF o % 2 = 0 THEN o + 1 ELSE o - 1

\* pwm_timing_level_for_duty
Level(period, duty) == (duty * period + DutyMax \div 2) \div DutyMax

\* What a pin shows: nothing unless it is the slice's and that runs.
Signal(o) ==
    IF ~slice.enabled \/ ~slice.pin[o] THEN [shown |-> FALSE]
    ELSE [shown |-> TRUE, period |-> slice.period, level |-> slice.level[Channel(o)],
          inverted |-> slice.inverted[Channel(o)]]

Called(op, o) == pwmCall' = [op |-> op, of |-> o, before |-> [p \in Outputs |-> Signal(p)]]

\* slice_conflicts
Conflicts(period) == slice.enabled /\ slice.period # period

PwmInit(o, period, duty, invert, start) ==
    /\ Called("init", o) /\ ~out[o].initialised
    /\ IF Conflicts(period) THEN UNCHANGED <<slice, out>>
       ELSE /\ slice' = [slice EXCEPT !.period = period, !.inverted[Channel(o)] = invert,
                                      !.level[Channel(o)] = Level(period, duty),
                                      !.pin[o] = TRUE, !.enabled = @ \/ start]
            /\ out' = [out EXCEPT ![o] = [initialised |-> TRUE, period |-> period,
                                          duty |-> duty, enabled |-> start]]

\* The counter is stopped for all.
PwmDeinitStops(o) ==
    /\ Called("deinit", o) /\ out[o].initialised
    /\ slice' = [slice EXCEPT !.level[Channel(o)] = 0, !.pin[o] = FALSE, !.enabled = FALSE]
    /\ out' = [out EXCEPT ![o].initialised = FALSE, ![o].enabled = FALSE]

\* The counter is stopped unless the neighbouring GPIO is a PWM pin; the others
\* of the slice are not looked at.
PwmDeinit(o) ==
    /\ Called("deinit", o) /\ out[o].initialised
    /\ slice' = [slice EXCEPT !.level[Channel(o)] = 0, !.pin[o] = FALSE,
                              !.enabled = @ /\ Neighbour(o) \in Outputs
                                            /\ slice.pin[Neighbour(o)]]
    /\ out' = [out EXCEPT ![o].initialised = FALSE, ![o].enabled = FALSE]

PwmSetDuty(o, duty) ==
    /\ Called("duty", o) /\ out[o].initialised
    /\ slice' = [slice EXCEPT !.level[Channel(o)] = Level(out[o].period, duty)]
    /\ out' = [out EXCEPT ![o].duty = duty]

\* The level of a pulse, clamped to the period, and the duty that goes with it.
PwmSetPulse(o, counts) ==
    /\ Called("pulse", o) /\ out[o].initialised
    /\ LET level == IF counts > out[o].period THEN out[o].period ELSE counts
       IN  /\ slice' = [slice EXCEPT !.level[Channel(o)] = level]
           /\ out' = [out EXCEPT ![o].duty =
                        (level * DutyMax + out[o].period \div 2) \div out[o].period]

PwmSetFrequency(o, period) ==
    /\ Called("frequency", o) /\ out[o].initialised
    /\ slice' = [slice EXCEPT !.period = period,
                              !.level[Channel(o)] = Level(period, out[o].duty)]
    /\ out' = [out EXCEPT ![o].period = period]

PwmEnable(o, enabled) ==
    /\ Called("enable", o) /\ out[o].initialised
    /\ slice' = [slice EXCEPT !.enabled = enabled]
    /\ out' = [out EXCEPT ![o].enabled = enabled]

-----------------------------------------------------------------------------
PwmInitially ==
    /\ slice = [period |-> Min(Periods), enabled |-> FALSE, level |-> [c \in Channels |-> 0],
                inverted |-> [c \in Channels |-> FALSE], pin |-> [o \in Outputs |-> FALSE]]
    /\ out = [o \in Outputs |-> [initialised |-> FALSE, period |-> Min(Periods), duty |-> 0,
                                 enabled |-> FALSE]]
    /\ pwmCall = [op |-> "none", of |-> Min(Outputs),
                  before |-> [o \in Outputs |-> [shown |-> FALSE]]]

PwmNext ==
    \E o \in Outputs :
        \/ \E period \in Periods, duty \in Duties, invert, start \in BOOLEAN :
             PwmInit(o, period, duty, invert, start)
        \/ PwmDeinit(o)
        \/ \E duty \in Duties : PwmSetDuty(o, duty)
        \/ \E period \in Periods : \E counts \in 0..period + 1 : PwmSetPulse(o, counts)
        \/ \E period \in Periods : PwmSetFrequency(o, period)
        \/ \E enabled \in BOOLEAN : PwmEnable(o, enabled)

PwmSpec == PwmInitially /\ [][PwmNext]_pwmVars
-----------------------------------------------------------------------------
(* Properties *)

\* What a pin showed before the last call it shows after it: period, level,
\* polarity, running or not.
Keeps(p) == pwmCall.before[p].shown => Signal(p) = pwmCall.before[p]

Opposite(o) == {p \in Outputs : Channel(p) # Channel(o)}

\* Initialising an output or moving its duty leaves every pin on the other
\* channel of its slice as it was, and stopping it leaves the neighbouring GPIO
\* as it was (slice_conflicts, apply_polarity, pwm_out_deinit).  Only a new
\* frequency, enable, and a start of the counter may reach them.
OthersKeepTheirSignal ==
    LET o == pwmCall.of
    IN  /\ pwmCall.op \in {"init", "duty", "pulse"} => \A p \in Opposite(o) : Keeps(p)
        /\ pwmCall.op = "deinit" /\ Neighbour(o) \in Outputs => Keeps(Neighbour(o))

\* Stopping an output leaves the slice alone while a pin on its other channel
\* runs (pwm_out_deinit, as pwm.h has it).  False of two GPIOs that are not next
\* to each other, as MCPwmSliceDeinit.cfg shows.
DeinitSparesTheSlice ==
    pwmCall.op = "deinit" => \A p \in Opposite(pwmCall.of) : Keeps(p)
=============================================================================
