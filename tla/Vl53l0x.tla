------------------------------- MODULE Vl53l0x -------------------------------
(***************************************************************************)
(* vl53l0x.c on i2c_device.c: calls that are sequences of register         *)
(* transfers to a sensor that measures meanwhile.  Any transfer may fail,  *)
(* with or without its effect, and any wait may time out.  Times are in    *)
(* periods of the VCSEL clock, exactly as long as the register that keeps  *)
(* them is (vl53l0x_encode_timeout is in Codecs).                          *)
(***************************************************************************)
EXTENDS Integers, Sequences

CONSTANTS
    Addresses,     \* the 7-bit addresses in use, the first is the power-on one
    Budgets,       \* timing budgets a caller may ask for
    MinBudget,     \* VL53L0X_MIN_TIMING_BUDGET_US
    Overhead,      \* of every phase together
    PreMclks,      \* the pre-range phase, in macro clocks
    ShortPeriods, LongPeriods,   \* VCSEL periods: pre-range and final range
    MaxTofFaults   \* transfers that fail, at most

ASSUME TofAssumption ==
    /\ Addresses \subseteq Nat \ {0} /\ Addresses # {} /\ Budgets \subseteq Nat
    /\ MinBudget \in Nat /\ Overhead \in Nat /\ PreMclks \in Nat
    /\ MaxTofFaults \in Nat
    /\ {ShortPeriods, LongPeriods} \subseteq [pre : Nat \ {0}, final : Nat \ {0}]

VARIABLES
    sensor,        \* vl53l0x_t
    chip,          \* the sensor's registers and measurements
    tofCall,       \* the call under way and the steps it has left
    tofLast        \* the last call that returned

tofVars == <<sensor, chip, tofCall, tofLast>>

PowerOn == CHOOSE a \in Addresses : \A b \in Addresses : a <= b
NoTofCall == [op |-> "idle", arg |-> 0, steps |-> <<>>, fresh |-> FALSE, mine |-> FALSE,
              result |-> "ok"]
-----------------------------------------------------------------------------
(* The timing budget *)

\* vl53l0x_budget_used_us, the final range apart.
UsedBefore(c) == Overhead + PreMclks * c.periods.pre

\* vl53l0x_final_range_timeout_us
Affords(c, budget) == budget >= MinBudget /\ UsedBefore(c) < budget

\* vl53l0x_timeout_us_to_mclks, rounded to the nearest.
FinalMclks(c, budget) ==
    (budget - UsedBefore(c) + c.periods.final \div 2) \div c.periods.final

TakenBy(c) == UsedBefore(c) + c.mclks * c.periods.final

-----------------------------------------------------------------------------
(* What each call sends: one step is a transfer, or several that a failure *)
(* abandons alike.                                                         *)

Measure == <<"raw", "status", "clear">>
ApplyBudget == <<"read_timing", "write_final">>

InitSteps == <<"probe", "prepare", "spads", "tuning", "interrupt", "adopt", "sequence",
               "calibrate", "enable">>

\* The periods are changed, and the budget is left to itself.
PeriodStepsAlone == <<"pre_period", "final_period">>

PeriodSteps == <<"pre_period", "final_period">> \o ApplyBudget

StepsOf(op) ==
    CASE op = "init"       -> InitSteps
      [] op = "address"    -> <<"move", "follow">>
      [] op = "budget"     -> ApplyBudget
      [] op = "periods"    -> PeriodSteps
      [] op = "long_range" -> <<"limit">> \o PeriodSteps \o <<"new_budget">> \o ApplyBudget
      [] op = "single"     -> <<"arm", "start_single", "started", "wait">> \o Measure
      [] op = "start"      -> <<"arm", "start_continuous">>
      [] op = "stop"       -> <<"stop">>
      [] op = "continuous" -> <<"data_ready">> \o Measure

\* set_timing_budget's argument: a new one, or the one that was in force.
BudgetAsked ==
    IF tofCall.op \in {"budget", "renewed"} THEN tofCall.arg ELSE sensor.budget

-----------------------------------------------------------------------------
(* The effect of a transfer on the sensor *)

Ready(c) == [c EXCEPT !.ready = TRUE, !.unread = TRUE]

Effect(step, c) ==
    CASE step = "start_single"     -> [c EXCEPT !.mode = "single", !.started = FALSE]
      [] step = "start_continuous" -> [c EXCEPT !.mode = "continuous"]
      [] step = "stop"             -> [c EXCEPT !.mode = "off"]
      [] step = "clear"            -> [c EXCEPT !.ready = FALSE]
      [] step = "interrupt"        -> [c EXCEPT !.ready = FALSE]
      [] step = "pre_period"       -> [c EXCEPT !.periods.pre = tofCall.arg.pre]
      [] step = "final_period"     -> [c EXCEPT !.periods.final = tofCall.arg.final]
      [] step = "write_final"      -> [c EXCEPT !.mclks = FinalMclks(c, BudgetAsked)]
      [] step = "move"             -> [c EXCEPT !.address = tofCall.arg]
      [] OTHER                     -> c

TofReturn(result) ==
    /\ tofCall' = NoTofCall
    /\ tofLast' = [op |-> tofCall.op, result |-> result, fresh |-> tofCall.fresh]

Reads == {"single", "continuous"}
Heard == sensor.address = chip.address

\* Only what fails without a reason counts.
Cost == IF Heard THEN 1 ELSE 0

\* What a step needs to be got past; a budget is looked at before it is written.
Passes(step) ==
    CASE step \in {"data_ready", "wait"} -> chip.ready
      [] step = "started"     -> chip.mode # "single" \/ chip.started
      [] step = "write_final" -> Affords(chip, BudgetAsked)
      [] OTHER -> TRUE

\* A transfer fails: nobody is at the address, or its end was not acknowledged.
\* A status that cannot be read is the result of a call that still clears the
\* interrupt; any other failure ends the call.
TransferFails ==
    /\ tofCall.steps # <<>>
    /\ LET step == Head(tofCall.steps)
           failed == [chip EXCEPT !.faults = @ + Cost]
       IN  /\ step # "new_budget" /\ chip.faults + Cost <= MaxTofFaults
           /\ chip' \in IF Heard /\ Passes(step) THEN {failed, Effect(step, failed)}
                        ELSE {failed}
           /\ IF step = "status"
                THEN /\ tofCall' = [tofCall EXCEPT !.steps = Tail(@), !.result = "i2c"]
                     /\ UNCHANGED tofLast
              ELSE TofReturn(IF step = "calibrate" THEN "timeout" ELSE "i2c")
    /\ UNCHANGED sensor

\* A wait for the start bit, a measurement or a calibration times out.
WaitTimesOut ==
    /\ tofCall.steps # <<>> /\ Head(tofCall.steps) \in {"started", "wait"}
    /\ TofReturn("timeout")
    /\ UNCHANGED <<sensor, chip>>

\* Nothing is waiting, or the phases do not fit the budget.
Refused ==
    /\ tofCall.steps # <<>> /\ Heard
    /\ \/ Head(tofCall.steps) = "data_ready" /\ ~chip.ready /\ TofReturn("not_ready")
       \/ Head(tofCall.steps) = "write_final" /\ ~Affords(chip, BudgetAsked)
          /\ TofReturn("budget")
    /\ UNCHANGED <<sensor, chip>>

\* vl53l0x_t after a step.
SensorAfter(step) ==
    CASE step = "move"   -> [sensor EXCEPT !.address = tofCall.arg]
      [] step = "adopt"  -> [sensor EXCEPT !.budget = TakenBy(chip)]
      [] step = "enable" -> [sensor EXCEPT !.initialised = TRUE]
      [] step = "write_final"      -> [sensor EXCEPT !.budget = BudgetAsked]
      [] step = "start_continuous" -> [sensor EXCEPT !.continuous = TRUE]
      [] step = "stop"             -> [sensor EXCEPT !.continuous = FALSE]
      [] OTHER -> sensor

\* The raw distance is one transfer and its status the next.
CallAfter(step) ==
    LET c == [tofCall EXCEPT !.steps = Tail(@)]
    IN  CASE step = "raw"    -> [c EXCEPT !.fresh = chip.unread, !.mine = TRUE]
          [] step = "status" -> [c EXCEPT !.result = IF chip.good THEN "ok" ELSE "bad"]
          [] step = "new_budget" -> [c EXCEPT !.op = "renewed", !.arg = 33]
          [] OTHER -> c

Transfer ==
    /\ tofCall.steps # <<>>
    /\ LET step == Head(tofCall.steps)
           done == Len(tofCall.steps) = 1
           read == done /\ tofCall.op \in Reads
       IN  /\ (Heard \/ step = "new_budget") /\ Passes(step)
           /\ sensor' = SensorAfter(step)
           /\ chip' = [Effect(step, chip) EXCEPT
                         !.unread = @ /\ ~(read /\ tofCall.mine /\ tofCall.result # "i2c")]
           /\ IF done THEN TofReturn(tofCall.result)
              ELSE tofCall' = CallAfter(step) /\ UNCHANGED tofLast

-----------------------------------------------------------------------------
(* The sensor by itself *)

SensorStarts ==
    /\ chip.mode = "single" /\ ~chip.started
    /\ chip' = [chip EXCEPT !.started = TRUE]
    /\ UNCHANGED <<sensor, tofCall, tofLast>>

SensorMeasures ==
    /\ chip.mode = "continuous" \/ (chip.mode = "single" /\ chip.started)
    /\ \E good \in BOOLEAN :
         chip' = [Ready(chip) EXCEPT !.good = good, !.started = FALSE,
                                     !.mode = IF @ = "single" THEN "off" ELSE @]
    /\ tofCall' = [tofCall EXCEPT !.mine = FALSE]
    /\ UNCHANGED <<sensor, tofLast>>

TofCall(op, arg) ==
    /\ tofCall.op = "idle"
    /\ op = "init" \/ sensor.initialised
    /\ tofCall' = [NoTofCall EXCEPT !.op = op, !.arg = arg, !.steps = StepsOf(op)]
    /\ sensor' = IF op = "init"
                   THEN [address |-> PowerOn, budget |-> 0, continuous |-> FALSE,
                         initialised |-> FALSE]
                 ELSE sensor
    /\ tofLast' = [op |-> "none", result |-> "none", fresh |-> FALSE]
    /\ UNCHANGED chip

TofInit ==
    /\ sensor = [address |-> PowerOn, budget |-> 0, continuous |-> FALSE, initialised |-> FALSE]
    /\ chip = [address |-> PowerOn, mode |-> "off", started |-> FALSE, ready |-> FALSE,
               unread |-> FALSE, good |-> FALSE, periods |-> ShortPeriods, mclks |-> 1,
               faults |-> 0]
    /\ tofCall = NoTofCall
    /\ tofLast = [op |-> "none", result |-> "none", fresh |-> FALSE]

TofNext ==
    \/ \E op \in {"init", "single", "start", "stop", "continuous"} : TofCall(op, 0)
    \/ \E address \in Addresses : TofCall("address", address)
    \/ \E budget \in Budgets : TofCall("budget", budget)
    \/ \E p \in {ShortPeriods, LongPeriods} : TofCall("periods", p)
    \/ TofCall("long_range", LongPeriods)
    \/ Transfer \/ TransferFails \/ WaitTimesOut \/ Refused
    \/ SensorStarts \/ SensorMeasures

TofSpec == TofInit /\ [][TofNext]_tofVars
-----------------------------------------------------------------------------
(* Properties *)

Gap(a, b) == IF a < b THEN b - a ELSE a - b

\* No measurement is handed out twice, whatever failed or timed out before: the
\* interrupt of one is cleared before it is returned (read_single,
\* read_continuous: "Cleared so the next measurement can be recognised as new").
ReadingIsOnce ==
    tofLast.op \in Reads /\ tofLast.result \in {"ok", "bad"} => tofLast.fresh

\* When a call that sets it succeeds, the sensor takes the budget the handle
\* says, to half a macro clock, whatever the periods became on the way; and a
\* handle that followed its sensor to another address finds it there
\* (set_timing_budget, set_vcsel_periods, apply_profile, set_address).
BudgetIsTaken ==
    tofLast.result = "ok" /\ tofLast.op \in {"budget", "periods", "renewed"} =>
        2 * Gap(TakenBy(chip), sensor.budget) <= chip.periods.final

AddressIsFollowed ==
    tofLast.result = "ok" /\ tofLast.op = "address" => Heard

SensorAgrees == ReadingIsOnce /\ BudgetIsTaken /\ AddressIsFollowed
=============================================================================
