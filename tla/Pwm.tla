--------------------------------- MODULE Pwm --------------------------------
(***************************************************************************)
(* runtime-hw/pico/pwm.c: a unit with its counter, its level and its wrap  *)
(* interrupt, which ramps the duty as examples/runtime/pwm does.  The      *)
(* interrupt runs between any two steps of a call that stops, configures   *)
(* or finalizes the unit.  Counts stand for clocks: Top for 65536,         *)
(* MaxDivider for 256, Percent for 100.  The divider asked for is a number *)
(* of Top-ths; the register holds whole Fractions of one, 16 in the chip.  *)
(* The second part is the LED driver.                                      *)
(***************************************************************************)
EXTENDS Integers

CONSTANTS Top, MaxDivider, Fractions, Percent, Counts
ASSUME PwmAssumption ==
  /\ Top \in Nat \ {0} /\ MaxDivider \in Nat \ {0} /\ Fractions \in Nat \ {0}
  /\ Percent \in Nat \ {0} /\ Counts \subseteq Nat \ {0}

VARIABLES
  unit,   \* the hw_pwm_t: valid, wrap, enabled
  slice,  \* the registers: running, level, top, divider, irq, pending
  step,   \* the step of the call under way: "none" outside
  ramp,   \* the example: duty and rising
  counts  \* history: the period that was asked for

pwmVars == <<unit, slice, step, ramp, counts>>

Least(a, b) == IF a < b THEN a ELSE b

(* hw_pwm_get_config for a period of n counts.                             *)
GetConfig(n) ==
  [wrap    |-> Least(n, Top) - 1,
   divider |-> IF n <= Top THEN Top ELSE Least(n, Top * MaxDivider)]

(* What pwm_config_set_clkdiv makes of the divider: the SDK rounds down or *)
(* to the nearest, as it is built.                                         *)
Dividers(n) ==
  LET exact == GetConfig(n).divider * Fractions
  IN  {exact \div Top, (exact + Top - 1) \div Top}

(* The level of a duty in hw_pwm_start.                                    *)
Level(wrap, duty) ==
  IF duty >= Percent THEN wrap ELSE ((wrap + 1) * duty) \div Percent

PwmInit ==
  /\ unit = [valid |-> FALSE, wrap |-> 0, enabled |-> FALSE]
  /\ slice = [running |-> FALSE, level |-> 0, top |-> Top - 1, divider |-> Fractions,
             irq |-> FALSE, pending |-> FALSE]
  /\ step = "none" /\ counts = 1
  /\ ramp = [duty |-> 0, rising |-> TRUE]

-----------------------------------------------------------------------------
(* pwm_init of the SDK clears the slice and loads the configuration.       *)
Loaded(n, divider) ==
  [slice EXCEPT !.running = FALSE, !.level = 0, !.top = GetConfig(n).wrap, !.divider = divider]

PwmOpen(n) ==
  /\ ~unit.valid /\ step = "none"
  /\ unit' = [valid |-> TRUE, wrap |-> GetConfig(n).wrap, enabled |-> FALSE]
  /\ \E divider \in Dividers(n) : slice' = Loaded(n, divider)
  /\ counts' = n
  /\ UNCHANGED <<step, ramp>>

(* The interrupt sets the same flag and register in its own hw_pwm_start,  *)
(* so that it makes no difference where it comes in this one.              *)
PwmStart(duty) ==
  /\ unit.valid /\ step = "none"
  /\ unit' = [unit EXCEPT !.enabled = TRUE]
  /\ slice' = [slice EXCEPT !.running = TRUE, !.level = Level(unit.wrap, duty)]
  /\ UNCHANGED <<step, ramp, counts>>

(* hw_pwm_stop: the slice, and then the flag.                              *)
PwmStop ==
  /\ unit.valid /\ step = "none" /\ step' = "stopping"
  /\ slice' = [slice EXCEPT !.running = FALSE]
  /\ UNCHANGED <<unit, ramp, counts>>

SetIrqEnabled(on) ==
  /\ unit.valid /\ step = "none"
  /\ slice' = [slice EXCEPT !.irq = on]
  /\ UNCHANGED <<unit, step, ramp, counts>>

(* hw_pwm_set_config: stop the unit if it is enabled, store the wrap, read *)
(* whether it is enabled, load the slice, start it or not.  The unit has   *)
(* just been stopped: it starts again only when the interrupt has started  *)
(* it in between.                                                          *)
SetConfig(n) ==
  /\ unit.valid /\ step = "none" /\ counts' = n
  /\ IF unit.enabled
     THEN step' = "flag" /\ slice' = [slice EXCEPT !.running = FALSE]
     ELSE step' = "wrap" /\ UNCHANGED slice
  /\ UNCHANGED <<unit, ramp>>

ClearFlag ==
  /\ step \in {"stopping", "flag"}
  /\ unit' = [unit EXCEPT !.enabled = FALSE]
  /\ step' = IF step = "flag" THEN "wrap" ELSE "none"
  /\ UNCHANGED <<slice, ramp, counts>>

ConfigWrap ==
  /\ step = "wrap" /\ step' = "read"
  /\ unit' = [unit EXCEPT !.wrap = GetConfig(counts).wrap]
  /\ UNCHANGED <<slice, ramp, counts>>

ConfigRead ==
  /\ step = "read" /\ step' = IF unit.enabled THEN "load and start" ELSE "load"
  /\ UNCHANGED <<unit, slice, ramp, counts>>

ConfigLoad ==
  /\ step \in {"load", "load and start"}
  /\ \E divider \in Dividers(counts) : slice' = Loaded(counts, divider)
  /\ step' = IF step = "load" THEN "halt" ELSE "start"
  /\ UNCHANGED <<unit, ramp, counts>>

ConfigEnd ==
  /\ step \in {"halt", "start"} /\ step' = "none"
  /\ slice' = [slice EXCEPT !.running = (step = "start")]
  /\ UNCHANGED <<unit, ramp, counts>>

(* hw_pwm_finalize: the interrupt, the slice, the handle.                  *)
(* Mutation: finalize leaves the interrupt on.                             *)
FinalizeKeepsIrq ==
  /\ unit.valid /\ step = "none"
  /\ step' = "stop" /\ UNCHANGED <<unit, slice, ramp, counts>>

FinalizeIrq ==
  /\ unit.valid /\ step = "none"
  /\ slice' = [slice EXCEPT !.irq = FALSE]
  /\ step' = "stop" /\ UNCHANGED <<unit, ramp, counts>>

FinalizeStop ==
  /\ step = "stop" /\ step' = "clear"
  /\ slice' = [slice EXCEPT !.running = FALSE]
  /\ unit' = [unit EXCEPT !.enabled = FALSE]
  /\ UNCHANGED <<ramp, counts>>

FinalizeClear ==
  /\ step = "clear" /\ step' = "none"
  /\ unit' = [valid |-> FALSE, wrap |-> 0, enabled |-> FALSE]
  /\ UNCHANGED <<slice, ramp, counts>>

WrapRound ==
  /\ slice.running /\ slice' = [slice EXCEPT !.pending = TRUE]
  /\ UNCHANGED <<unit, step, ramp, counts>>

(* The ramp of the example.                                                *)
Ramped ==
  IF ramp.rising
  THEN IF ramp.duty + 1 >= Percent THEN [duty |-> Percent - 1, rising |-> FALSE]
       ELSE [ramp EXCEPT !.duty = @ + 1]
  ELSE IF ramp.duty <= 1 THEN [duty |-> 1, rising |-> TRUE]
       ELSE [ramp EXCEPT !.duty = @ - 1]

(* The interrupt, and the callback of the example, which starts the unit   *)
(* at the next duty.                                                       *)
WrapCallback ==
  /\ slice.irq /\ slice.pending /\ unit.valid
  /\ ramp' = Ramped
  /\ unit' = [unit EXCEPT !.enabled = TRUE]
  /\ slice' = [slice EXCEPT !.running = TRUE, !.pending = FALSE,
                            !.level = Level(unit.wrap, Ramped.duty)]
  /\ UNCHANGED <<step, counts>>

PwmStep ==
  \/ \E n \in Counts : PwmOpen(n) \/ SetConfig(n)
  \/ ClearFlag \/ ConfigWrap \/ ConfigRead \/ ConfigLoad \/ ConfigEnd
  \/ \E duty \in 0 .. Percent : PwmStart(duty)
  \/ PwmStop \/ SetIrqEnabled(TRUE) \/ SetIrqEnabled(FALSE)
  \/ FinalizeIrq \/ FinalizeStop \/ FinalizeClear \/ WrapRound \/ WrapCallback

-----------------------------------------------------------------------------
(* No duty, ramped or asked for, leaves a level above the top of the slice *)
(* that counts to it, except that an interrupt which comes when            *)
(* hw_pwm_set_config has stored the new wrap and not yet loaded the slice  *)
(* computes its level from the new wrap: loading the slice ends that.      *)
LevelFits ==
  /\ step \notin {"read", "load", "load and start"} => slice.level <= slice.top
  /\ unit.valid /\ step = "none" => slice.top = unit.wrap

(* The slice counts the period that was asked for last, whatever its       *)
(* interrupt did meanwhile: exactly when no divider is needed, and else to *)
(* less than a step of the divider, as long as the divider reaches.        *)
PeriodKept ==
  unit.valid /\ step = "none" /\ counts <= Top * MaxDivider
    => LET off == (slice.top + 1) * slice.divider - counts * Fractions
       IN  IF counts <= Top THEN off = 0 ELSE -Top < off /\ off < Top

(* A unit that was given up stays still: no interrupt restarts it.         *)
GivenUpIsStill == ~unit.valid \/ step = "clear" => ~slice.running

-----------------------------------------------------------------------------
(***************************************************************************)
(* runtime-hw/pico/led.c over runtime-sys/pico/timer.c: an LED that is     *)
(* set, blinks or fades.  A call of the application takes several steps;   *)
(* the timer's callback runs in an interrupt between any two of them.      *)
(* Brightness is 0 .. Full where the code has 0 .. 255.                    *)
(***************************************************************************)

CONSTANT Full
ASSUME FullAssumption == Full \in Nat /\ Full > 1

VARIABLES
  led,    \* the fields of hw_led_t and its context
  level,  \* what the pin shows
  timer,  \* the running timer: "off", "blink" or "fade"
  job,    \* the call that runs and the step it is at
  asked   \* history: what the LED shows once no timer runs

ledVars == <<led, level, timer, job, asked>>

Idle == [do |-> "nothing", at |-> "idle", to |-> 0, repeats |-> FALSE]
InvalidLed == [valid |-> FALSE, pwm |-> FALSE, state |-> FALSE, repeats |-> FALSE,
               brightness |-> 0, direction |-> 0]

LedInit == led = InvalidLed /\ level = 0 /\ timer = "off" /\ job = Idle /\ asked = 0

(* hw_led_init: with a PWM unit, or on and off only.                       *)
LedOpen ==
  /\ job = Idle /\ ~led.valid
  /\ \E pwm \in BOOLEAN :
       led' = [InvalidLed EXCEPT !.valid = TRUE, !.pwm = pwm, !.direction = 1]
  /\ level' = 0 /\ asked' = 0
  /\ UNCHANGED <<timer, job>>

-----------------------------------------------------------------------------
(* hw_led_set_state, hw_led_set_brightness, hw_led_blink, hw_led_fade and  *)
(* hw_led_finalize: cancel what runs, show, start.                         *)
Call(do, to, repeats) ==
  /\ job = Idle /\ led.valid
  /\ job' = [do |-> do, at |-> "cancel", to |-> to, repeats |-> repeats]
  /\ UNCHANGED <<led, level, timer, asked>>

(* A fade without a PWM unit is a blink.                                   *)
Does == IF job.do = "fade" /\ ~led.pwm THEN "blink" ELSE job.do

(* Mutation: only a timer that repeats is cancelled.                       *)
CancelRepeating ==
  /\ job.at = "cancel"
  /\ timer' = IF led.repeats THEN "off" ELSE timer
  /\ job' = [job EXCEPT !.at = "show"]
  /\ UNCHANGED <<led, level, asked>>

Cancel ==
  /\ job.at = "cancel"
  /\ timer' = "off" /\ job' = [job EXCEPT !.at = "show"]
  /\ UNCHANGED <<led, level, asked>>

(* An LED without PWM shows no brightness in between: the call returns     *)
(* false after it cancelled, and the LED keeps what it showed, where led.h *)
(* says that such a brightness is taken for 0 or 255.                      *)
ShowSet ==
  /\ job.do = "set"
  /\ \/ /\ led.pwm \/ job.to \in {0, Full}
        /\ level' = job.to /\ asked' = job.to
        /\ led' = [led EXCEPT !.brightness = job.to]
     \/ /\ ~led.pwm /\ job.to \notin {0, Full}
        /\ asked' = level /\ UNCHANGED <<led, level>>
  /\ job' = Idle

ShowBlink ==
  /\ Does = "blink"
  /\ led' = [led EXCEPT !.repeats = job.repeats, !.state = TRUE, !.brightness = Full]
  /\ level' = Full
  /\ job' = [job EXCEPT !.at = "start"] /\ UNCHANGED asked

ShowFade ==
  /\ Does = "fade"
  /\ led' = [led EXCEPT !.repeats = job.repeats, !.state = TRUE, !.brightness = 0,
                        !.direction = 1]
  /\ level' = 0
  /\ job' = [job EXCEPT !.at = "start"] /\ UNCHANGED asked

ShowFinal ==
  /\ job.do = "finalize"
  /\ level' = 0 /\ asked' = 0
  /\ led' = [led EXCEPT !.brightness = 0, !.valid = FALSE]
  /\ job' = Idle

Show ==
  /\ job.at = "show"
  /\ ShowSet \/ ShowBlink \/ ShowFade \/ ShowFinal
  /\ UNCHANGED timer

(* sys_timer_start: the alarm pool may be full.                            *)
StartTimer ==
  /\ job.at = "start"
  /\ \/ timer' = Does /\ asked' = 0
     \/ asked' = level /\ UNCHANGED timer
  /\ job' = Idle
  /\ UNCHANGED <<led, level>>

-----------------------------------------------------------------------------

(* The interrupt.                                                          *)
BlinkTick ==
  /\ timer = "blink" /\ led.valid
  /\ LET on == ~led.state IN
       /\ led' = [led EXCEPT !.state = on, !.brightness = IF on THEN Full ELSE 0]
       /\ level' = IF on THEN Full ELSE 0
       /\ timer' = IF ~on /\ ~led.repeats THEN "off" ELSE timer
  /\ UNCHANGED <<job, asked>>

FadeOn(next, direction) ==
  /\ led' = [led EXCEPT !.brightness = next, !.direction = direction]
  /\ level' = next /\ UNCHANGED timer

FadeTick ==
  /\ timer = "fade" /\ led.valid
  /\ LET next == led.brightness + led.direction IN
       \/ next >= Full /\ FadeOn(Full, -1)
       \/ next > 0 /\ next < Full /\ FadeOn(next, led.direction)
       \/ next <= 0 /\ led.repeats /\ FadeOn(0, 1)
       \/ next <= 0 /\ ~led.repeats /\ level' = 0 /\ timer' = "off" /\ UNCHANGED led
  /\ UNCHANGED <<job, asked>>

Tick == BlinkTick \/ FadeTick

LedStep ==
  \/ LedOpen
  \/ \E to \in 0 .. Full : Call("set", to, FALSE)
  \/ \E do \in {"blink", "fade"}, repeats \in BOOLEAN : Call(do, 0, repeats)
  \/ Call("finalize", 0, FALSE)
  \/ Cancel \/ Show \/ StartTimer \/ Tick

-----------------------------------------------------------------------------
(* When nothing runs, the LED shows what the last call that succeeded      *)
(* asked for, or what a call that was refused found when it had cancelled: *)
(* no tick of a blink or fade it cancelled comes after it, and one that    *)
(* ends by itself ends dark.                                               *)
LedShowsAsked == job = Idle /\ timer = "off" => level = asked

(* No timer outlives the LED.                                              *)
NoTimerOutlives == ~led.valid => timer = "off" /\ level = 0

(* A fade never jumps.                                                     *)
FadeSmooth ==
  [][timer = "fade" /\ timer' = "fade" => level' - level \in {-1, 0, 1}]_ledVars

(* A blink or fade that does not repeat ends.                              *)
OneShotEnds == timer # "off" /\ ~led.repeats ~> timer = "off" \/ led.repeats

(* A unit whose wrap callback sets a new level between any two steps of a  *)
(* change of its configuration keeps its period and its bounds, and is     *)
(* still when it is given up, with interrupts still pending.               *)
RampHolds ==
  /\ LevelFits
  /\ PeriodKept
  /\ GivenUpIsStill

(* The callback of a cancelled blink or fade does not change what a later  *)
(* call has asked of the LED.                                              *)
LedFollows ==
  /\ LedShowsAsked
  /\ NoTimerOutlives
=============================================================================
