-------------------------------- MODULE Power -------------------------------
(***************************************************************************)
(* What keeps the board running.  First runtime-hw/pico/watchdog.c and     *)
(* power.c, both polled by hw_poll, as early or late as it pleases the     *)
(* application: time passes in ticks, and the handles keep the time since  *)
(* their last poll that did something.  The counter of the watchdog resets *)
(* the board at 0.                                                         *)
(*                                                                         *)
(* Then the converter that adc.c and the battery gauge of power.c share.   *)
(* A single reading selects its channel and returns one result; the gauge  *)
(* lets the converter run freely into its FIFO and takes the mean.  The    *)
(* gauge turns the FIFO on and nobody turns it off: later single readings  *)
(* leave a copy of their result in it.  One thread calls; the converter    *)
(* works beside it.                                                        *)
(***************************************************************************)
EXTENDS Integers, Sequences

CONSTANTS
  MaxTimeout,  \* hw_watchdog_maxtimeout
  UpdateEvery  \* HW_POWER_UPDATE_INTERVAL_MS

Timeout == MaxTimeout \div 2
ASSUME WatchdogAssumption ==
  /\ {MaxTimeout, UpdateEvery} \subseteq Nat \ {0}
  /\ Timeout > 0

VARIABLES
  dog,     \* hw_watchdog_t
  counter, \* the hardware: ticks until the reset, Off when disabled
  load,    \* the hardware: what watchdog_update loads
  power,   \* hw_power_t
  vbus,    \* the pin that tells power by USB
  quiet,   \* history: ticks since the last poll, or since the watchdog was
           \* enabled after it
  wanted,  \* history: a reset was asked for and not taken back
  told     \* history: what the callback of power was told last

dogVars == <<dog, counter, load, power, vbus, quiet, wanted, told>>

Off == MaxTimeout + 1
Never == MaxTimeout + UpdateEvery
Delays == {1, MaxTimeout + 1}
NoDog == [valid |-> FALSE, disable |-> FALSE, age |-> Never]
NoPower == [valid |-> FALSE, source |-> "UNKNOWN", age |-> Never]

DogInit ==
  /\ dog = NoDog /\ counter = Off /\ load = 0
  /\ power = NoPower /\ vbus = TRUE
  /\ quiet = 0 /\ wanted = FALSE /\ told = "UNKNOWN"

Up == counter # 0
LeavePower == UNCHANGED <<power, vbus, told>>

-----------------------------------------------------------------------------
DogOpen ==
  /\ Up
  /\ dog' = [valid |-> TRUE, disable |-> FALSE, age |-> Never]
  /\ counter' = IF dog.valid THEN Off ELSE counter
  /\ wanted' = (wanted /\ ~dog.valid)
  /\ UNCHANGED <<load, quiet>> /\ LeavePower

DogFinalize ==
  /\ Up /\ dog.valid
  /\ dog' = NoDog /\ counter' = Off /\ wanted' = FALSE
  /\ UNCHANGED <<load, quiet>> /\ LeavePower

DogEnable(on) ==
  /\ Up /\ dog.valid
  /\ \/ /\ on /\ load' = 2 * Timeout /\ counter' = 2 * Timeout
        /\ dog' = [dog EXCEPT !.disable = FALSE, !.age = Never] /\ quiet' = 0
     \/ /\ ~on /\ counter' = Off /\ dog' = [dog EXCEPT !.disable = TRUE]
        /\ UNCHANGED <<load, quiet>>
  /\ wanted' = FALSE
  /\ LeavePower

(* hw_watchdog_reset, with the notice to the callback of power.            *)
DogReset(delay) ==
  /\ Up /\ dog.valid
  /\ LET d == IF delay > MaxTimeout THEN MaxTimeout ELSE delay
     IN load' = d /\ counter' = d
  /\ dog' = [dog EXCEPT !.disable = TRUE]
  /\ wanted' = TRUE
  /\ told' = IF power.valid THEN "RESET" ELSE told
  /\ UNCHANGED <<power, vbus, quiet>>

PowerOpen ==
  /\ Up
  /\ power' = [NoPower EXCEPT !.valid = TRUE]
  /\ told' = "UNKNOWN"
  /\ UNCHANGED <<dog, counter, load, vbus, quiet, wanted>>

PowerFinalize ==
  /\ Up /\ power.valid
  /\ power' = NoPower
  /\ UNCHANGED <<dog, counter, load, vbus, quiet, wanted, told>>

-----------------------------------------------------------------------------
(* _hw_power_source.                                                       *)
Source == IF vbus THEN "USB" ELSE "BATTERY"

(* Mutation: a poll that comes too early to feed restarts the wait, too.   *)
PollDogStamps ==
  IF dog.valid /\ ~dog.disable
  THEN /\ dog' = [dog EXCEPT !.age = 0]
       /\ counter' = IF counter # Off /\ dog.age >= Timeout THEN load ELSE counter
  ELSE UNCHANGED <<dog, counter>>

(* _hw_watchdog_poll.                                                      *)
PollDog ==
  IF dog.valid /\ ~dog.disable /\ dog.age >= Timeout
  THEN /\ dog' = [dog EXCEPT !.age = 0]
       /\ counter' = IF counter = Off THEN Off ELSE load
  ELSE UNCHANGED <<dog, counter>>

(* _hw_power_poll: the callback hears of a change of the source, or of the *)
(* charge of the battery.                                                  *)
PollPower ==
  IF power.valid /\ power.age >= UpdateEvery
  THEN /\ power' = [power EXCEPT !.age = 0, !.source = Source]
       /\ \E charged \in BOOLEAN :
            told' = IF power.source # Source \/ charged THEN Source ELSE told
  ELSE UNCHANGED <<power, told>>

HwPoll ==
  /\ Up /\ quiet' = 0
  /\ PollDog /\ PollPower
  /\ UNCHANGED <<load, vbus, wanted>>

Older(age) == IF age < Never THEN age + 1 ELSE Never

TimePasses ==
  /\ Up /\ quiet' = Older(quiet)
  /\ counter' = IF counter = Off THEN Off ELSE counter - 1
  /\ dog' = [dog EXCEPT !.age = Older(@)] /\ power' = [power EXCEPT !.age = Older(@)]
  /\ UNCHANGED <<load, vbus, wanted, told>>

VbusChanges ==
  /\ Up /\ vbus' = ~vbus
  /\ UNCHANGED <<dog, counter, load, power, quiet, wanted, told>>

(* The counter has run out: the board starts again.                        *)
Reboot ==
  /\ ~Up
  /\ dog' = NoDog /\ counter' = Off /\ load' = 0 /\ power' = NoPower
  /\ quiet' = 0 /\ wanted' = FALSE /\ told' = "UNKNOWN"
  /\ UNCHANGED vbus

DogStep ==
  \/ DogOpen \/ DogFinalize \/ \E on \in BOOLEAN : DogEnable(on)
  \/ \E delay \in Delays : DogReset(delay)
  \/ PowerOpen \/ PowerFinalize
  \/ HwPoll \/ TimePasses \/ VbusChanges \/ Reboot

-----------------------------------------------------------------------------
(* The board is reset only if that was asked for, or if hw_poll was not    *)
(* called for longer than half of the longest time-out: a poll feeds the   *)
(* watchdog only when it was last fed so long ago, and the next one must   *)
(* come before the rest has run out.  watchdog.h tells the application     *)
(* that the whole time-out is allowed.                                     *)
NoStrayReset == ~Up => wanted \/ quiet > Timeout

AskedNoMore == <>[][\A delay \in Delays : ~DogReset(delay)]_dogVars

(* A reset that was asked for comes, unless it is taken back or asked for  *)
(* again and again: polling cannot put it off.                             *)
ResetComes == AskedNoMore => (wanted ~> ~wanted)

(* The callback of power knows the source the handle recorded.             *)
SourceTold ==
  power.valid => told \in {power.source, "RESET"}

-----------------------------------------------------------------------------
CONSTANTS
  Depth,             \* of the FIFO
  SampleCount,       \* HW_POWER_SAMPLE_COUNT
  Volts, Stray,      \* what the supply pin reads, and every other input
  MinVolt, MaxVolt   \* HW_POWER_MIN_VOLTAGE and HW_POWER_MAX_VOLTAGE
ASSUME AdcAssumption ==
  /\ {Depth, SampleCount} \subseteq Nat \ {0} /\ Volts \subseteq Nat /\ Stray \in Nat
  /\ MinVolt \in Nat /\ MaxVolt \in Nat /\ MinVolt < MaxVolt

VARIABLES
  adc,    \* the converter: channel, whether the FIFO is on and it runs freely
  queue,  \* the FIFO
  analog, \* inputs that are connected: pins set to analog, the sensor if on
  volt,   \* what the supply pin reads
  gauge   \* the reading of the battery under way, and the outcome of the last;
          \* mixed: the FIFO held more than the reading ignores

adcVars == <<adc, queue, analog, volt, gauge>>

Supply == "supply"
Channels == {Supply, "temperature"}
Ignored == 2
NoGauge == [at |-> "idle", ignore |-> 0, sum |-> 0, taken |-> 0,
            percent |-> 0, mixed |-> FALSE]

AdcInit ==
  /\ adc = [channel |-> "temperature", fifo |-> FALSE, runs |-> FALSE]
  /\ queue = <<>> /\ analog = {} /\ volt \in Volts /\ gauge = NoGauge

Waiting == gauge.at \in {"idle", "done"}

(* The converter (external): a result goes to the FIFO if there is room.   *)
Result(channel) == IF channel = Supply /\ channel \in analog THEN volt ELSE Stray
Queued(value) == IF adc.fifo /\ Len(queue) < Depth THEN Append(queue, value) ELSE queue

Converts ==
  /\ adc.runs /\ Len(queue) < Depth
  /\ queue' = Queued(Result(adc.channel))
  /\ UNCHANGED <<adc, analog, volt, gauge>>

(* The voltage changes, and the outcome of the last reading is past.       *)
VoltChanges(v) ==
  Waiting /\ v # volt /\ volt' = v /\ gauge' = NoGauge /\ UNCHANGED <<adc, queue, analog>>

-----------------------------------------------------------------------------
(* hw_adc_init_pin and hw_adc_init_temperature.                            *)
AdcOpen(channel) ==
  /\ Waiting /\ analog' = analog \cup {channel}
  /\ UNCHANGED <<adc, queue, volt, gauge>>

(* hw_adc_finalize, whoever else uses the pin or the sensor.               *)
AdcFinalize(channel) ==
  /\ Waiting /\ analog' = analog \ {channel}
  /\ UNCHANGED <<adc, queue, volt, gauge>>

AdcRead(channel) ==
  /\ Waiting /\ channel \in analog
  /\ adc' = [adc EXCEPT !.runs = FALSE, !.channel = channel]
  /\ queue' = Queued(Result(channel))
  /\ UNCHANGED <<analog, volt, gauge>>

-----------------------------------------------------------------------------

(* _hw_power_voltage: the pin is set to analog each time.                  *)
GaugeBegin ==
  /\ Waiting
  /\ analog' = analog \cup {Supply}
  /\ adc' = [channel |-> Supply, fifo |-> TRUE, runs |-> TRUE]
  /\ gauge' = [NoGauge EXCEPT !.at = "ignore", !.ignore = Ignored, !.mixed = Len(queue) > Ignored]
  /\ UNCHANGED <<queue, volt>>

(* No pin for the supply, or one that is no input of the converter: 0.     *)
GaugeNothing ==
  /\ Waiting /\ gauge' = NoGauge
  /\ UNCHANGED <<adc, queue, analog, volt>>

(* The first values are ignored, those that are there already.             *)
GaugeIgnore ==
  /\ gauge.at = "ignore"
  /\ \/ /\ queue # <<>> /\ gauge.ignore > 0
        /\ queue' = Tail(queue) /\ gauge' = [gauge EXCEPT !.ignore = @ - 1]
     \/ /\ queue = <<>> \/ gauge.ignore = 0
        /\ gauge' = [gauge EXCEPT !.at = "sample"] /\ UNCHANGED queue
  /\ UNCHANGED <<adc, analog, volt>>

GaugeSample ==
  /\ gauge.at = "sample" /\ gauge.taken < SampleCount /\ queue # <<>>
  /\ gauge' = [gauge EXCEPT !.sum = @ + Head(queue), !.taken = @ + 1]
  /\ queue' = Tail(queue)
  /\ UNCHANGED <<adc, analog, volt>>

Within(v) == IF v < MinVolt THEN MinVolt ELSE IF v > MaxVolt THEN MaxVolt ELSE v

(* hw_power_battery_percent: 0 when there is no voltage, and when it is    *)
(* the least.                                                              *)
BatteryPercent(v) ==
  IF v = 0 THEN 0 ELSE ((Within(v) - MinVolt) * 100) \div (MaxVolt - MinVolt)

(* The converter stops and the FIFO is drained.                            *)
GaugeEnd ==
  /\ gauge.at = "sample" /\ gauge.taken = SampleCount
  /\ adc' = [adc EXCEPT !.runs = FALSE] /\ queue' = <<>>
  /\ gauge' = [gauge EXCEPT !.at = "done", !.percent = BatteryPercent(gauge.sum \div SampleCount)]
  /\ UNCHANGED <<analog, volt>>

GaugeGoesOn == GaugeIgnore \/ GaugeSample \/ GaugeEnd

AdcStep ==
  \/ \E v \in Volts : VoltChanges(v)
  \/ \E channel \in Channels : AdcOpen(channel) \/ AdcFinalize(channel) \/ AdcRead(channel)
  \/ GaugeBegin \/ GaugeNothing \/ GaugeGoesOn \/ Converts

-----------------------------------------------------------------------------
(* The percentage is that of the supply, whatever channels were read or    *)
(* closed in between, as long as no more single readings were left in the  *)
(* FIFO than the gauge ignores.  From the next one on it is a mean that    *)
(* other channels are mixed into.                                          *)
BatteryMeasured ==
  gauge.at = "done" /\ ~gauge.mixed => gauge.percent = BatteryPercent(volt)

(* The gauge, which blocks on the FIFO, gets its samples.                  *)
GaugeEnds == gauge.at \in {"ignore", "sample"} ~> Waiting
=============================================================================
