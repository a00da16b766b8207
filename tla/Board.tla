-------------------------------- MODULE Board -------------------------------
(***************************************************************************)
(* Devices that share no state, of the chip (runtime-hw/pico), around it   *)
(* (drivers, runtime-fs) and of the host (runtime-sys threads that print   *)
(* and timers, runtime-pix): each behaviour is about one of them, which    *)
(* the application uses while interrupts, hw_poll, threads or the device   *)
(* run.                                                                    *)
(***************************************************************************)
EXTENDS Pins, Pwm, Power, Infrared, Epaper, Displays, Volume,
        Bus, Console, Timers

CONSTANT Devices  \* which of the devices are used

VARIABLE device

chipVars == <<pinVars, ledVars, pwmVars, dogVars, irVars, adcVars>>
busVars == <<epaperVars, lcdVars, sensorVars, volVars, busIoVars>>
hostVars == <<conVars, pixVars, tickVars>>
vars == <<device, chipVars, busVars, hostVars>>

Init ==
  /\ device \in Devices
  /\ PinsInit /\ LedInit /\ PwmInit /\ DogInit /\ IrInit
  /\ EpaperInit /\ LcdInit /\ SensorInit /\ VolInit /\ PixelsInit
  /\ IF device = "bus" THEN BusInit ELSE BusInit /\ port = [bus |-> "spi", open |-> FALSE, activeLow |-> FALSE, cs |-> FALSE]
  /\ IF device = "console" THEN ConsoleInit
     ELSE ConsoleInit /\ platform = CHOOSE p \in Platforms : TRUE
  /\ IF device = "adc" THEN AdcInit ELSE AdcInit /\ volt = CHOOSE v \in Volts : TRUE
  /\ IF device = "timers" THEN TimersInit
     ELSE TimersInit /\ system = (CHOOSE s \in Systems : TRUE) /\ example = "clock"

ChipStep ==
  \/ device = "pins" /\ PinsStep /\ UNCHANGED <<ledVars, pwmVars, dogVars, irVars, adcVars>>
  \/ device = "led" /\ LedStep /\ UNCHANGED <<pinVars, pwmVars, dogVars, irVars, adcVars>>
  \/ device = "pwm" /\ PwmStep /\ UNCHANGED <<pinVars, ledVars, dogVars, irVars, adcVars>>
  \/ device = "dog" /\ DogStep /\ UNCHANGED <<pinVars, ledVars, pwmVars, irVars, adcVars>>
  \/ device = "infrared" /\ IrStep /\ UNCHANGED <<pinVars, ledVars, pwmVars, dogVars, adcVars>>
  \/ device = "adc" /\ AdcStep /\ UNCHANGED <<pinVars, ledVars, pwmVars, dogVars, irVars>>

BusStep ==
  \/ device = "epaper" /\ EpaperStep /\ UNCHANGED <<lcdVars, sensorVars, volVars, busIoVars>>
  \/ device = "lcd" /\ LcdStep /\ UNCHANGED <<epaperVars, sensorVars, volVars, busIoVars>>
  \/ device = "sensor" /\ SensorStep /\ UNCHANGED <<epaperVars, lcdVars, volVars, busIoVars>>
  \/ device = "volume" /\ VolStep /\ UNCHANGED <<epaperVars, lcdVars, sensorVars, busIoVars>>
  \/ device = "bus" /\ BusIoStep /\ UNCHANGED <<epaperVars, lcdVars, sensorVars, volVars>>

HostStep ==
  \/ device = "console" /\ ConsoleStep /\ UNCHANGED <<pixVars, tickVars>>
  \/ device = "pixels" /\ PixelsStep /\ UNCHANGED <<conVars, tickVars>>
  \/ device = "timers" /\ TimersStep /\ UNCHANGED <<conVars, pixVars>>

Step == \/ ChipStep /\ UNCHANGED <<busVars, hostVars>>
        \/ BusStep /\ UNCHANGED <<chipVars, hostVars>>
        \/ HostStep /\ UNCHANGED <<chipVars, busVars>>

Next == UNCHANGED device /\ Step

Spec == Init /\ [][Next]_vars

(* Timers, clocks and the converter go on, the application polls, and      *)
(* every thread runs.                                                      *)
OnLed(A) ==
  device = "led" /\ A /\ UNCHANGED <<device, busVars, hostVars, pinVars, pwmVars, dogVars, irVars, adcVars>>
OnDog(A) ==
  device = "dog" /\ A /\ UNCHANGED <<device, busVars, hostVars, pinVars, ledVars, pwmVars, irVars, adcVars>>
OnConsole(A) == device = "console" /\ A /\ UNCHANGED <<device, chipVars, busVars, pixVars, tickVars>>
OnAdc(A) ==
  device = "adc" /\ A /\ UNCHANGED <<device, busVars, hostVars, pinVars, ledVars, pwmVars, dogVars, irVars>>
(* Memory for an event is found at times, if asked for again and again.    *)
OnTimers(A) ==
  device = "timers" /\ OneAtATime /\ A /\ UNCHANGED <<device, chipVars, busVars, conVars, pixVars>>
Made(c) == RunloopMake(c) /\ made' > made
Fairness ==
  /\ SF_vars(OnLed(Tick))
  /\ WF_vars(OnDog(TimePasses)) /\ WF_vars(OnDog(HwPoll)) /\ WF_vars(OnDog(Reboot))
  /\ \A p \in Actors : WF_vars(OnConsole(ActorStep(p)))
  /\ WF_vars(OnAdc(GaugeGoesOn)) /\ WF_vars(OnAdc(Converts))
  /\ WF_vars(OnTimers(\E t \in Tasks : Expires(t) \/ Enter(t, 1)))
  /\ WF_vars(OnTimers(CallbackStep(1))) /\ SF_vars(OnTimers(Made(1)))
  /\ \A t \in Tasks : WF_vars(OnTimers(TaskStep(t)))
  /\ WF_vars(OnTimers(ClockMain))

FairSpec == Spec /\ Fairness

-----------------------------------------------------------------------------
TypeOK ==
  /\ pin \in [Pins -> [func : {"NULL", "SIO"} \cup Functions, dir : {"in", "out"},
                       pull : {"none", "up", "down"}, irq : BOOLEAN]]
  /\ object \subseteq Pins /\ mode \in [Pins -> Modes \cup {Gone}]
  /\ led.brightness \in 0 .. Full /\ led.direction \in {-1, 0, 1} /\ level \in 0 .. Full
  /\ ramp.duty \in 0 .. Percent /\ unit.wrap \in 0 .. Top - 1 /\ slice.top \in 0 .. Top - 1
  /\ counter \in 0 .. Off /\ quiet \in 0 .. Never /\ dog.age \in 0 .. Never /\ power.age \in 0 .. Never
  /\ claimed \subseteq Machines /\ fifo \in [Machines -> 0 .. FifoSize]
  /\ line \in [Machines -> Lines \cup {NoLine}]
  /\ epaper.speed \in Speeds /\ panel.at \in 0 .. Cols * Rows
  /\ view.rect.x + view.rect.w <= Memory.w
  /\ sampling \in [Sensors -> {"sleep", "forced", "normal"}]
  /\ blocks \in 0 .. Cardinality(Names) + 2
  /\ io.reg \in Regs \cup {NoReg} /\ chip.at \in Regs \cup {NoReg}
  /\ working \in 0 .. Rounds /\ mutex.owner \in Actors \cup {NoOne}
  /\ sdl \subseteq {"window", "renderer", "texture"} /\ ticks \in 0 .. MaxTicks
  /\ Len(queue) <= Depth /\ gauge.percent \in 0 .. 100
  /\ ring.events \in 0 .. QueueSize /\ made \in 0 .. QueueSize + Cardinality(Slots) + Cardinality(Tasks)

(* Pins and receivers, which share one callback and one handler: a pin     *)
(* reads back its mode, only inputs interrupt, and somebody answers unless *)
(* another pin silenced it; the handler of the receivers reads no machine  *)
(* that was given back.                                                    *)
InterruptsFit ==
  /\ TypeOK
  /\ ModeReads
  /\ OnlyInputsInterrupt
  /\ InputsAnswered
  /\ ContextBacked

(* The colour display and the software display draw where their drivers    *)
(* mean to, whatever was set or failed before, a rectangle of a panel with *)
(* gaps excepted, and the frames of the latter are paced.                  *)
ScreensDraw ==
  /\ []RectShows
  /\ RectOnly
  /\ FillAfterRotation
  /\ [](ClearsRect /\ NothingLeft)
  /\ Paced

(* The watchdog resets nobody who polls in time, wherever his polls fall   *)
(* between the feeds, and the callback of power is told what was measured. *)
PowerKept ==
  /\ NoStrayReset
  /\ SourceTold
  /\ BatteryMeasured

(* Threads that print and timers that call back in threads of their own,   *)
(* with panics, resets and finalizers between: lines are whole, memory is  *)
(* freed once, nothing is used after its owner returned.                   *)
ThreadsTidy ==
  /\ TypeOK
  /\ LinesWhole
  /\ OwnerRuns
  /\ WrapperReturned
  /\ AlarmsMatch
  /\ AllFreed
  /\ StoppedFirst

(* What a clock, a converter or another thread drives comes to an end, and *)
(* a fade does so without a jump.                                          *)
AllEnd ==
  /\ FadeSmooth
  /\ OneShotEnds
  /\ ResetComes
  /\ PanicHalts
  /\ GaugeEnds
  /\ ProgramEnds
=============================================================================
