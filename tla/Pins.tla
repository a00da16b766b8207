-------------------------------- MODULE Pins --------------------------------
(***************************************************************************)
(* runtime-hw/pico/gpio.c and Application/GPIO.m: pins with a function, a  *)
(* direction and a pull, the one interrupt callback the SDK keeps for all  *)
(* of them, and the shared GPIO objects.                                   *)
(***************************************************************************)
EXTENDS Naturals

CONSTANTS Pins, Functions  \* Functions of peripherals: SPI, I2C, UART, PWM
ASSUME FunctionsAssumption ==
  Functions \cap {"NULL", "SIO", "NONE", "INPUT", "PULLUP", "PULLDOWN", "OUTPUT", "ADC", "gone"} = {}

VARIABLES
  pin,       \* the registers of a pin
  handler,   \* the SDK has a callback for the interrupts of the pins
  listener,  \* _hw_gpio_callback_func # NULL
  object,    \* the pins with an instance in _gpio
  mode,      \* history: the mode a pin was last given; Gone after deinit
  silenced   \* history: pins whose interrupts the mode of another pin left
             \* without the callback

pinVars == <<pin, handler, listener, object, mode, silenced>>

Inputs == {"INPUT", "PULLUP", "PULLDOWN"}
Modes == Inputs \cup Functions \cup {"NONE", "OUTPUT", "ADC"}
Gone == "gone"

Reset(p) == [pin[p] EXCEPT !.func = "SIO", !.dir = "in"]

(* The registers after hw_gpio_set_mode.                                   *)
Configured(p, m) ==
  LET r == Reset(p) IN
    CASE m = "NONE"     -> [r EXCEPT !.irq = FALSE]
      [] m = "INPUT"    -> [r EXCEPT !.pull = "none", !.irq = TRUE]
      [] m = "PULLUP"   -> [r EXCEPT !.pull = "up", !.irq = TRUE]
      [] m = "PULLDOWN" -> [r EXCEPT !.pull = "down", !.irq = TRUE]
      [] m = "OUTPUT"   -> [r EXCEPT !.dir = "out", !.irq = FALSE]
      [] m = "ADC"      -> [r EXCEPT !.func = "NULL", !.pull = "none", !.irq = FALSE]
      [] m \in Functions -> [r EXCEPT !.func = m, !.irq = FALSE]

(* hw_gpio_get_mode.                                                       *)
GetMode(p) ==
  CASE pin[p].func = "NULL" -> "ADC"
    [] pin[p].func \in Functions -> pin[p].func
    [] pin[p].func = "SIO" /\ pin[p].dir = "out" -> "OUTPUT"
    [] pin[p].func = "SIO" /\ pin[p].dir = "in" /\ pin[p].pull = "up" -> "PULLUP"
    [] pin[p].func = "SIO" /\ pin[p].dir = "in" /\ pin[p].pull = "down" -> "PULLDOWN"
    [] pin[p].func = "SIO" /\ pin[p].dir = "in" /\ pin[p].pull = "none" -> "INPUT"

PinsInit ==
  /\ pin = [p \in Pins |-> [func |-> "NULL", dir |-> "in", pull |-> "down", irq |-> FALSE]]
  /\ handler = FALSE /\ listener = FALSE
  /\ object = {}
  /\ mode = [p \in Pins |-> Gone] /\ silenced = {}

-----------------------------------------------------------------------------
(* Each call of the SDK replaces the callback of all pins, and the modes   *)
(* that are no inputs pass NULL: they silence every input there is, until  *)
(* some pin is made an input again.                                        *)
SetMode(p, m) ==
  /\ pin' = [pin EXCEPT ![p] = Configured(p, m)]
  /\ handler' = (m \in Inputs)
  /\ mode' = [mode EXCEPT ![p] = m]
  /\ silenced' = IF m \in Inputs THEN {} ELSE {q \in Pins : pin[q].irq} \ {p}

GpioInit(p, m) ==
  /\ p \notin object
  /\ IF m = "NONE"
     THEN /\ pin' = [pin EXCEPT ![p] = Reset(p)] /\ mode' = [mode EXCEPT ![p] = m]
          /\ UNCHANGED <<handler, silenced>>
     ELSE SetMode(p, m)
  /\ UNCHANGED <<listener, object>>

(* gpio_deinit: the function is cleared, the interrupt is not.             *)
Deinit(ps) ==
  /\ pin' = [p \in Pins |-> IF p \in ps THEN [pin[p] EXCEPT !.func = "NULL"] ELSE pin[p]]
  /\ mode' = [p \in Pins |-> IF p \in ps THEN Gone ELSE mode[p]]
  /\ UNCHANGED <<handler, silenced>>

GpioFinalize(p) ==
  /\ p \notin object /\ mode[p] # Gone
  /\ Deinit({p})
  /\ UNCHANGED <<listener, object>>

(* hw_gpio_set_callback: the application when it starts, and NULL when it  *)
(* is gone.                                                                *)
SetCallback ==
  /\ listener' = ~listener
  /\ UNCHANGED <<pin, handler, object, mode, silenced>>

(* inputWithPin:, pullupWithPin:, pulldownWithPin:, outputWithPin:.        *)
WithPin(p, m) ==
  /\ m \in Inputs \cup {"OUTPUT"}
  /\ object' = object \cup {p}
  /\ \/ p \in object /\ GetMode(p) = m /\ UNCHANGED <<pin, handler, mode, silenced>>
     \/ ((p \in object) => GetMode(p) # m) /\ SetMode(p, m)
  /\ UNCHANGED listener

ObjectSetMode(p, m) ==
  /\ p \in object /\ SetMode(p, m)
  /\ UNCHANGED <<listener, object>>

(* +finalize releases the objects, and the last release deinitializes.     *)
FinalizeAll ==
  /\ object' = {}
  /\ Deinit(object)
  /\ UNCHANGED listener

PinsStep ==
  \/ \E p \in Pins, m \in Modes : GpioInit(p, m) \/ WithPin(p, m) \/ ObjectSetMode(p, m)
  \/ \E p \in Pins : GpioFinalize(p)
  \/ SetCallback \/ FinalizeAll

-----------------------------------------------------------------------------
(* A pin reads back the mode it was given, whatever modes it and the other *)
(* pins had before.                                                        *)
ModeReads == \A p \in Pins : mode[p] \notin {Gone, "NONE"} => GetMode(p) = mode[p]

(* Of the pins with a mode only inputs interrupt.  A pin that was given up *)
(* or initialized without a mode keeps the interrupt it had.               *)
OnlyInputsInterrupt ==
  \A p \in Pins : pin[p].irq => mode[p] \in Inputs \cup {Gone, "NONE"}

(* An input interrupts, and the SDK has the callback for whatever          *)
(* interrupts, but for the inputs that a later mode of another pin has     *)
(* silenced: gpio.h promises the callback for every pin that is configured *)
(* to interrupt.                                                           *)
InputsAnswered ==
  \A p \in Pins : /\ mode[p] \in Inputs => pin[p].irq
                 /\ pin[p].irq => handler \/ p \in silenced
=============================================================================
