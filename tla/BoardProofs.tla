----------------------------- MODULE BoardProofs ----------------------------
(***************************************************************************)
(* The devices of Board one after the other: for each an invariant that    *)
(* its steps keep, named after its module, and what follows from it; then  *)
(* the theorems about the board, whose every step is a step of one device. *)
(***************************************************************************)
EXTENDS Board, WellFoundedInduction, FiniteSetTheorems, FunctionTheorems,
        SequenceTheorems, TLAPS


-----------------------------------------------------------------------------
(* The pins.                                                               *)

PinRegisters == [func : {"NULL", "SIO"} \cup Functions, dir : {"in", "out"},
                 pull : {"none", "up", "down"}, irq : BOOLEAN]

PinsInv ==
  /\ pin \in [Pins -> PinRegisters]
  /\ object \subseteq Pins /\ mode \in [Pins -> Modes \cup {Gone}]
  /\ ModeReads
  /\ OnlyInputsInterrupt
  /\ InputsAnswered

(* What hw_gpio_set_mode writes is read back as the mode, only inputs are  *)
(* left with an interrupt, and one that is left without its callback is    *)
(* silenced.                                                               *)
LEMMA ModeConfigured ==
  ASSUME PinsInv, NEW p \in Pins, NEW m \in Modes, SetMode(p, m), object' \subseteq Pins
  PROVE  PinsInv'
<1>1. /\ pin' = [pin EXCEPT ![p] = Configured(p, m)] /\ mode' = [mode EXCEPT ![p] = m]
      /\ pin[p] \in PinRegisters /\ handler' = (m \in Inputs)
      /\ silenced' = IF m \in Inputs THEN {} ELSE {q \in Pins : pin[q].irq} \ {p}
  BY DEF SetMode, PinsInv
<1>2. /\ Reset(p) \in PinRegisters /\ Reset(p).func = "SIO" /\ Reset(p).dir = "in"
      /\ Reset(p).irq = pin[p].irq
  BY <1>1 DEF Reset, PinRegisters
<1>. DEFINE r == Configured(p, m)
<1>3. /\ r \in PinRegisters /\ (r.irq <=> m \in Inputs)
      /\ m = "NONE" => r.func = "SIO"
      /\ m = "INPUT" => r.func = "SIO" /\ r.dir = "in" /\ r.pull = "none"
      /\ m = "PULLUP" => r.func = "SIO" /\ r.dir = "in" /\ r.pull = "up"
      /\ m = "PULLDOWN" => r.func = "SIO" /\ r.dir = "in" /\ r.pull = "down"
      /\ m = "OUTPUT" => r.func = "SIO" /\ r.dir = "out"
      /\ m = "ADC" => r.func = "NULL"
      /\ m \in Functions => r.func = m
  BY <1>2, FunctionsAssumption DEF Configured, PinRegisters, Modes, Inputs
<1>. HIDE DEF r
<1>4. pin'[p] = r /\ mode'[p] = m /\ \A q \in Pins \ {p} : pin'[q] = pin[q] /\ mode'[q] = mode[q]
  BY <1>1 DEF r, PinsInv
<1>5. m # "NONE" => GetMode(p)' = m
  BY <1>3, <1>4, FunctionsAssumption DEF GetMode, Modes, Inputs
<1>6. ModeReads'
  <2>. SUFFICES ASSUME NEW q \in Pins, mode'[q] \notin {Gone, "NONE"}
                PROVE  GetMode(q)' = mode'[q]
    BY DEF ModeReads
  <2>1. CASE q = p
    BY <1>4, <1>5, <2>1
  <2>2. CASE q # p
    BY <1>4, <2>2 DEF PinsInv, ModeReads, GetMode
  <2>. QED BY <2>1, <2>2
<1>7. OnlyInputsInterrupt'
  BY <1>3, <1>4 DEF PinsInv, OnlyInputsInterrupt
<1>8. pin' \in [Pins -> PinRegisters] /\ mode' \in [Pins -> Modes \cup {Gone}]
  BY <1>1, <1>3 DEF PinsInv, r
<1>9. InputsAnswered'
  <2>1. CASE m \in Inputs
    BY <1>1, <1>3, <1>4, <2>1 DEF PinsInv, InputsAnswered
  <2>2. CASE m \notin Inputs
    BY <1>1, <1>3, <1>4, <2>2 DEF PinsInv, InputsAnswered
  <2>. QED BY <2>1, <2>2
<1>. QED BY <1>6, <1>7, <1>8, <1>9 DEF PinsInv

(* The pins: the strengthening holds at first and after every step.        *)
LEMMA PinsKept ==
  /\ PinsInit => PinsInv
  /\ PinsInv /\ [PinsStep]_pinVars => PinsInv'
<1>1. PinsInit => PinsInv
  BY FunctionsAssumption
     DEF PinsInit, PinsInv, PinRegisters, ModeReads, OnlyInputsInterrupt, InputsAnswered, Modes, Inputs, Gone
<1>2. ASSUME PinsInv, [PinsStep]_pinVars PROVE PinsInv'
  <2>. USE <1>2
  <2>1. CASE UNCHANGED pinVars
    BY <2>1 DEF pinVars, PinsInv, ModeReads, GetMode, OnlyInputsInterrupt, InputsAnswered
  <2>2. CASE UNCHANGED <<pin, mode, handler, silenced>> /\ object' \subseteq Pins
    BY <2>2 DEF PinsInv, ModeReads, GetMode, OnlyInputsInterrupt, InputsAnswered
  <2>3. ASSUME NEW p \in Pins, NEW m \in Modes, SetMode(p, m), object' \subseteq Pins
        PROVE  PinsInv'
    BY <2>3, ModeConfigured DEF PinsInv
  <2>4. ASSUME NEW ps \in SUBSET Pins, Deinit(ps), object' \subseteq Pins
        PROVE  PinsInv'
    <3>1. /\ pin' = [p \in Pins |-> IF p \in ps THEN [pin[p] EXCEPT !.func = "NULL"] ELSE pin[p]]
          /\ mode' = [p \in Pins |-> IF p \in ps THEN Gone ELSE mode[p]]
          /\ UNCHANGED <<handler, silenced>>
      BY <2>4 DEF Deinit
    <3>2. /\ pin' \in [Pins -> PinRegisters] /\ mode' \in [Pins -> Modes \cup {Gone}]
          /\ \A q \in Pins : \/ mode'[q] = Gone
                             \/ pin'[q] = pin[q] /\ mode'[q] = mode[q]
          /\ \A q \in Pins : pin'[q].irq = pin[q].irq
      BY <3>1 DEF PinsInv, PinRegisters
    <3>3. ModeReads' /\ OnlyInputsInterrupt'
      BY <3>2, ZenonT(60) DEF PinsInv, ModeReads, GetMode, OnlyInputsInterrupt
    <3>4. InputsAnswered'
      BY <3>1, <3>2 DEF PinsInv, InputsAnswered, Inputs, Gone
    <3>. QED BY <2>4, <3>2, <3>3, <3>4 DEF PinsInv
  <2>5. ASSUME NEW p \in Pins, pin' = [pin EXCEPT ![p] = Reset(p)], mode' = [mode EXCEPT ![p] = "NONE"],
               object' = object, UNCHANGED <<handler, silenced>>
        PROVE  PinsInv'
    <3>1. Reset(p) \in PinRegisters /\ Reset(p).irq = pin[p].irq
      BY DEF Reset, PinsInv, PinRegisters
    <3>2. /\ pin' \in [Pins -> PinRegisters] /\ mode' \in [Pins -> Modes \cup {Gone}]
          /\ mode'[p] = "NONE" /\ pin'[p].irq = pin[p].irq
          /\ \A q \in Pins \ {p} : pin'[q] = pin[q] /\ mode'[q] = mode[q]
      BY <2>5, <3>1 DEF PinsInv, Modes
    <3>3. ModeReads'
      BY <3>2, ZenonT(60) DEF PinsInv, ModeReads, GetMode
    <3>4. OnlyInputsInterrupt'
      BY <3>2 DEF PinsInv, OnlyInputsInterrupt
    <3>5. InputsAnswered'
      BY <2>5, <3>2 DEF PinsInv, InputsAnswered, Inputs
    <3>. QED BY <2>5, <3>2, <3>3, <3>4, <3>5 DEF PinsInv
  <2>6. ASSUME NEW p \in Pins, NEW m \in Modes, GpioInit(p, m)
        PROVE  PinsInv'
    <3>1. object' = object /\ object \subseteq Pins
      BY <2>6 DEF GpioInit, PinsInv
    <3>2. CASE m = "NONE"
      BY <2>5, <2>6, <3>1, <3>2 DEF GpioInit
    <3>3. CASE m # "NONE"
      BY <2>3, <2>6, <3>1, <3>3 DEF GpioInit
    <3>. QED BY <3>2, <3>3
  <2>7. ASSUME NEW p \in Pins, NEW m \in Modes, WithPin(p, m)
        PROVE  PinsInv'
    <3>1. object' \subseteq Pins
      BY <2>7 DEF WithPin, PinsInv
    <3>2. UNCHANGED <<pin, mode, handler, silenced>> \/ SetMode(p, m)
      BY <2>7 DEF WithPin
    <3>. QED BY <2>2, <2>3, <3>1, <3>2
  <2>8. ASSUME NEW p \in Pins, NEW m \in Modes, ObjectSetMode(p, m)
        PROVE  PinsInv'
    BY <2>3, <2>8 DEF ObjectSetMode, PinsInv
  <2>9. ASSUME NEW p \in Pins, GpioFinalize(p)
        PROVE  PinsInv'
    <3>1. Deinit({p}) /\ object' \subseteq Pins /\ {p} \in SUBSET Pins
      BY <2>9 DEF GpioFinalize, PinsInv
    <3>. QED BY <2>4, <3>1
  <2>10. CASE FinalizeAll
    <3>1. Deinit(object) /\ object' \subseteq Pins /\ object \in SUBSET Pins
      BY <2>10 DEF FinalizeAll, PinsInv
    <3>. QED BY <2>4, <3>1
  <2>11. CASE SetCallback
    BY <2>2, <2>11 DEF SetCallback, PinsInv
  <2>. QED BY <2>1, <2>6, <2>7, <2>8, <2>9, <2>10, <2>11 DEF PinsStep
<1>. QED BY <1>1, <1>2

-----------------------------------------------------------------------------
(* The infrared receivers: how far the contexts and the machines agree     *)
(* when the handler runs between two steps of a call.                      *)

IrInv ==
  /\ claimed \subseteq Machines /\ marked \subseteq claimed
  /\ line \in [Machines -> Lines \cup {NoLine}] /\ fifo \in [Machines -> 0 .. FifoSize]
  /\ \/ busy = NoCall /\ marked = claimed
     \/ \E m \in claimed :
          \/ busy \in {At("line", m), At("clear", m)} /\ marked = claimed
          \/ busy \in {At("mark", m), At("release", m)} /\ marked = claimed \ {m}

(* A line that is tried is a line: a set of numbers has a least one.       *)
LEMMA FirstLineFree == FreeLines # {} => FirstLine \in FreeLines
<1>. SUFFICES ASSUME FreeLines # {} PROVE \E l \in FreeLines : \A k \in FreeLines : l <= k
  BY DEF FirstLine
<1>. DEFINE R == OpToRel(<, Nat)
<1>1. FreeLines \subseteq Nat
  BY InfraredAssumption DEF FreeLines
<1>2. IsWellFoundedOn(R, Nat)
  BY NatLessThanWellFounded
<1>3. \A k, l \in Nat : <<k, l>> \in R <=> k < l
  BY DEF OpToRel
<1>. HIDE DEF R
<1>4. PICK l \in FreeLines : \A k \in FreeLines : <<k, l>> \notin R
  BY <1>1, <1>2, WFMin, Zenon
<1>5. ASSUME NEW k \in FreeLines PROVE l <= k
  <2>1. k \in Nat /\ l \in Nat /\ ~(k < l)
    BY <1>1, <1>3, <1>4
  <2>. QED BY <2>1
<1>. QED BY <1>5

(* The infrared receiver: the strengthening holds at first and after every step. *)
LEMMA IrKept ==
  /\ IrInit => IrInv
  /\ IrInv /\ [IrStep]_irVars => IrInv'
<1>1. IrInit => IrInv
  BY InfraredAssumption DEF IrInit, IrInv
<1>2. ASSUME IrInv, [IrStep]_irVars PROVE IrInv'
  <2>. USE <1>2 DEF IrInv, At, NoCall
  <2>1. CASE UNCHANGED irVars
    BY <2>1 DEF irVars
  <2>2. ASSUME NEW m \in Machines, RxClaim(m)
        PROVE  IrInv'
    BY <2>2 DEF RxClaim
  <2>3. ASSUME NEW m \in Machines, RxSilence(m)
        PROVE  IrInv'
    BY <2>3 DEF RxSilence
  <2>4. ASSUME NEW m \in Machines, Receive(m)
        PROVE  IrInv'
    BY <2>4, InfraredAssumption DEF Receive
  <2>5. CASE RxMark
    BY <2>5 DEF RxMark
  <2>6. CASE RxNoLine
    BY <2>6 DEF RxNoLine
  <2>7. CASE RxLine
    <3>1. FirstLine \in Lines
      BY <2>7, FirstLineFree DEF RxLine, FreeLines
    <3>. QED BY <2>7, <3>1, InfraredAssumption DEF RxLine
  <2>8. CASE RxClear
    BY <2>8 DEF RxClear
  <2>9. CASE RxRelease
    BY <2>9 DEF RxRelease
  <2>10. CASE Interrupt
    BY <2>10, InfraredAssumption DEF Interrupt
  <2>11. CASE TakeLine
    BY <2>11 DEF TakeLine
  <2>. QED BY <2>1, <2>2, <2>3, <2>4, <2>5, <2>6, <2>7, <2>8, <2>9, <2>10, <2>11 DEF IrStep
<1>. QED BY <1>1, <1>2

-----------------------------------------------------------------------------
(* The PWM unit.                                                           *)

(* A fraction of k wholes is less than k.                                  *)
LEMMA Scaled ==
  ASSUME NEW a \in Nat, NEW b \in Nat \ {0}, NEW k \in Nat, a < k * b
  PROVE  a \div b \in Nat /\ a \div b < k
OBVIOUS

PwmUnits == [valid : BOOLEAN, wrap : 0 .. Top - 1, enabled : BOOLEAN]
Slices == [running : BOOLEAN, level : Nat, top : 0 .. Top - 1, divider : Nat,
           irq : BOOLEAN, pending : BOOLEAN]

Configuring == {"read", "load", "load and start"}
Resting == {"none", "stopping", "halt", "start", "stop", "clear"}

(* While a call runs its unit is valid, and in finalize the interrupt is   *)
(* off.  The slice has the configuration that was asked for, except while  *)
(* hw_pwm_set_config runs: until it stores the wrap the slice has that of  *)
(* the unit, and from then on the unit has the wrap that was asked for.    *)
PwmInv ==
  /\ unit \in PwmUnits /\ slice \in Slices
  /\ step \in Resting \cup Configuring \cup {"flag", "wrap"} /\ counts \in Nat \ {0}
  /\ ramp \in [duty : 0 .. Percent, rising : BOOLEAN]
  /\ step # "none" => unit.valid
  /\ step \in {"stop", "clear"} => ~slice.irq
  /\ ~unit.valid \/ step = "clear" => ~slice.running
  /\ unit.valid /\ step \in Resting =>
       /\ slice.top = GetConfig(counts).wrap /\ slice.divider \in Dividers(counts)
  /\ unit.valid /\ step \notin Configuring => slice.top = unit.wrap
  /\ step \in Configuring => unit.wrap = GetConfig(counts).wrap
  /\ step \notin Configuring => slice.level <= slice.top

(* What GetConfig answers fits the registers.                              *)
LEMMA ConfigFits ==
  ASSUME NEW n \in Nat \ {0}
  PROVE  /\ GetConfig(n).wrap \in 0 .. Top - 1 /\ GetConfig(n).divider \in Nat
         /\ Dividers(n) \subseteq Nat
<1>1. n \in Nat \ {0} /\ Top \in Nat \ {0} /\ MaxDivider \in Nat \ {0} /\ Top * MaxDivider \in Nat
      /\ Fractions \in Nat \ {0}
  BY PwmAssumption
<1>2. GetConfig(n).wrap \in 0 .. Top - 1 /\ GetConfig(n).divider \in Nat
  BY <1>1 DEF GetConfig, Least
<1>3. GetConfig(n).divider * Fractions \in Nat
  BY <1>1, <1>2
<1>4. ASSUME NEW exact \in Nat PROVE exact \div Top \in Nat /\ (exact + Top - 1) \div Top \in Nat
  BY <1>1
<1>. QED BY <1>2, <1>3, <1>4 DEF Dividers

(* A quotient rounded down or up is off by less than one.                  *)
LEMMA Rounded ==
  ASSUME NEW a \in Nat, NEW b \in Nat \ {0}, NEW q, q \in {a \div b, (a + b - 1) \div b}
  PROVE  q \in Nat /\ b * q < a + b /\ a < b * q + b
<1>1. ASSUME NEW x \in Nat
      PROVE  x \div b \in Nat /\ b * (x \div b) <= x /\ x < b * (x \div b) + b
  <2>1. /\ x = b * (x \div b) + (x % b) /\ x % b \in 0 .. b - 1
        /\ x \div b \in Nat /\ b * (x \div b) \in Nat
    OBVIOUS
  <2>. QED BY <2>1
<1>2. CASE q = a \div b
  <2>1. b * q <= a /\ a < b * q + b /\ q \in Nat /\ b * q \in Nat
    BY <1>1, <1>2
  <2>. QED BY <2>1
<1>3. CASE q = (a + b - 1) \div b
  <2>1. a + b - 1 \in Nat
    OBVIOUS
  <2>2. b * q <= a + b - 1 /\ a + b - 1 < b * q + b /\ q \in Nat
    BY <1>1, <1>3, <2>1
  <2>3. b * q \in Nat
    BY <2>2
  <2>. QED BY <2>2, <2>3
<1>. QED BY <1>2, <1>3

(* The period of a configuration is the one that was asked for, to less    *)
(* than a step of the divider.                                             *)
LEMMA PeriodNear ==
  ASSUME NEW n \in Nat \ {0}, n <= Top * MaxDivider, NEW d \in Dividers(n)
  PROVE  LET off == (GetConfig(n).wrap + 1) * d - n * Fractions
         IN  IF n <= Top THEN off = 0 ELSE -Top < off /\ off < Top
<1>1. /\ Top \in Nat \ {0} /\ Fractions \in Nat \ {0} /\ Top * MaxDivider \in Nat
      /\ d \in Nat /\ n * Fractions \in Nat
  BY PwmAssumption, ConfigFits
<1>2. CASE n <= Top
  <2>1. GetConfig(n).wrap + 1 = n /\ GetConfig(n).divider = Top
    BY <1>1, <1>2 DEF GetConfig, Least
  <2>2. d \in {(Top * Fractions) \div Top, (Top * Fractions + Top - 1) \div Top}
    BY <2>1 DEF Dividers
  <2>3. d = Fractions
    <3>1. Top * Fractions \in Nat
      BY <1>1
    <3>2. Top * d < Top * Fractions + Top /\ Top * Fractions < Top * d + Top
      BY <1>1, <2>2, <3>1, Rounded
    <3>3. Top * d < Top * (Fractions + 1) /\ Top * Fractions < Top * (d + 1)
      BY <1>1, <3>2
    <3>4. d < Fractions + 1 /\ Fractions < d + 1
      BY <1>1, <3>3
    <3>. QED BY <1>1, <3>4
  <2>. QED BY <1>1, <1>2, <2>1, <2>3
<1>3. CASE n > Top
  <2>1. GetConfig(n).wrap + 1 = Top /\ GetConfig(n).divider = n
    BY <1>1, <1>3 DEF GetConfig, Least
  <2>2. d \in {(n * Fractions) \div Top, (n * Fractions + Top - 1) \div Top}
    BY <2>1 DEF Dividers
  <2>3. Top * d < n * Fractions + Top /\ n * Fractions < Top * d + Top
    BY <1>1, <2>2, Rounded
  <2>4. Top * d \in Nat
    BY <1>1
  <2>. QED BY <1>1, <1>3, <2>1, <2>3, <2>4
<1>. QED BY <1>1, <1>2, <1>3

(* The assertion of hw_pwm_start.                                          *)
LEMMA LevelBelow ==
  ASSUME NEW wrap \in Nat, NEW duty \in Nat
  PROVE  Level(wrap, duty) \in Nat /\ Level(wrap, duty) <= wrap
<1>1. CASE duty >= Percent
  BY <1>1 DEF Level
<1>2. CASE ~(duty >= Percent)
  <2>1. Percent \in Nat \ {0} /\ duty < Percent
    BY <1>2, PwmAssumption
  <2>2. (wrap + 1) * duty \in Nat /\ (wrap + 1) * duty < (wrap + 1) * Percent
    BY <2>1
  <2>3. /\ ((wrap + 1) * duty) \div Percent \in Nat
        /\ ((wrap + 1) * duty) \div Percent < wrap + 1
    BY <2>1, <2>2, Scaled
  <2>. QED BY <1>2, <2>3 DEF Level
<1>. QED BY <1>1, <1>2

(* What the strengthening says of the ramp.                                *)
LEMMA PwmInvRamp == PwmInv => RampHolds
<1>. SUFFICES ASSUME PwmInv PROVE RampHolds
  OBVIOUS
<1>1. LevelFits
  BY DEF PwmInv, LevelFits, Configuring
<1>2. PeriodKept
  BY PeriodNear DEF PwmInv, PeriodKept, Resting, Configuring
<1>3. GivenUpIsStill
  BY DEF PwmInv, GivenUpIsStill
<1>. QED BY <1>1, <1>2, <1>3 DEF RampHolds

(* The slices: the strengthening holds at first and after every step.      *)
LEMMA PwmKept ==
  /\ PwmInit => PwmInv
  /\ PwmInv /\ [PwmStep]_pwmVars => PwmInv'
<1>. USE PwmAssumption
<1>1. ASSUME PwmInit PROVE PwmInv
  <2>1. /\ unit \in PwmUnits /\ slice \in Slices /\ ~unit.valid /\ ~slice.running
        /\ slice.level = 0 /\ slice.top \in Nat
    BY <1>1 DEF PwmInit, PwmUnits, Slices
  <2>. QED BY <1>1, <2>1 DEF PwmInit, PwmInv, Resting, Configuring
<1>2. ASSUME PwmInv, [PwmStep]_pwmVars PROVE PwmInv'
  <2>. /\ unit \in PwmUnits /\ slice \in Slices /\ counts \in Nat \ {0}
       /\ ramp \in [duty : 0 .. Percent, rising : BOOLEAN]
    BY <1>2 DEF PwmInv
  <2>0. ASSUME NEW n \in Nat \ {0}, NEW d \in Dividers(n)
        PROVE  /\ Loaded(n, d) \in Slices /\ ~Loaded(n, d).running /\ Loaded(n, d).level = 0
               /\ Loaded(n, d).top = GetConfig(n).wrap /\ Loaded(n, d).divider = d
               /\ Loaded(n, d).irq = slice.irq
    <3>. DEFINE w == GetConfig(n).wrap
    <3>1. w \in 0 .. Top - 1 /\ d \in Nat
      BY ConfigFits
    <3>. HIDE DEF w
    <3>2. Loaded(n, d) = [slice EXCEPT !.running = FALSE, !.level = 0, !.top = w, !.divider = d]
      BY DEF Loaded, w
    <3>. DEFINE s == [slice EXCEPT !.running = FALSE, !.level = 0, !.top = w, !.divider = d]
    <3>3. /\ s \in Slices /\ ~s.running /\ s.level = 0 /\ s.top = w /\ s.divider = d
          /\ s.irq = slice.irq
      BY <3>1 DEF Slices
    <3>. QED BY <3>2, <3>3 DEF w
  <2>1. CASE UNCHANGED pwmVars
    BY <1>2, <2>1 DEF pwmVars, PwmInv
  <2>2. ASSUME NEW n \in Counts, PwmOpen(n)
        PROVE  PwmInv'
    <3>1. n \in Nat \ {0}
      OBVIOUS
    <3>2. PICK d \in Dividers(n) : slice' = Loaded(n, d)
      BY <2>2 DEF PwmOpen
    <3>3. /\ slice' \in Slices /\ ~slice'.running /\ slice'.level = 0
          /\ slice'.top = GetConfig(n).wrap /\ slice'.divider = d
      BY <2>0, <3>1, <3>2
    <3>4. GetConfig(n).wrap \in 0 .. Top - 1
      BY <3>1, ConfigFits
    <3>5. /\ unit' \in PwmUnits /\ unit'.valid /\ unit'.wrap = GetConfig(n).wrap
          /\ counts' = n /\ step' = "none" /\ ramp' = ramp
      BY <2>2, <3>4 DEF PwmOpen, PwmUnits
    <3>6. GetConfig(counts)' = GetConfig(n) /\ Dividers(counts)' = Dividers(n)
      BY <3>5
    <3>7. slice'.level <= slice'.top
      BY <3>3, <3>4
    <3>. QED BY <1>2, <3>1, <3>3, <3>4, <3>5, <3>6, <3>7 DEF PwmInv, Resting, Configuring
  <2>3. ASSUME NEW duty \in 0 .. Percent, PwmStart(duty)
        PROVE  PwmInv'
    <3>1. Level(unit.wrap, duty) \in Nat /\ Level(unit.wrap, duty) <= unit.wrap
      <4>1. unit.wrap \in Nat /\ duty \in Nat
        BY DEF PwmUnits
      <4>. QED BY <4>1, LevelBelow
    <3>2. /\ unit'.valid /\ unit'.wrap = unit.wrap /\ unit' \in PwmUnits
          /\ slice'.level = Level(unit.wrap, duty) /\ slice'.divider = slice.divider
          /\ slice'.top = slice.top
          /\ slice' \in Slices /\ counts' = counts /\ step' = "none" /\ ramp' = ramp
      BY <2>3, <3>1 DEF PwmStart, PwmUnits, Slices
    <3>3. unit.valid /\ step = "none"
      BY <2>3 DEF PwmStart
    <3>. QED BY <1>2, <3>1, <3>2, <3>3 DEF PwmInv, Resting, Configuring
  <2>4. ASSUME PwmStop \/ SetIrqEnabled(TRUE) \/ SetIrqEnabled(FALSE) \/ FinalizeIrq \/ WrapRound
        PROVE  PwmInv'
    <3>1. /\ unit' = unit
          /\ slice' \in Slices /\ slice'.level = slice.level /\ slice'.divider = slice.divider
          /\ slice'.top = slice.top /\ (slice'.running => slice.running)
          /\ counts' = counts /\ ramp' = ramp
          /\ \/ step = "none" /\ step' = "none"
             \/ step' = step /\ slice'.irq = slice.irq
             \/ step = "none" /\ unit.valid /\ step' = "stopping"
             \/ step = "none" /\ step' = "stop" /\ unit.valid /\ ~slice'.irq
      BY <2>4, ZenonT(60) DEF PwmStop, SetIrqEnabled, FinalizeIrq, WrapRound, Slices
    <3>. QED BY <1>2, <3>1 DEF PwmInv, Resting, Configuring
  <2>5. ASSUME NEW n \in Counts, SetConfig(n)
        PROVE  PwmInv'
    <3>1. /\ unit' = unit /\ unit.valid /\ step = "none" /\ step' \in {"flag", "wrap"}
          /\ slice' \in Slices /\ slice'.level = slice.level /\ slice'.top = slice.top
          /\ counts' = n /\ n \in Nat \ {0} /\ ramp' = ramp
      BY <2>5 DEF SetConfig, Slices
    <3>. QED BY <1>2, <3>1 DEF PwmInv, Resting, Configuring
  <2>6. CASE ClearFlag
    <3>1. /\ unit' \in PwmUnits /\ unit'.valid = unit.valid /\ unit'.wrap = unit.wrap
          /\ slice' = slice /\ counts' = counts /\ ramp' = ramp
          /\ \/ step = "flag" /\ step' = "wrap"
             \/ step = "stopping" /\ step' = "none"
      BY <2>6 DEF ClearFlag, PwmUnits
    <3>. QED BY <1>2, <3>1 DEF PwmInv, Resting, Configuring
  <2>7. CASE ConfigWrap
    <3>1. GetConfig(counts).wrap \in 0 .. Top - 1
      BY ConfigFits
    <3>2. /\ unit' \in PwmUnits /\ unit'.valid = unit.valid /\ unit'.wrap = GetConfig(counts).wrap
          /\ slice' = slice /\ counts' = counts /\ ramp' = ramp /\ step = "wrap" /\ step' = "read"
      BY <2>7, <3>1 DEF ConfigWrap, PwmUnits
    <3>. QED BY <1>2, <3>2 DEF PwmInv, Resting, Configuring
  <2>8. CASE ConfigRead
    <3>1. /\ unit' = unit /\ slice' = slice /\ counts' = counts /\ ramp' = ramp
          /\ step = "read" /\ step' \in {"load", "load and start"}
      BY <2>8 DEF ConfigRead
    <3>. QED BY <1>2, <3>1 DEF PwmInv, Resting, Configuring
  <2>9. CASE ConfigLoad
    <3>1. PICK d \in Dividers(counts) : slice' = Loaded(counts, d)
      BY <2>9 DEF ConfigLoad
    <3>2. /\ slice' \in Slices /\ ~slice'.running /\ slice'.level = 0
          /\ slice'.top = GetConfig(counts).wrap /\ slice'.divider = d
      BY <2>0, <3>1
    <3>3. /\ unit' = unit /\ counts' = counts /\ ramp' = ramp
          /\ step \in Configuring /\ step' \in {"halt", "start"}
      BY <2>9 DEF ConfigLoad, Configuring
    <3>4. GetConfig(counts).wrap \in 0 .. Top - 1
      BY ConfigFits
    <3>5. GetConfig(counts)' = GetConfig(counts) /\ Dividers(counts)' = Dividers(counts)
      BY <3>3
    <3>6. slice'.level <= slice'.top
      BY <3>2, <3>4
    <3>. QED BY <1>2, <3>2, <3>3, <3>4, <3>5, <3>6 DEF PwmInv, Resting, Configuring
  <2>10. CASE ConfigEnd
    <3>1. /\ unit' = unit /\ counts' = counts /\ ramp' = ramp
          /\ step \in {"halt", "start"} /\ step' = "none"
          /\ slice' \in Slices /\ slice'.level = slice.level /\ slice'.top = slice.top
          /\ slice'.divider = slice.divider
      BY <2>10 DEF ConfigEnd, Slices
    <3>. QED BY <1>2, <3>1 DEF PwmInv, Resting, Configuring
  <2>11. CASE FinalizeStop
    <3>1. /\ unit' \in PwmUnits /\ unit'.valid = unit.valid /\ unit'.wrap = unit.wrap
          /\ slice' \in Slices /\ slice'.level = slice.level /\ slice'.divider = slice.divider
          /\ slice'.top = slice.top /\ ~slice'.running /\ slice'.irq = slice.irq
          /\ counts' = counts /\ ramp' = ramp /\ step = "stop" /\ step' = "clear"
      BY <2>11 DEF FinalizeStop, PwmUnits, Slices
    <3>. QED BY <1>2, <3>1 DEF PwmInv, Resting, Configuring
  <2>12. CASE FinalizeClear
    <3>1. /\ unit' \in PwmUnits /\ ~unit'.valid /\ slice' = slice /\ ~slice.running
          /\ counts' = counts /\ ramp' = ramp /\ step = "clear" /\ step' = "none"
      BY <1>2, <2>12 DEF FinalizeClear, PwmUnits, PwmInv
    <3>. QED BY <1>2, <3>1 DEF PwmInv, Resting, Configuring
  <2>13. CASE WrapCallback
    <3>1. ramp' \in [duty : 0 .. Percent, rising : BOOLEAN] /\ ramp' = Ramped
      BY <2>13 DEF WrapCallback, Ramped
    <3>2. Level(unit.wrap, ramp'.duty) \in Nat /\ Level(unit.wrap, ramp'.duty) <= unit.wrap
      BY <3>1, LevelBelow DEF PwmUnits
    <3>3. /\ unit' \in PwmUnits /\ unit'.valid /\ unit'.wrap = unit.wrap
          /\ slice' \in Slices /\ slice'.level = Level(unit.wrap, ramp'.duty)
          /\ slice'.top = slice.top /\ slice'.irq = slice.irq
          /\ slice'.divider = slice.divider /\ counts' = counts /\ step' = step /\ unit.valid
          /\ step \notin {"stop", "clear"}
      BY <1>2, <2>13, <3>1, <3>2 DEF WrapCallback, PwmUnits, Slices, PwmInv
    <3>. QED BY <1>2, <3>1, <3>2, <3>3 DEF PwmInv, Resting, Configuring
  <2>. QED BY <1>2, <2>1, <2>2, <2>3, <2>4, <2>5, <2>6, <2>7, <2>8, <2>9, <2>10, <2>11, <2>12, <2>13
       DEF PwmStep
<1>. QED BY <1>1, <1>2

-----------------------------------------------------------------------------
(* The LED.                                                                *)

LedFields == [valid : BOOLEAN, pwm : BOOLEAN, state : BOOLEAN, repeats : BOOLEAN,
              brightness : 0 .. Full, direction : {-1, 0, 1}]

(* No timer runs from the cancel of a call to the start of its own, and    *)
(* what runs after a call ends dark.                                       *)
LedInv ==
  /\ led \in LedFields /\ level \in 0 .. Full /\ asked \in 0 .. Full
  /\ timer \in {"off", "blink", "fade"}
  /\ job \in [do : {"nothing", "set", "blink", "fade", "finalize"}, to : 0 .. Full, repeats : BOOLEAN,
              at : {"idle", "cancel", "show", "start"}]
  /\ job.at = "idle" => job = Idle
  /\ job.at # "idle" => led.valid /\ job.do # "nothing"
  /\ job.at \in {"show", "start"} => timer = "off"
  /\ job.at = "start" => job.do \in {"blink", "fade"}
  /\ job = Idle /\ timer # "off" => asked = 0
  /\ LedFollows

(* The fields of an LED keep their types when a call or a tick sets them.  *)
Alive(l) == l \in LedFields /\ l.valid

(* A brightness that is set leaves a live, typed LED, and so does its finalize. *)
LEMMA LedSet ==
  ASSUME NEW l \in LedFields, l.valid, NEW b \in 0 .. Full
  PROVE  Alive([l EXCEPT !.brightness = b]) /\ [l EXCEPT !.brightness = b, !.valid = FALSE] \in LedFields
BY DEF LedFields, Alive

(* Switching an LED leaves it live.                                        *)
LEMMA LedSwitched ==
  ASSUME NEW l \in LedFields, l.valid, NEW b \in 0 .. Full, NEW s \in BOOLEAN
  PROVE  Alive([l EXCEPT !.state = s, !.brightness = b])
BY DEF LedFields, Alive

(* Starting a blink leaves the LED live.                                   *)
LEMMA LedBlinks ==
  ASSUME NEW l \in LedFields, l.valid, NEW b \in 0 .. Full, NEW s \in BOOLEAN, NEW r \in BOOLEAN
  PROVE  Alive([l EXCEPT !.repeats = r, !.state = s, !.brightness = b])
BY DEF LedFields, Alive

(* A step of a fade leaves the LED live.                                   *)
LEMMA LedDimmed ==
  ASSUME NEW l \in LedFields, l.valid, NEW b \in 0 .. Full, NEW d \in {-1, 0, 1}
  PROVE  Alive([l EXCEPT !.brightness = b, !.direction = d])
BY DEF LedFields, Alive

(* Starting a fade leaves the LED live.                                    *)
LEMMA LedFades ==
  ASSUME NEW l \in LedFields, l.valid, NEW b \in 0 .. Full, NEW s \in BOOLEAN, NEW r \in BOOLEAN,
         NEW d \in {-1, 0, 1}
  PROVE  Alive([l EXCEPT !.repeats = r, !.state = s, !.brightness = b, !.direction = d])
BY DEF LedFields, Alive

(* The LEDs: the strengthening holds at first and after every step.        *)
LEMMA LedKept ==
  /\ LedInit => LedInv
  /\ LedInv /\ [LedStep]_ledVars => LedInv'
<1>. USE FullAssumption
<1>1. ASSUME LedInit PROVE LedInv
  BY <1>1 DEF LedInit, LedInv, InvalidLed, Idle, LedFields, LedFollows, LedShowsAsked, NoTimerOutlives
<1>2. ASSUME LedInv, [LedStep]_ledVars PROVE LedInv'
  <2>. USE <1>2 DEF LedInv, LedFollows, LedShowsAsked, NoTimerOutlives
  <2>1. CASE UNCHANGED ledVars
    BY <2>1 DEF ledVars
  <2>2. CASE LedOpen
    <3>1. led' \in LedFields /\ led'.valid
      <4>1. PICK pwm \in BOOLEAN : led' = [InvalidLed EXCEPT !.valid = TRUE, !.pwm = pwm, !.direction = 1]
        BY <2>2 DEF LedOpen
      <4>2. led' = [valid |-> TRUE, pwm |-> pwm, state |-> FALSE, repeats |-> FALSE,
                    brightness |-> 0, direction |-> 1]
        BY <4>1 DEF InvalidLed
      <4>. QED BY <4>2 DEF LedFields
    <3>2. /\ job' = Idle /\ job = Idle /\ timer' = timer /\ level' = 0 /\ asked' = 0
      BY <2>2 DEF LedOpen
    <3>. QED BY <3>1, <3>2
  <2>3. ASSUME NEW do \in {"set", "blink", "fade", "finalize"}, NEW to \in 0 .. Full,
               NEW repeats \in BOOLEAN, Call(do, to, repeats)
        PROVE  LedInv'
    BY <2>3 DEF Call, Idle
  <2>4. CASE Cancel
    BY <2>4 DEF Cancel, Idle
  <2>5. CASE Show
    <3>1. job.at = "show" /\ timer' = timer /\ timer = "off" /\ led.valid
      BY <2>5 DEF Show
    <3>2. CASE ShowSet
      <4>1. job' = Idle /\ level' = asked' /\ level' \in 0 .. Full
        BY <3>1, <3>2 DEF ShowSet
      <4>2. led' = led \/ led' = [led EXCEPT !.brightness = job.to]
        BY <3>2 DEF ShowSet
      <4>3. Alive(led')
        <5>1. led \in LedFields /\ job.to \in 0 .. Full
          OBVIOUS
        <5>. QED BY <3>1, <4>2, <5>1, LedSet DEF Alive
      <4>. QED BY <3>1, <4>1, <4>3 DEF Idle, Alive
    <3>3. CASE ShowBlink \/ ShowFade
      <4>1. /\ level' \in 0 .. Full /\ asked' = asked
            /\ job' = [job EXCEPT !.at = "start"] /\ job.do \in {"blink", "fade"}
        BY <3>1, <3>3 DEF ShowBlink, ShowFade, Does
      <4>2. /\ job.repeats \in BOOLEAN /\ Full \in 0 .. Full /\ 0 \in 0 .. Full /\ 1 \in {-1, 0, 1}
            /\ led \in LedFields
        OBVIOUS
      <4>3. \/ led' = [led EXCEPT !.repeats = job.repeats, !.state = TRUE, !.brightness = Full]
            \/ led' = [led EXCEPT !.repeats = job.repeats, !.state = TRUE, !.brightness = 0,
                                  !.direction = 1]
        BY <3>3 DEF ShowBlink, ShowFade
      <4>4. Alive(led')
        <5>1. Alive([led EXCEPT !.repeats = job.repeats, !.state = TRUE, !.brightness = Full])
          BY <3>1, <4>2, LedBlinks
        <5>2. Alive([led EXCEPT !.repeats = job.repeats, !.state = TRUE, !.brightness = 0,
                                !.direction = 1])
          BY <3>1, <4>2, LedFades
        <5>. QED BY <4>3, <5>1, <5>2
      <4>. QED BY <3>1, <4>1, <4>4 DEF Idle, Alive
    <3>4. CASE ShowFinal
      <4>1. /\ led' = [led EXCEPT !.brightness = 0, !.valid = FALSE]
            /\ job' = Idle /\ level' = 0 /\ asked' = 0
        BY <3>4 DEF ShowFinal
      <4>2. led' \in LedFields
        <5>1. led \in LedFields /\ 0 \in 0 .. Full
          OBVIOUS
        <5>. QED BY <3>1, <4>1, <5>1, LedSet
      <4>. QED BY <3>1, <4>1, <4>2 DEF Idle
    <3>. QED BY <2>5, <3>2, <3>3, <3>4 DEF Show
  <2>6. CASE StartTimer
    <3>1. /\ job.at = "start" /\ timer = "off" /\ job' = Idle /\ led' = led /\ level' = level
          /\ led.valid /\ Does \in {"blink", "fade"}
          /\ \/ timer' = Does /\ asked' = 0
             \/ asked' = level /\ timer' = timer
      BY <2>6 DEF StartTimer, Does
    <3>. QED BY <3>1 DEF Idle
  <2>7. CASE Tick
    <3>1. led.valid /\ timer # "off" /\ job' = job /\ asked' = asked
      BY <2>7 DEF Tick, BlinkTick, FadeTick
    <3>2. /\ Alive(led') /\ level' \in 0 .. Full
          /\ timer' = timer \/ (timer' = "off" /\ level' = 0)
      <4>1. CASE BlinkTick
        <5>. DEFINE on == ~led.state
                    b == IF on THEN Full ELSE 0
        <5>1. led' = [led EXCEPT !.state = on, !.brightness = b] /\ level' = b
          BY <4>1 DEF BlinkTick
        <5>2. on \in BOOLEAN /\ b \in 0 .. Full
          OBVIOUS
        <5>3. timer' = timer \/ (timer' = "off" /\ level' = 0)
          BY <4>1 DEF BlinkTick
        <5>. HIDE DEF on, b
        <5>4. Alive(led')
          BY <3>1, <5>1, <5>2, LedSwitched
        <5>. QED BY <5>1, <5>2, <5>3, <5>4
      <4>2. CASE FadeTick
        <5>. DEFINE next == led.brightness + led.direction
        <5>1. next \in Int /\ led.direction \in {-1, 0, 1} /\ Full \in 0 .. Full /\ 0 \in 0 .. Full
          BY DEF LedFields
        <5>2. \/ \E b \in 0 .. Full, d \in {-1, 0, 1} : FadeOn(b, d)
              \/ level' = 0 /\ timer' = "off" /\ led' = led
          BY <4>2, <5>1 DEF FadeTick
        <5>. HIDE DEF next
        <5>3. CASE level' = 0 /\ timer' = "off" /\ led' = led
          BY <3>1, <5>3 DEF Alive
        <5>4. ASSUME NEW b \in 0 .. Full, NEW d \in {-1, 0, 1}, FadeOn(b, d)
              PROVE  Alive(led') /\ level' \in 0 .. Full /\ timer' = timer
          BY <3>1, <5>4, LedDimmed DEF FadeOn
        <5>. QED BY <5>2, <5>3, <5>4
      <4>. QED BY <2>7, <4>1, <4>2 DEF Tick
    <3>. QED BY <3>1, <3>2 DEF Alive
  <2>8. /\ 0 \in 0 .. Full
        /\ {"blink", "fade"} \subseteq {"set", "blink", "fade", "finalize"}
    OBVIOUS
  <2>. QED BY <2>1, <2>2, <2>3, <2>4, <2>5, <2>6, <2>7, <2>8 DEF LedStep
<1>. QED BY <1>1, <1>2

-----------------------------------------------------------------------------
(* The watchdog and the power supply.                                      *)

(* The counter that nobody asked to run out: it was loaded as long ago as  *)
(* the handle says, which is less than a time-out before the last poll; or *)
(* the watchdog was enabled after it.                                      *)
Counting ==
  counter # Off /\ ~wanted =>
    /\ dog.valid /\ ~dog.disable /\ load = 2 * Timeout
    /\ \/ counter = 2 * Timeout - dog.age /\ dog.age - quiet < Timeout
       \/ counter <= 2 * Timeout /\ 2 * Timeout <= counter + quiet /\ dog.age = Never

Dogs == [valid : BOOLEAN, disable : BOOLEAN, age : 0 .. Never]
Powers == [valid : BOOLEAN, source : {"UNKNOWN", "USB", "BATTERY"}, age : 0 .. Never]

DogInv ==
  /\ dog \in Dogs /\ power \in Powers
  /\ counter \in 0 .. Off /\ load \in 0 .. MaxTimeout
  /\ quiet \in 0 .. Never /\ wanted \in BOOLEAN
  /\ counter # Off => dog.valid
  /\ Counting
  /\ SourceTold

(* The numbers of the two clocks, from the assumption on their constants.  *)
LEMMA Ticks ==
  /\ MaxTimeout \in Nat /\ UpdateEvery \in Nat /\ Timeout \in Nat
  /\ 1 <= Timeout /\ 2 * Timeout <= MaxTimeout /\ 1 <= UpdateEvery
  /\ Off = MaxTimeout + 1 /\ Never = MaxTimeout + UpdateEvery
<1>1. MaxTimeout \in Nat /\ UpdateEvery \in Nat /\ 1 <= UpdateEvery /\ Timeout > 0
  BY WatchdogAssumption
<1>2. Timeout \in Nat /\ 1 <= Timeout /\ 2 * Timeout <= MaxTimeout
  BY <1>1 DEF Timeout
<1>. QED BY <1>1, <1>2 DEF Off, Never

(* The counter gets to 0 only when a poll is late.                         *)
LEMMA NeverRunsOut == DogInv => NoStrayReset
<1>. SUFFICES ASSUME DogInv, counter = 0, ~wanted PROVE quiet > Timeout
  BY DEF NoStrayReset, Up, DogInv
<1>1. Off # 0 /\ dog.age \in 0 .. Never /\ quiet \in 0 .. Never
  BY Ticks DEF DogInv, Dogs
<1>2. \/ 0 = 2 * Timeout - dog.age /\ dog.age - quiet < Timeout
      \/ 2 * Timeout <= 0 + quiet
  BY <1>1 DEF DogInv, Counting
<1>. QED BY <1>1, <1>2, Ticks

(* The handles when they are new and as they grow older.                   *)
LEMMA NewHandles ==
  /\ NoDog \in Dogs /\ ~NoDog.valid
  /\ \A on \in BOOLEAN : [valid |-> TRUE, disable |-> on, age |-> Never] \in Dogs
  /\ NoPower \in Powers /\ ~NoPower.valid
  /\ LET p == [NoPower EXCEPT !.valid = TRUE] IN p \in Powers /\ p.source = "UNKNOWN"
<1>1. Never \in 0 .. Never
  BY Ticks
<1>2. NoDog \in Dogs /\ ~NoDog.valid
  BY <1>1 DEF NoDog, Dogs
<1>3. \A on \in BOOLEAN : [valid |-> TRUE, disable |-> on, age |-> Never] \in Dogs
  BY <1>1 DEF Dogs
<1>4. NoPower \in Powers /\ ~NoPower.valid
  BY <1>1 DEF NoPower, Powers
<1>5. \A p \in Powers : [p EXCEPT !.valid = TRUE] \in Powers
  BY DEF Powers
<1>6. [NoPower EXCEPT !.valid = TRUE].source = "UNKNOWN"
  BY DEF NoPower
<1>. QED BY <1>2, <1>3, <1>4, <1>5, <1>6

(* The watchdog and the power monitor: the strengthening holds at first and after every step. *)
LEMMA DogKept ==
  /\ DogInit => DogInv
  /\ DogInv /\ [DogStep]_dogVars => DogInv'
<1>1. ASSUME DogInit PROVE DogInv
  <2>1. dog \in Dogs /\ power \in Powers /\ ~power.valid
    BY <1>1, NewHandles DEF DogInit
  <2>2. counter = Off /\ counter \in 0 .. Off /\ load \in 0 .. MaxTimeout /\ quiet \in 0 .. Never
    BY <1>1, Ticks DEF DogInit
  <2>3. wanted \in BOOLEAN
    BY <1>1 DEF DogInit
  <2>. QED BY <2>1, <2>2, <2>3 DEF DogInv, Counting, SourceTold
<1>2. ASSUME DogInv, [DogStep]_dogVars PROVE DogInv'
  <2>. USE <1>2 DEF DogInv, Counting, SourceTold
  <2>1. CASE UNCHANGED dogVars
    BY <2>1 DEF dogVars
  <2>2. CASE DogOpen
    <3>1. /\ dog' = [valid |-> TRUE, disable |-> FALSE, age |-> Never]
          /\ counter' = IF dog.valid THEN Off ELSE counter
          /\ load' = load /\ power' = power /\ quiet' = quiet /\ told' = told
      BY <2>2 DEF DogOpen, LeavePower
    <3>2. wanted' \in BOOLEAN
      BY <2>2 DEF DogOpen
    <3>3. dog' \in Dogs /\ dog'.valid
      BY <3>1, NewHandles
    <3>4. counter' = Off /\ Off \in 0 .. Off
      BY <3>1, Ticks
    <3>. QED BY <3>1, <3>2, <3>3, <3>4
  <2>3. CASE DogFinalize
    <3>1. /\ dog' = NoDog /\ counter' = Off /\ wanted' \in BOOLEAN
          /\ load' = load /\ power' = power /\ quiet' = quiet /\ told' = told
      BY <2>3 DEF DogFinalize, LeavePower
    <3>. QED BY <3>1, Ticks, NewHandles
  <2>4. ASSUME NEW on \in BOOLEAN, DogEnable(on)
        PROVE  DogInv'
    <3>1. /\ dog.valid /\ power' = power /\ told' = told /\ wanted' \in BOOLEAN
          /\ \/ /\ load' = 2 * Timeout /\ counter' = 2 * Timeout /\ quiet' = 0
                /\ dog' = [dog EXCEPT !.disable = FALSE, !.age = Never]
             \/ /\ counter' = Off /\ dog' = [dog EXCEPT !.disable = TRUE]
                /\ load' = load /\ quiet' = quiet
      BY <2>4 DEF DogEnable, LeavePower
    <3>2. dog' \in Dogs /\ dog'.valid
      <4>1. Never \in 0 .. Never
        BY Ticks
      <4>2. CASE dog' = [dog EXCEPT !.disable = FALSE, !.age = Never]
        BY <3>1, <4>1, <4>2 DEF Dogs
      <4>3. CASE dog' = [dog EXCEPT !.disable = TRUE]
        BY <3>1, <4>3 DEF Dogs
      <4>. QED BY <3>1, <4>2, <4>3
    <3>3. CASE counter' = Off /\ load' = load /\ quiet' = quiet
      BY <3>1, <3>2, <3>3, Ticks
    <3>4. CASE /\ load' = 2 * Timeout /\ counter' = 2 * Timeout /\ quiet' = 0
               /\ dog' = [dog EXCEPT !.disable = FALSE, !.age = Never]
      <4>1. ~dog'.disable /\ dog'.age = Never
        BY <3>4 DEF Dogs
      <4>. QED BY <3>1, <3>2, <3>4, <4>1, Ticks
    <3>. QED BY <3>1, <3>3, <3>4
  <2>5. ASSUME NEW delay \in Delays, DogReset(delay)
        PROVE  DogInv'
    <3>1. delay \in Nat
      BY Ticks DEF Delays
    <3>2. /\ dog.valid /\ dog' = [dog EXCEPT !.disable = TRUE] /\ wanted' = TRUE
          /\ power' = power /\ quiet' = quiet /\ load' = counter'
          /\ counter' = IF delay > MaxTimeout THEN MaxTimeout ELSE delay
          /\ told' \in {told, "RESET"}
      BY <2>5 DEF DogReset
    <3>3. dog' \in Dogs /\ dog'.valid
      BY <3>2 DEF Dogs
    <3>. QED BY <3>1, <3>2, <3>3, Ticks
  <2>6. CASE PowerOpen
    <3>1. /\ power' = [NoPower EXCEPT !.valid = TRUE] /\ told' = "UNKNOWN"
          /\ UNCHANGED <<dog, counter, load, quiet, wanted>>
      BY <2>6 DEF PowerOpen
    <3>. QED BY <3>1, NewHandles
  <2>7. CASE PowerFinalize
    <3>1. power' = NoPower /\ UNCHANGED <<dog, counter, load, quiet, wanted>>
      BY <2>7 DEF PowerFinalize
    <3>. QED BY <3>1, NewHandles
  <2>8. CASE HwPoll
    <3>1. quiet' = 0 /\ load' = load /\ wanted' = wanted
      BY <2>8 DEF HwPoll
    <3>2. power' \in Powers /\ SourceTold'
      <4>1. CASE power' = power /\ told' = told
        BY <4>1
      <4>2. CASE /\ power' = [power EXCEPT !.age = 0, !.source = Source]
                 /\ told' = Source \/ (told' = told /\ power.source = Source)
        <5>1. Source \in {"USB", "BATTERY"} /\ 0 \in 0 .. Never
          BY Ticks DEF Source
        <5>2. power' \in Powers /\ power'.source = Source /\ power'.valid = power.valid
          BY <4>2, <5>1 DEF Powers
        <5>. QED BY <4>2, <5>2
      <4>. QED BY <2>8, <4>1, <4>2 DEF HwPoll, PollPower
    <3>3. /\ dog' \in Dogs /\ counter' \in 0 .. Off /\ (counter' # Off => dog'.valid)
          /\ Counting'
      <4>1. CASE ~(dog.valid /\ ~dog.disable /\ dog.age >= Timeout)
        <5>1. dog' = dog /\ counter' = counter
          BY <2>8, <4>1 DEF HwPoll, PollDog
        <5>. QED BY <3>1, <4>1, <5>1, Ticks DEF Dogs
      <4>2. CASE dog.valid /\ ~dog.disable /\ dog.age >= Timeout
        <5>1. dog' = [dog EXCEPT !.age = 0] /\ counter' = IF counter = Off THEN Off ELSE load
          BY <2>8, <4>2 DEF HwPoll, PollDog
        <5>2. dog' \in Dogs /\ dog'.valid /\ ~dog'.disable /\ dog'.age = 0
          BY <4>2, <5>1, Ticks DEF Dogs
        <5>. QED BY <3>1, <4>2, <5>1, <5>2, Ticks
      <4>. QED BY <4>1, <4>2
    <3>4. quiet' \in 0 .. Never /\ load' \in 0 .. MaxTimeout /\ wanted' \in BOOLEAN
      BY <3>1, Ticks
    <3>. QED BY <3>2, <3>3, <3>4
  <2>9. CASE TimePasses
    <3>1. /\ counter # 0 /\ quiet' = Older(quiet)
          /\ counter' = IF counter = Off THEN Off ELSE counter - 1
          /\ dog' = [dog EXCEPT !.age = Older(dog.age)]
          /\ power' = [power EXCEPT !.age = Older(power.age)]
          /\ load' = load /\ wanted' = wanted /\ told' = told
      BY <2>9 DEF TimePasses, Up
    <3>2. \A age \in 0 .. Never : Older(age) \in 0 .. Never /\ (age < Never => Older(age) = age + 1)
                                  /\ (age = Never => Older(age) = Never)
      BY Ticks DEF Older
    <3>3. /\ dog' \in Dogs
          /\ dog'.valid = dog.valid /\ dog'.disable = dog.disable /\ dog'.age = Older(dog.age)
          /\ dog.age \in 0 .. Never
      BY <3>1, <3>2 DEF Dogs
    <3>4. power' \in Powers /\ power'.valid = power.valid /\ power'.source = power.source
      BY <3>1, <3>2 DEF Powers
    <3>5. Counting'
      <4>1. SUFFICES ASSUME counter' # Off, ~wanted' PROVE
                /\ dog'.valid /\ ~dog'.disable /\ load' = 2 * Timeout
                /\ \/ counter' = 2 * Timeout - dog'.age /\ dog'.age - quiet' < Timeout
                   \/ counter' <= 2 * Timeout /\ 2 * Timeout <= counter' + quiet' /\ dog'.age = Never
        BY Zenon DEF Counting
      <4>2. counter # Off /\ ~wanted /\ counter' = counter - 1
        BY <3>1, <4>1
      <4>3. /\ dog.valid /\ ~dog.disable /\ load = 2 * Timeout
            /\ \/ counter = 2 * Timeout - dog.age /\ dog.age - quiet < Timeout
               \/ counter <= 2 * Timeout /\ 2 * Timeout <= counter + quiet /\ dog.age = Never
        BY <4>2
      <4>4. counter \in Nat /\ quiet \in Nat /\ counter # 0
        BY <3>1, Ticks
      <4>. QED BY <3>1, <3>2, <3>3, <4>2, <4>3, <4>4, Ticks
    <3>6. counter' \in 0 .. Off /\ (counter' # Off => dog'.valid) /\ quiet' \in 0 .. Never
      BY <3>1, <3>2, <3>3, Ticks
    <3>. QED BY <3>1, <3>2, <3>3, <3>4, <3>5, <3>6
  <2>10. CASE VbusChanges
    BY <2>10 DEF VbusChanges
  <2>11. CASE Reboot
    <3>1. /\ dog' = NoDog /\ counter' = Off /\ load' = 0 /\ power' = NoPower
          /\ quiet' = 0 /\ wanted' \in BOOLEAN
      BY <2>11 DEF Reboot
    <3>. QED BY <3>1, Ticks, NewHandles
  <2>. QED BY <2>1, <2>2, <2>3, <2>4, <2>5, <2>6, <2>7, <2>8, <2>9, <2>10, <2>11 DEF DogStep
<1>. QED BY <1>1, <1>2

-----------------------------------------------------------------------------
(* The converter and the gauge.                                            *)

(* A value in the FIFO that the gauge will count: one that it does not     *)
(* ignore.                                                                 *)
Counted(k) == k > gauge.ignore \/ gauge.at = "sample"

Measuring ==
  gauge.at \in {"ignore", "sample"} =>
    /\ adc.fifo /\ adc.runs /\ adc.channel = Supply /\ Supply \in analog
    /\ ~gauge.mixed =>
         /\ gauge.sum = gauge.taken * volt
         /\ \A k \in 1 .. Len(queue) : Counted(k) => queue[k] = volt

AdcInv ==
  /\ adc \in [channel : Channels, fifo : BOOLEAN, runs : BOOLEAN]
  /\ queue \in Seq(Nat) /\ Len(queue) <= Depth
  /\ analog \subseteq Channels /\ volt \in Volts
  /\ gauge \in [at : {"idle", "ignore", "sample", "done"}, ignore : 0 .. Ignored, sum : Nat,
                taken : 0 .. SampleCount, percent : 0 .. 100, mixed : BOOLEAN]
  /\ gauge.at = "ignore" => gauge.taken = 0 /\ gauge.sum = 0
  /\ Measuring
  /\ BatteryMeasured

(* The battery percentage is one, whatever voltage is read.                *)
LEMMA PercentBounds ==
  ASSUME NEW v \in Nat
  PROVE  BatteryPercent(v) \in 0 .. 100
<1>. DEFINE d == MaxVolt - MinVolt
            w == Within(v) - MinVolt
<1>1. d \in Nat \ {0} /\ w \in 0 .. d
  BY AdcAssumption DEF Within
<1>. HIDE DEF d, w
<1>2. w * 100 \in Nat /\ w * 100 < 101 * d
  BY <1>1
<1>3. (w * 100) \div d \in Nat /\ (w * 100) \div d < 101
  BY <1>1, <1>2, Scaled
<1>4. BatteryPercent(v) = IF v = 0 THEN 0 ELSE (w * 100) \div d
  BY DEF BatteryPercent, d, w
<1>. QED BY <1>3, <1>4

(* The mean of equal values.                                               *)
LEMMA MeanOfEqual ==
  ASSUME NEW n \in Nat \ {0}, NEW v \in Nat
  PROVE  (n * v) \div n = v
OBVIOUS

(* What the converter adds to the FIFO while the gauge reads is the supply.*)
LEMMA QueuedKept ==
  ASSUME AdcInv, NEW value \in Nat, queue' = Queued(value)
  PROVE  /\ queue' \in Seq(Nat) /\ Len(queue') <= Depth
         /\ \A k \in 1 .. Len(queue') : IF k \in 1 .. Len(queue) THEN queue'[k] = queue[k]
                                        ELSE queue'[k] = value
BY AdcAssumption DEF AdcInv, Queued

-----------------------------------------------------------------------------
(* The volume.                                                             *)

Sizes == [Names -> Nat]
Possible == [Names -> SUBSET Nat]
Images == [there : BOOLEAN, formatted : BOOLEAN, files : Sizes]
Handles == [open : BOOLEAN, size : Nat, pos : Nat, len : Nat, at : Nat, dirty : BOOLEAN, failed : BOOLEAN,
            astray : BOOLEAN]
Commits == [call : {"create", "close", "change"}, name : Names]
Follows(f) == f.open => (f.pos = f.at \/ f.astray) /\ f.size = f.len
OpenFiles == {n \in Names : file[n].open}
Owned == iter + (IF mount.at \in {"format", "mount", "mounted"} THEN 1 ELSE 0)
Mounts == [at : {"none", "open", "alloc", "format", "mount", "mounted"}, existed : BOOLEAN,
           memory : BOOLEAN]
InUse == mount.at = "mounted"

(* The image holds no size but those the callers were told of.             *)
ImageSurvives == image.formatted => \A n \in Names : image.files[n] \in kept[n]

(* What littlefs wrote is on the disk, or in buffers that come through     *)
(* whole, unless the volume is in memory.                                  *)
DiskInv ==
  /\ host \in Images /\ image \in Images /\ kept \in Possible
  /\ mount.memory => InUse
  /\ ~InUse => image = host
  /\ ClosedSurvives
  /\ ~mount.memory => ImageSurvives

(* A commit is under way in a mounted volume only, and that of a handle    *)
(* before the handle is freed.                                             *)
CommitInv ==
  /\ commit \in Commits \cup {NoCommit}
  /\ ~InUse => commit = NoCommit
  /\ commit.call \in {"create", "close"} => file[commit.name].open

(* Files and iterators are open in mounted volumes only.                   *)
FileInv ==
  /\ file \in [Names -> Handles]
  /\ \A n \in Names : Follows(file[n])
  /\ ~InUse => iter = 0 /\ OpenFiles = {}
  /\ blocks = Cardinality(OpenFiles) + Owned

VolInv ==
  /\ mount \in Mounts
  /\ iter \in 0 .. 1
  /\ DiskInv
  /\ CommitInv
  /\ FileInv

(* The parts of a mount.                                                   *)
LEMMA MountSteps ==
  /\ Unmounted \in Mounts /\ Unmounted.at = "none" /\ ~Unmounted.memory
  /\ \A m \in Mounts, at \in {"open", "alloc", "format", "mount", "mounted"} :
       LET to == [m EXCEPT !.at = at] IN to \in Mounts /\ to.at = at /\ to.memory = m.memory
<1>1. Unmounted \in Mounts /\ Unmounted.at = "none" /\ ~Unmounted.memory
  BY DEF Unmounted, Mounts
<1>2. ASSUME NEW m \in Mounts, NEW at \in {"open", "alloc", "format", "mount", "mounted"}
      PROVE  [m EXCEPT !.at = at] \in Mounts /\ [m EXCEPT !.at = at].at = at
             /\ [m EXCEPT !.at = at].memory = m.memory
  BY DEF Mounts
<1>. QED BY <1>1, <1>2

(* The parts of an image.                                                  *)
LEMMA ImageParts ==
  /\ Nothing \in Sizes
  /\ NoImage \in Images /\ ~NoImage.formatted
  /\ [there |-> TRUE, formatted |-> TRUE, files |-> Nothing] \in Images
  /\ [there |-> TRUE, formatted |-> TRUE, files |-> Nothing].files = Nothing
  /\ \A i \in Images, f \in Sizes :
       /\ i.files \in Sizes
       /\ [i EXCEPT !.files = f] \in Images /\ [i EXCEPT !.files = f].files = f
  /\ \A i \in Images :
       /\ [i EXCEPT !.there = TRUE] \in Images /\ [i EXCEPT !.there = TRUE].files = i.files
       /\ [i EXCEPT !.there = TRUE].formatted = i.formatted
<1>1. Nothing \in Sizes
  BY VolumeAssumption DEF Nothing, Absent, Sizes
<1>2. NoImage \in Images /\ ~NoImage.formatted
  BY <1>1 DEF NoImage, Images
<1>3. /\ [there |-> TRUE, formatted |-> TRUE, files |-> Nothing] \in Images
      /\ [there |-> TRUE, formatted |-> TRUE, files |-> Nothing].files = Nothing
  BY <1>1 DEF Images
<1>4. ASSUME NEW i \in Images, NEW f \in Sizes
      PROVE  /\ i.files \in Sizes
             /\ [i EXCEPT !.files = f] \in Images /\ [i EXCEPT !.files = f].files = f
  BY DEF Images
<1>5. ASSUME NEW i \in Images
      PROVE  /\ [i EXCEPT !.there = TRUE] \in Images /\ [i EXCEPT !.there = TRUE].files = i.files
             /\ [i EXCEPT !.there = TRUE].formatted = i.formatted
  BY DEF Images
<1>. QED BY <1>1, <1>2, <1>3, <1>4, <1>5

(* What is known exactly is possible.                                      *)
LEMMA ExactlyIs ==
  ASSUME NEW files \in Sizes
  PROVE  Exactly(files) \in Possible /\ \A n \in Names : files[n] \in Exactly(files)[n]
<1>1. \A n \in Names : files[n] \in Nat
  BY DEF Sizes
<1>. QED BY <1>1 DEF Exactly, Possible

(* Of a commit that is programmed the disk may hold either side.           *)
LEMMA CommitKept ==
  ASSUME VolInv, Mounted, NEW files \in Sizes, NEW n \in Names,
         NEW op \in {"create", "close", "change"}, UNCHANGED <<host, mount>>,
         \/ Programmed(op, n, files) /\ (op # "change" => file'[n].open)
         \/ NotProgrammed
  PROVE  DiskInv' /\ CommitInv'
<1>1. InUse /\ InUse' /\ commit = NoCommit /\ NoCommit.call = "none"
  BY DEF Mounted, InUse, NoCommit
<1>2. CASE NotProgrammed
  BY <1>1, <1>2 DEF NotProgrammed, VolInv, DiskInv, CommitInv, ClosedSurvives, ImageSurvives, InUse
<1>3. CASE Programmed(op, n, files) /\ (op # "change" => file'[n].open)
  <2>1. image' \in Images /\ image'.files = files
    BY <1>3, ImageParts DEF Programmed, VolInv, DiskInv
  <2>2. kept \in Possible /\ host \in Images
    BY DEF VolInv, DiskInv
  <2>3. /\ kept' \in Possible /\ \A m \in Names : kept[m] \subseteq kept'[m]
        /\ ~mount.memory => \A m \in Names : files[m] \in kept'[m]
    <3>1. CASE mount.memory
      BY <1>3, <2>2, <3>1 DEF Programmed
    <3>2. CASE ~mount.memory
      <4>1. kept' = [m \in Names |-> kept[m] \cup {files[m]}]
        BY <1>3, <3>2 DEF Programmed
      <4>2. \A m \in Names : files[m] \in Nat /\ kept[m] \in SUBSET Nat
        BY <2>2 DEF Sizes, Possible
      <4>. QED BY <4>1, <4>2 DEF Possible
    <3>. QED BY <3>1, <3>2
  <2>4. DiskInv'
    BY <1>1, <2>1, <2>2, <2>3 DEF VolInv, DiskInv, ClosedSurvives, ImageSurvives, InUse
  <2>5. /\ commit' \in Commits /\ commit'.call = op /\ commit'.name = n
    BY <1>3 DEF Programmed, Commits
  <2>6. CommitInv'
    BY <1>1, <1>3, <2>5 DEF CommitInv
  <2>. QED BY <2>4, <2>6
<1>. QED BY <1>2, <1>3

(* Once all is flushed the disk holds the image.                           *)
LEMMA SyncedKept ==
  ASSUME VolInv, InUse, commit' = NoCommit, UNCHANGED <<image, mount>>,
         \/ Synced
         \/ host' \in {host, image} /\ ~mount.memory /\ kept' = kept
  PROVE  DiskInv' /\ CommitInv'
<1>1. CommitInv'
  BY DEF CommitInv, NoCommit
<1>2. InUse'
  BY DEF InUse
<1>3. CASE mount.memory
  BY <1>1, <1>2, <1>3 DEF Synced, Flushed, VolInv, DiskInv, ClosedSurvives, ImageSurvives, InUse
<1>4. CASE ~mount.memory /\ Synced
  <2>1. host' = image /\ kept' = Exactly(image.files) /\ image.files \in Sizes
    BY <1>4, ImageParts DEF Synced, Flushed, VolInv, DiskInv
  <2>2. kept' \in Possible /\ \A n \in Names : image.files[n] \in kept'[n]
    BY <2>1 DEF Exactly, Possible, Sizes
  <2>. QED BY <1>1, <1>2, <1>4, <2>1, <2>2 DEF VolInv, DiskInv, ClosedSurvives, ImageSurvives, InUse
<1>5. CASE host' \in {host, image} /\ ~mount.memory /\ kept' = kept
  BY <1>1, <1>2, <1>5 DEF VolInv, DiskInv, ClosedSurvives, ImageSurvives, InUse
<1>. QED BY <1>1, <1>3, <1>4, <1>5

(* A handle opens, closes or moves, and a block comes or goes with it.     *)
LEMMA HandleSet ==
  ASSUME VolInv, InUse, NEW n \in Names, NEW f \in Handles, Follows(f),
         file' = [file EXCEPT ![n] = f],
         blocks' = blocks + (IF f.open THEN 1 ELSE 0) - (IF file[n].open THEN 1 ELSE 0),
         mount' = mount, iter' = iter
  PROVE  FileInv'
<1>1. /\ file' \in [Names -> Handles] /\ file'[n] = f
      /\ \A m \in Names \ {n} : file'[m] = file[m]
  BY DEF VolInv, FileInv
<1>2. \A m \in Names : Follows(file'[m])
  BY <1>1 DEF VolInv, FileInv
<1>3. OpenFiles' = IF f.open THEN OpenFiles \cup {n} ELSE OpenFiles \ {n}
  BY <1>1 DEF OpenFiles
<1>4. IsFiniteSet(OpenFiles) /\ Cardinality(OpenFiles) \in Nat
  BY VolumeAssumption, FS_Subset, FS_CardinalityType DEF OpenFiles
<1>5. Cardinality(OpenFiles') = Cardinality(OpenFiles) + (IF f.open THEN 1 ELSE 0)
                                - (IF file[n].open THEN 1 ELSE 0)
  <2>1. n \in OpenFiles <=> file[n].open
    BY DEF OpenFiles
  <2>2. CASE f.open
    <3>1. Cardinality(OpenFiles \cup {n}) = IF n \in OpenFiles THEN Cardinality(OpenFiles)
                                            ELSE Cardinality(OpenFiles) + 1
      BY <1>4, FS_AddElement
    <3>. QED BY <1>3, <1>4, <2>1, <2>2, <3>1
  <2>3. CASE ~f.open
    <3>1. Cardinality(OpenFiles \ {n}) = IF n \in OpenFiles THEN Cardinality(OpenFiles) - 1
                                         ELSE Cardinality(OpenFiles)
      BY <1>4, FS_RemoveElement
    <3>. QED BY <1>3, <1>4, <2>1, <2>3, <3>1
  <2>. QED BY <2>2, <2>3
<1>6. Owned \in Nat /\ Owned' = Owned
  BY DEF Owned, VolInv
<1>7. blocks' = Cardinality(OpenFiles') + Owned'
  BY <1>4, <1>5, <1>6 DEF VolInv, FileInv
<1>8. InUse'
  BY DEF InUse
<1>. QED BY <1>1, <1>2, <1>7, <1>8 DEF FileInv

(* The handles the calls leave.                                            *)
LEMMA NewHandle ==
  ASSUME NEW len \in Nat
  PROVE  /\ NoFile \in Handles /\ ~NoFile.open
         /\ Opened(len) \in Handles /\ Opened(len).open /\ Follows(Opened(len))
         /\ \A dirty \in BOOLEAN : LET f == [Opened(len) EXCEPT !.dirty = dirty] IN
              f \in Handles /\ f.open /\ Follows(f)
<1>1. NoFile \in Handles /\ ~NoFile.open /\ NoFile.pos = 0 /\ NoFile.at = 0
  BY DEF NoFile, Handles
<1>2. \A f \in Handles : LET g == [f EXCEPT !.open = TRUE, !.size = len, !.len = len] IN
        g \in Handles /\ g.open /\ g.size = len /\ g.len = len /\ g.pos = f.pos /\ g.at = f.at
  BY DEF Handles
<1>3. /\ Opened(len) \in Handles /\ Opened(len).open /\ Opened(len).size = len
      /\ Opened(len).len = len /\ Opened(len).pos = 0 /\ Opened(len).at = 0
  BY <1>1, <1>2 DEF Opened
<1>4. \A f \in Handles, dirty \in BOOLEAN : LET g == [f EXCEPT !.dirty = dirty] IN
        /\ g \in Handles /\ g.open = f.open /\ g.size = f.size /\ g.len = f.len
        /\ g.pos = f.pos /\ g.at = f.at
  BY DEF Handles
<1>. QED BY <1>1, <1>3, <1>4 DEF Follows

(* A handle that moves, one whose seek failed, and one that writes, stays  *)
(* a handle that follows its file.                                         *)
LEMMA MovedHandle ==
  ASSUME NEW f \in Handles, f.open, Follows(f)
  PROVE  /\ \A to \in Nat : LET g == Moved(f, to) IN g \in Handles /\ g.open /\ Follows(g)
         /\ \A at \in Nat, failed \in BOOLEAN : LET g == Strayed(f, at, failed) IN
              g \in Handles /\ g.open /\ Follows(g)
         /\ \A at \in Nat, failed \in BOOLEAN : LET g == WrittenTo(f, at, failed) IN
              g \in Handles /\ g.open /\ Follows(g)
<1>1. ASSUME NEW to \in Nat
      PROVE  LET g == Moved(f, to) IN g \in Handles /\ g.open /\ Follows(g)
  BY <1>1 DEF Handles, Follows, Moved
<1>2. ASSUME NEW at \in Nat, NEW failed \in BOOLEAN
      PROVE  LET g == WrittenTo(f, at, failed) IN g \in Handles /\ g.open /\ Follows(g)
  <2>. DEFINE len == IF at > f.len THEN at ELSE f.len
              bad == f.failed \/ failed
  <2>1. len \in Nat /\ bad \in BOOLEAN
    BY DEF Handles
  <2>2. WrittenTo(f, at, failed) = [f EXCEPT !.at = at, !.len = len, !.pos = at, !.size = len,
                                             !.dirty = TRUE, !.failed = bad, !.astray = FALSE]
    BY DEF WrittenTo
  <2>. HIDE DEF len, bad
  <2>3. LET g == [f EXCEPT !.at = at, !.len = len, !.pos = at, !.size = len, !.dirty = TRUE,
                           !.failed = bad, !.astray = FALSE]
        IN g \in Handles /\ g.open /\ g.pos = g.at /\ g.size = g.len
    BY <2>1 DEF Handles
  <2>. QED BY <2>2, <2>3 DEF Follows
<1>3. ASSUME NEW at \in Nat, NEW failed \in BOOLEAN
      PROVE  LET g == Strayed(f, at, failed) IN g \in Handles /\ g.open /\ Follows(g)
  <2>. DEFINE bad == f.failed \/ failed
              lost == f.astray \/ at # f.at
              g == [f EXCEPT !.at = at, !.failed = bad, !.astray = lost]
  <2>1. bad \in BOOLEAN /\ lost \in BOOLEAN
    BY DEF Handles
  <2>2. f.pos = at \/ lost
    BY <1>3 DEF Follows
  <2>. HIDE DEF bad, lost
  <2>3. /\ g \in Handles /\ g.open /\ g.at = at /\ g.astray = lost /\ g.pos = f.pos
        /\ g.size = f.size /\ g.len = f.len
    BY <2>1 DEF Handles
  <2>4. Follows(g)
    BY <2>2, <2>3 DEF Follows
  <2>. QED BY <2>3, <2>4 DEF Strayed, bad, lost
<1>. QED BY <1>1, <1>2, <1>3

(* The volume: the strengthening implies what is claimed, and every step keeps it. *)
LEMMA VolKept ==
  /\ VolInit => VolInv
  /\ VolInv => FilesSafe /\ blocks \in 0 .. Cardinality(Names) + 2
  /\ VolInv /\ [VolStep]_volVars => VolInv'
<1>1. ASSUME VolInit PROVE VolInv
  <2>1. /\ mount = Unmounted /\ iter = 0 /\ host = NoImage /\ image = NoImage
        /\ kept = Exactly(Nothing) /\ commit = NoCommit
        /\ file = [n \in Names |-> NoFile] /\ blocks = 0
    BY <1>1 DEF VolInit
  <2>2. ~InUse /\ mount \in Mounts
    BY <2>1, MountSteps DEF InUse
  <2>3. DiskInv
    BY <2>1, <2>2, ImageParts, ExactlyIs, MountSteps DEF DiskInv, ClosedSurvives, ImageSurvives
  <2>4. CommitInv
    BY <2>1 DEF CommitInv, NoCommit
  <2>5. OpenFiles = {} /\ file \in [Names -> Handles] /\ \A n \in Names : Follows(file[n])
    BY <2>1, NewHandle DEF OpenFiles, Follows
  <2>6. Owned = 0
    BY <2>1, MountSteps DEF Owned
  <2>. QED BY <2>1, <2>2, <2>3, <2>4, <2>5, <2>6, FS_EmptySet DEF VolInv, FileInv
<1>2. ASSUME VolInv PROVE FilesSafe /\ blocks \in 0 .. Cardinality(Names) + 2
  <2>1. /\ Cardinality(OpenFiles) \in Nat /\ Cardinality(Names) \in Nat
        /\ Cardinality(OpenFiles) <= Cardinality(Names)
    <3>1. OpenFiles \in SUBSET Names /\ IsFiniteSet(Names)
      BY VolumeAssumption DEF OpenFiles
    <3>2. IsFiniteSet(OpenFiles) /\ Cardinality(OpenFiles) <= Cardinality(Names)
      BY <3>1, FS_Subset
    <3>. QED BY <3>1, <3>2, FS_CardinalityType
  <2>2. Owned \in 0 .. 2 /\ iter \in 0 .. 1
    BY <1>2 DEF Owned, VolInv
  <2>3. blocks = Cardinality(OpenFiles) + Owned
    BY <1>2 DEF VolInv, FileInv
  <2>4. BlocksOwned
    BY <2>1, <2>2, <2>3 DEF BlocksOwned, OpenFiles, Owned
  <2>5. ClosedSurvives /\ HandleFollows
    BY <1>2 DEF VolInv, FileInv, DiskInv, ClosedSurvives, HandleFollows, Follows
  <2>. QED BY <2>1, <2>2, <2>3, <2>4, <2>5 DEF FilesSafe
<1>3. ASSUME VolInv, [VolStep]_volVars PROVE VolInv'
  <2>. USE <1>3
  <2>1. CASE UNCHANGED volVars
    BY <2>1 DEF volVars, VolInv, DiskInv, CommitInv, FileInv, InUse, ClosedSurvives, ImageSurvives, OpenFiles, Owned
  <2>0. blocks \in Int /\ Cardinality(OpenFiles) \in Nat
    BY <1>2, VolumeAssumption, FS_Subset, FS_CardinalityType DEF OpenFiles
  <2>2. ASSUME mount' \in Mounts, mount'.at # "mounted", ~mount'.memory, ~InUse, commit' = commit,
               iter' = iter, file' = file, kept' \in Possible, host' \in Images, image' = host', ClosedSurvives',
               blocks' = blocks + (IF mount'.at \in {"format", "mount"} THEN 1 ELSE 0)
                                - (IF mount.at \in {"format", "mount"} THEN 1 ELSE 0)
        PROVE  VolInv'
    <3>1. ~InUse' /\ commit = NoCommit
      BY <2>2 DEF InUse, VolInv, CommitInv
    <3>2. DiskInv' /\ CommitInv' /\ mount' \in Mounts /\ iter' \in 0 .. 1
      BY <2>2, <3>1 DEF VolInv, DiskInv, CommitInv, ClosedSurvives, ImageSurvives, NoCommit
    <3>3. OpenFiles' = OpenFiles /\ OpenFiles = {} /\ iter = 0
      BY <2>2 DEF OpenFiles, VolInv, FileInv
    <3>4. FileInv'
      BY <2>2, <3>1, <3>3, FS_EmptySet DEF VolInv, FileInv, Owned, InUse
    <3>. QED BY <3>2, <3>4 DEF VolInv
  <2>3. /\ host \in Images /\ kept \in Possible /\ mount \in Mounts
        /\ ClosedSurvives /\ (~InUse => image = host /\ ~mount.memory)
    BY DEF VolInv, DiskInv
  <2>4. /\ Unlinked \in Images
        /\ Unlinked.formatted => host.formatted /\ Unlinked.files = host.files
    BY <2>3, ImageParts DEF Unlinked
  <2>20. ASSUME host' \in Images, kept' = kept,
                host'.formatted => host.formatted /\ host'.files = host.files
         PROVE  ClosedSurvives' /\ kept' \in Possible
    BY <2>3, <2>20 DEF ClosedSurvives
  <2>5. CASE Stat
    <3>1. /\ mount.at = "none" /\ mount' = [Unmounted EXCEPT !.at = "open", !.existed = host.there]
          /\ host' = host /\ image' = image /\ UNCHANGED <<commit, file, iter, blocks, kept>>
      BY <2>5 DEF Stat
    <3>2. mount' \in Mounts /\ mount'.at = "open" /\ ~mount'.memory
      <4>1. host.there \in BOOLEAN
        BY <2>3 DEF Images
      <4>. QED BY <3>1, <4>1 DEF Unmounted, Mounts
    <3>3. blocks' = blocks + (IF mount'.at \in {"format", "mount"} THEN 1 ELSE 0)
                           - (IF mount.at \in {"format", "mount"} THEN 1 ELSE 0)
      BY <2>0, <3>1, <3>2
    <3>. QED BY <2>2, <2>3, <2>20, <3>1, <3>2, <3>3 DEF InUse
  <2>6. CASE OpenImage
    <3>1. /\ mount.at = "open" /\ UNCHANGED <<commit, file, iter, blocks, kept>>
          /\ host' \in {host, [host EXCEPT !.there = TRUE]} /\ (host' = host => image' \in {host', image})
          /\ (host' # host => image' = host')
          /\ mount' \in {[mount EXCEPT !.at = "alloc"], Unmounted}
      BY <2>6 DEF OpenImage
    <3>2. /\ host' \in Images /\ ClosedSurvives' /\ image' = host'
      BY <2>3, <2>20, <3>1, ImageParts DEF InUse
    <3>3. mount' \in Mounts /\ mount'.at \in {"none", "alloc"} /\ ~mount'.memory
      <4>1. mount \in Mounts /\ ~mount.memory
        BY <2>3, <3>1 DEF InUse
      <4>2. LET m == [mount EXCEPT !.at = "alloc"] IN m \in Mounts /\ m.at = "alloc" /\ ~m.memory
        BY <4>1 DEF Mounts
      <4>. QED BY <3>1, <4>2, MountSteps
    <3>4. blocks' = blocks + (IF mount'.at \in {"format", "mount"} THEN 1 ELSE 0)
                           - (IF mount.at \in {"format", "mount"} THEN 1 ELSE 0)
      BY <2>0, <3>1, <3>3
    <3>5. ~InUse
      BY <3>1 DEF InUse
    <3>. QED BY <2>2, <2>3, <3>1, <3>2, <3>3, <3>4, <3>5
  <2>7. CASE Allocate
    <3>1. /\ mount.at = "alloc" /\ UNCHANGED <<commit, file, iter, kept>>
          /\ \/ mount' = Unmounted /\ host' = Unlinked /\ image' = Unlinked /\ blocks' = blocks
             \/ /\ mount' = [mount EXCEPT !.at = IF mount.existed THEN "mount" ELSE "format"]
                /\ blocks' = blocks + 1 /\ UNCHANGED <<host, image>>
      BY <2>7 DEF Allocate, Fail
    <3>2. CASE mount' = Unmounted /\ host' = Unlinked /\ image' = Unlinked /\ blocks' = blocks
      BY <1>2, <2>2, <2>3, <2>4, <2>20, <3>1, <3>2, MountSteps DEF InUse
    <3>3. CASE /\ mount' = [mount EXCEPT !.at = IF mount.existed THEN "mount" ELSE "format"]
               /\ blocks' = blocks + 1 /\ UNCHANGED <<host, image>>
      <4>1. mount' \in Mounts /\ mount'.at \in {"mount", "format"} /\ ~mount'.memory
        <5>1. mount \in Mounts /\ ~mount.memory
          BY <2>3, <3>1 DEF InUse
        <5>2. \A at \in {"mount", "format"} : LET m == [mount EXCEPT !.at = at] IN
                m \in Mounts /\ m.at = at /\ ~m.memory
          BY <5>1 DEF Mounts
        <5>3. (IF mount.existed THEN "mount" ELSE "format") \in {"mount", "format"}
          OBVIOUS
        <5>. QED BY <3>3, <5>2, <5>3
      <4>2. blocks' = blocks + (IF mount'.at \in {"format", "mount"} THEN 1 ELSE 0)
                             - (IF mount.at \in {"format", "mount"} THEN 1 ELSE 0)
        BY <2>0, <3>1, <3>3, <4>1
      <4>3. ~InUse
        BY <3>1 DEF InUse
      <4>. QED BY <2>2, <2>3, <2>20, <3>1, <3>3, <4>1, <4>2, <4>3
    <3>. QED BY <3>1, <3>2, <3>3
  <2>8. CASE Format
    <3>1. /\ mount.at = "format" /\ UNCHANGED <<commit, file, iter>>
          /\ \/ /\ host' = [there |-> TRUE, formatted |-> TRUE, files |-> Nothing] /\ image' = host'
                /\ kept' = Exactly(Nothing) /\ mount' = [mount EXCEPT !.at = "mount"] /\ UNCHANGED blocks
             \/ /\ mount' = Unmounted /\ host' = Unlinked /\ image' = Unlinked
                /\ blocks' = blocks - 1 /\ kept' = kept
      BY <2>8 DEF Format, Fail
    <3>2. CASE /\ mount' = Unmounted /\ host' = Unlinked /\ image' = Unlinked
               /\ blocks' = blocks - 1 /\ kept' = kept
      BY <1>2, <2>2, <2>3, <2>4, <2>20, <3>1, <3>2, MountSteps DEF InUse
    <3>3. CASE /\ host' = [there |-> TRUE, formatted |-> TRUE, files |-> Nothing] /\ image' = host'
               /\ kept' = Exactly(Nothing) /\ mount' = [mount EXCEPT !.at = "mount"] /\ UNCHANGED blocks
      <4>1. mount' \in Mounts /\ mount'.at = "mount" /\ ~mount'.memory
        BY <2>3, <3>1, <3>3, MountSteps DEF InUse
      <4>2. host' \in Images /\ ClosedSurvives' /\ kept' \in Possible
        BY <3>3, ImageParts, ExactlyIs DEF ClosedSurvives
      <4>3. blocks' = blocks + (IF mount'.at \in {"format", "mount"} THEN 1 ELSE 0)
                             - (IF mount.at \in {"format", "mount"} THEN 1 ELSE 0)
        BY <2>0, <3>1, <3>3, <4>1
      <4>4. ~InUse
        BY <3>1 DEF InUse
      <4>. QED BY <2>2, <3>1, <3>3, <4>1, <4>2, <4>3, <4>4
    <3>. QED BY <3>1, <3>2, <3>3
  <2>9. CASE MountImage
    <3>1. /\ mount.at = "mount" /\ UNCHANGED <<commit, file, iter, kept>>
          /\ \/ mount' = [mount EXCEPT !.at = "mounted"] /\ UNCHANGED <<host, image, blocks>>
             \/ mount' = Unmounted /\ host' = Unlinked /\ image' = Unlinked /\ blocks' = blocks - 1
      BY <2>9 DEF MountImage, Fail
    <3>2. CASE mount' = Unmounted /\ host' = Unlinked /\ image' = Unlinked /\ blocks' = blocks - 1
      BY <1>2, <2>2, <2>3, <2>4, <2>20, <3>1, <3>2, MountSteps DEF InUse
    <3>3. CASE mount' = [mount EXCEPT !.at = "mounted"] /\ UNCHANGED <<host, image, blocks>>
      <4>1. mount' \in Mounts /\ mount'.at = "mounted" /\ mount'.memory = mount.memory
        BY <2>3, <3>3, MountSteps
      <4>2. DiskInv'
        BY <2>3, <3>1, <3>3, <4>1 DEF VolInv, DiskInv, ClosedSurvives, ImageSurvives, InUse
      <4>4. CommitInv'
        BY <3>1, <3>3, <4>1 DEF VolInv, CommitInv, InUse
      <4>3. FileInv'
        BY <3>1, <3>3, <4>1 DEF VolInv, FileInv, OpenFiles, Owned, InUse
      <4>. QED BY <3>1, <4>1, <4>2, <4>3, <4>4 DEF VolInv
    <3>. QED BY <3>1, <3>2, <3>3
  <2>10. CASE InitMemory
    <3>1. /\ mount.at = "none" /\ UNCHANGED <<host, commit, file, iter, kept>>
          /\ \/ /\ mount' = [Unmounted EXCEPT !.at = "mounted", !.memory = TRUE]
                /\ image' = [there |-> TRUE, formatted |-> TRUE, files |-> Nothing]
                /\ blocks' = blocks + 1
             \/ mount' = Unmounted /\ UNCHANGED <<image, blocks>>
      BY <2>10 DEF InitMemory
    <3>2. CASE mount' = Unmounted /\ UNCHANGED <<image, blocks>>
      BY <1>2, <2>2, <2>3, <2>20, <3>1, <3>2, MountSteps DEF InUse
    <3>3. CASE /\ mount' = [Unmounted EXCEPT !.at = "mounted", !.memory = TRUE]
               /\ image' = [there |-> TRUE, formatted |-> TRUE, files |-> Nothing]
               /\ blocks' = blocks + 1
      <4>1. mount' \in Mounts /\ mount'.at = "mounted" /\ mount'.memory
        BY <3>3 DEF Unmounted, Mounts
      <4>2. DiskInv'
        BY <2>3, <3>1, <3>3, <4>1, ImageParts DEF DiskInv, ClosedSurvives, ImageSurvives, InUse
      <4>3. OpenFiles' = OpenFiles /\ OpenFiles = {}
        BY <3>1 DEF VolInv, FileInv, OpenFiles, InUse
      <4>4. FileInv'
        <5>1. iter = 0 /\ blocks = 0
          BY <3>1, <4>3, FS_EmptySet DEF VolInv, FileInv, Owned, InUse
        <5>2. Owned' = 1 /\ Cardinality(OpenFiles') = 0 /\ blocks' = 1
          BY <3>1, <3>3, <4>1, <4>3, <5>1, FS_EmptySet DEF Owned
        <5>. QED BY <3>1, <4>1, <4>3, <5>2 DEF VolInv, FileInv, InUse
      <4>5. CommitInv'
        BY <3>1, <3>3, <4>1 DEF VolInv, CommitInv, InUse
      <4>. QED BY <3>1, <4>1, <4>2, <4>4, <4>5 DEF VolInv
    <3>. QED BY <3>1, <3>2, <3>3
  <2>11. ASSUME Finalize \/ Crash PROVE VolInv'
    <3>1. /\ mount' = Unmounted /\ image' = host' /\ kept' = kept
          /\ host' \in {host, Flushed}
      BY <2>11 DEF Finalize, Crash
    <3>2. host' \in Images /\ ClosedSurvives'
      <4>1. CASE mount.memory
        BY <3>1, <4>1, <2>3 DEF Flushed, ClosedSurvives, ImageSurvives
      <4>2. CASE ~mount.memory
        BY <3>1, <4>2, <2>3 DEF Flushed, ClosedSurvives, ImageSurvives, VolInv, DiskInv
      <4>. QED BY <4>1, <4>2
    <3>3. DiskInv' /\ mount' \in Mounts /\ ~InUse'
      BY <2>3, <3>1, <3>2, MountSteps DEF DiskInv, ClosedSurvives, ImageSurvives, InUse
    <3>4. /\ OpenFiles' = {} /\ iter' = 0 /\ iter' \in 0 .. 1 /\ blocks' = 0 /\ commit' = NoCommit
          /\ file' \in [Names -> Handles] /\ \A n \in Names : Follows(file'[n])
      <4>1. CASE Finalize
        <5>1. /\ OpenFiles = {} /\ iter = 0 /\ UNCHANGED <<commit, file, iter>> /\ blocks' = blocks - 1
              /\ mount.at = "mounted" /\ commit = NoCommit
          BY <4>1 DEF Finalize, OpenFiles, Mounted
        <5>2. blocks = 1
          BY <1>2, <5>1, FS_EmptySet DEF VolInv, FileInv, Owned
        <5>. QED BY <5>1, <5>2 DEF VolInv, FileInv, OpenFiles
      <4>2. CASE Crash
        BY <4>2, NewHandle DEF Crash, OpenFiles, Follows
      <4>. QED BY <2>11, <4>1, <4>2
    <3>5. CommitInv'
      BY <3>4 DEF CommitInv, NoCommit
    <3>6. Owned' = 0
      BY <3>1, <3>4, MountSteps DEF Owned
    <3>. QED BY <3>3, <3>4, <3>5, <3>6, FS_EmptySet DEF VolInv, FileInv
  <2>12. CASE Readdir
    <3>1. /\ Mounted /\ UNCHANGED <<host, image, mount, commit, file, kept>>
          /\ iter' \in 0 .. 1
          /\ blocks' = (blocks + iter') - iter
      <4>1. iter \in 0 .. 1
        BY DEF VolInv
      <4>. QED BY <2>0, <2>12, <4>1 DEF Readdir
    <3>2. InUse /\ InUse'
      BY <3>1 DEF Mounted, InUse
    <3>3. DiskInv' /\ CommitInv'
      BY <3>1, <3>2 DEF VolInv, DiskInv, CommitInv, ClosedSurvives, ImageSurvives, InUse
    <3>4. OpenFiles' = OpenFiles
      BY <3>1 DEF OpenFiles
    <3>5. FileInv'
      BY <2>0, <3>1, <3>2, <3>4 DEF VolInv, FileInv, Owned, InUse
    <3>. QED BY <3>1, <3>3, <3>5 DEF VolInv
  <2>13. ASSUME NEW n \in Names, Create(n) \/ OpenFile(n) PROVE VolInv'
    <3>1. /\ Mounted /\ ~file[n].open /\ mount' = mount /\ iter' = iter /\ InUse
          /\ commit = NoCommit
      BY <2>13 DEF Create, OpenFile, Mounted, InUse
    <3>2. image.files \in Sizes /\ image.files[n] \in Nat /\ [image.files EXCEPT ![n] = 0] \in Sizes
      BY ImageParts, ZenonT(60) DEF VolInv, DiskInv, Sizes
    <3>3. \/ file' = file /\ blocks' = blocks /\ NotProgrammed
          \/ \E f \in Handles : /\ f.open /\ Follows(f) /\ file' = [file EXCEPT ![n] = f]
                                /\ blocks' = blocks + 1
      <4>1. ASSUME OpenFile(n), file' # file \/ blocks' # blocks
            PROVE  file' = [file EXCEPT ![n] = Opened(image.files[n])] /\ blocks' = blocks + 1
        BY <4>1 DEF OpenFile
      <4>2. CASE OpenFile(n)
        BY <3>2, <4>1, <4>2, NewHandle DEF OpenFile, NotProgrammed
      <4>3. CASE Create(n)
        <5>1. \/ \E dirty \in BOOLEAN : /\ file' = [file EXCEPT ![n] = [Opened(0) EXCEPT !.dirty = dirty]]
                                        /\ blocks' = blocks + 1
              \/ UNCHANGED <<file, blocks>> /\ NotProgrammed
          BY <4>3, image.files[n] = Absent \/ image.files[n] # Absent DEF Create
        <5>. QED BY <5>1, NewHandle
      <4>. QED BY <2>13, <4>2, <4>3
    <3>4. UNCHANGED host /\ \/ NotProgrammed
                            \/ /\ Programmed("create", n, [image.files EXCEPT ![n] = 0])
                               /\ \E f \in Handles : f.open /\ file' = [file EXCEPT ![n] = f]
      <4>1. [Opened(0) EXCEPT !.dirty = FALSE] \in Handles /\ [Opened(0) EXCEPT !.dirty = FALSE].open
        BY NewHandle
      <4>2. CASE OpenFile(n)
        BY <4>2 DEF OpenFile, NotProgrammed
      <4>3. CASE Create(n) /\ image.files[n] = Absent
        <5>1. UNCHANGED host /\ \/ NotProgrammed
                                \/ /\ Programmed("create", n, [image.files EXCEPT ![n] = 0])
                                   /\ file' = [file EXCEPT ![n] = [Opened(0) EXCEPT !.dirty = FALSE]]
          BY <4>3 DEF Create
        <5>. QED BY <4>1, <5>1
      <4>4. CASE Create(n) /\ image.files[n] # Absent
        BY <4>4 DEF Create
      <4>. QED BY <2>13, <4>2, <4>3, <4>4
    <3>5. file \in [Names -> Handles]
      BY DEF VolInv, FileInv
    <3>6. DiskInv' /\ CommitInv'
      <4>1. \/ NotProgrammed
            \/ Programmed("create", n, [image.files EXCEPT ![n] = 0]) /\ file'[n].open
        BY <3>4, <3>5
      <4>. QED BY <3>1, <3>2, <3>4, <4>1, CommitKept
    <3>7. CASE file' = file /\ blocks' = blocks
      BY <3>1, <3>6, <3>7 DEF VolInv, FileInv, OpenFiles, Owned, InUse
    <3>8. ASSUME NEW f \in Handles, f.open, Follows(f), file' = [file EXCEPT ![n] = f],
                 blocks' = blocks + 1
          PROVE  VolInv'
      <4>1. blocks' = blocks + (IF f.open THEN 1 ELSE 0) - (IF file[n].open THEN 1 ELSE 0)
        BY <2>0, <3>1, <3>8
      <4>2. FileInv'
        BY <3>1, <3>8, <4>1, HandleSet
      <4>. QED BY <3>1, <3>6, <4>2 DEF VolInv
    <3>. QED BY <3>3, <3>7, <3>8
  <2>14. ASSUME NEW n \in Names, file[n].open, InUse, UNCHANGED <<mount, iter>>, Freed(n),
                DiskInv' /\ CommitInv'
         PROVE  VolInv'
    <3>1. NoFile \in Handles /\ ~NoFile.open /\ Follows(NoFile)
      BY NewHandle DEF Follows
    <3>2. file' = [file EXCEPT ![n] = NoFile] /\ blocks' = blocks - 1
      BY <2>14 DEF Freed
    <3>3. blocks' = blocks + (IF NoFile.open THEN 1 ELSE 0) - (IF file[n].open THEN 1 ELSE 0)
      BY <2>0, <2>14, <3>1, <3>2
    <3>4. FileInv'
      BY <2>14, <3>1, <3>2, <3>3, HandleSet
    <3>. QED BY <2>14, <3>4 DEF VolInv
  <2>15. ASSUME InUse, UNCHANGED <<mount, file, iter, blocks>>, DiskInv' /\ CommitInv' PROVE VolInv'
    BY <2>15 DEF VolInv, FileInv, OpenFiles, Owned, InUse
  <2>16. ASSUME NEW n \in Names, Close(n) PROVE VolInv'
    <3>1. Mounted /\ file[n].open /\ UNCHANGED <<host, mount, iter>> /\ InUse
      BY <2>16 DEF Close, Mounted, InUse
    <3>2. [image.files EXCEPT ![n] = file[n].len] \in Sizes /\ image.files \in Sizes
      <4>1. image.files \in Sizes
        BY ImageParts DEF VolInv, DiskInv
      <4>2. file[n].len \in Nat
        BY DEF VolInv, FileInv, Handles
      <4>. QED BY <4>1, <4>2 DEF Sizes
    <3>3. CASE /\ Programmed("close", n, [image.files EXCEPT ![n] = file[n].len])
               /\ UNCHANGED <<file, blocks>>
      BY <2>15, <3>1, <3>2, <3>3, CommitKept
    <3>4. CASE Freed(n) /\ NotProgrammed
      BY <2>14, <3>1, <3>2, <3>4, CommitKept
    <3>. QED BY <2>16, <3>3, <3>4 DEF Close
  <2>17. CASE CommitSynced \/ SyncFails
    <3>1. /\ commit # NoCommit /\ commit' = NoCommit /\ UNCHANGED <<image, mount, iter>>
          /\ \/ Synced
             \/ host' \in {host, image} /\ ~mount.memory /\ kept' = kept
          /\ \/ commit.call \in {"create", "close"} /\ Freed(commit.name)
             \/ UNCHANGED <<file, blocks>>
      <4>1. commit = NoCommit \/ commit.call \in {"create", "close", "change"}
        BY DEF VolInv, CommitInv, Commits
      <4>. QED BY <2>17, <4>1 DEF CommitSynced, SyncFails
    <3>2. InUse /\ (commit.call \in {"create", "close"} => file[commit.name].open)
          /\ commit.name \in Names
      BY <3>1 DEF VolInv, CommitInv, Commits
    <3>3. DiskInv' /\ CommitInv'
      BY <3>1, <3>2, SyncedKept
    <3>. QED BY <2>14, <2>15, <3>1, <3>2, <3>3
  <2>18. ASSUME NEW n \in Names, \/ \E offset \in 0 .. MaxSize : Seek(n, offset)
                                 \/ SeekFails(n) \/ ReadFile(n) \/ WriteFile(n)
         PROVE  VolInv'
    <3>1. /\ Mounted /\ file[n].open /\ UNCHANGED <<host, image, mount, commit, iter, blocks, kept>>
          /\ InUse /\ commit = NoCommit
      BY <2>18 DEF Seek, SeekFails, ReadFile, WriteFile, Mounted, InUse
    <3>2. /\ file \in [Names -> Handles] /\ file[n] \in Handles /\ file[n].at \in Nat
          /\ Follows(file[n])
      BY DEF VolInv, FileInv, Handles
    <3>3. \E f \in Handles : f.open /\ Follows(f) /\ file' = [file EXCEPT ![n] = f]
      <4>1. PICK f : /\ file' = [file EXCEPT ![n] = f]
                     /\ \/ \E to \in Nat : f = Moved(file[n], to)
                        \/ \E at \in Nat, failed \in BOOLEAN : f = Strayed(file[n], at, failed)
                        \/ \E at \in Nat, failed \in BOOLEAN : f = WrittenTo(file[n], at, failed)
        <5>1. 0 .. MaxSize \subseteq Nat /\ file[n].at .. MaxSize \subseteq Nat /\ file[n].at + 1 \in Nat
          BY <3>2, VolumeAssumption
        <5>2. CASE \E offset \in 0 .. MaxSize : Seek(n, offset)
          BY <3>2, <5>1, <5>2 DEF Seek
        <5>3. CASE SeekFails(n)
          BY <3>2, <5>1, <5>3 DEF SeekFails
        <5>4. CASE ReadFile(n)
          BY <3>2, <5>1, <5>4 DEF ReadFile
        <5>5. CASE WriteFile(n)
          BY <3>2, <5>1, <5>5 DEF WriteFile
        <5>. QED BY <2>18, <5>2, <5>3, <5>4, <5>5
      <4>. QED BY <3>1, <3>2, <4>1, MovedHandle
    <3>4. InUse'
      BY <3>1 DEF InUse
    <3>5. DiskInv' /\ CommitInv'
      BY <3>1, <3>4 DEF VolInv, DiskInv, CommitInv, ClosedSurvives, ImageSurvives, NoCommit, InUse
    <3>6. FileInv'
      <4>1. PICK f \in Handles : f.open /\ Follows(f) /\ file' = [file EXCEPT ![n] = f]
        BY <3>3
      <4>2. blocks' = blocks + (IF f.open THEN 1 ELSE 0) - (IF file[n].open THEN 1 ELSE 0)
        BY <2>0, <3>1, <4>1
      <4>. QED BY <3>1, <4>1, <4>2, HandleSet
    <3>. QED BY <3>1, <3>5, <3>6 DEF VolInv
  <2>19. ASSUME NEW from \in Names, NEW to \in Names, Move(from, to) \/ RemoveFile(from)
         PROVE  VolInv'
    <3>1. Mounted /\ InUse /\ UNCHANGED <<host, mount, file, iter, blocks>>
      BY <2>19 DEF Move, RemoveFile, Change, Mounted, InUse
    <3>2. /\ [image.files EXCEPT ![from] = Absent] \in Sizes
          /\ [image.files EXCEPT ![to] = image.files[from], ![from] = Absent] \in Sizes
      <4>1. image.files \in Sizes /\ Absent \in Nat
        <5>1. MaxSize + 1 \in Nat
          BY VolumeAssumption
        <5>. QED BY <5>1, ImageParts DEF VolInv, DiskInv, Absent
      <4>. QED BY <4>1 DEF Sizes
    <3>3. \E n \in Names, files \in Sizes : Programmed("change", n, files) \/ NotProgrammed
      BY <2>19, <3>2 DEF Move, RemoveFile, Change
    <3>4. DiskInv' /\ CommitInv'
      BY <3>1, <3>3, CommitKept
    <3>. QED BY <2>15, <3>1, <3>4
  <2>. QED BY <2>1, <2>5, <2>6, <2>7, <2>8, <2>9, <2>10, <2>11, <2>12, <2>13, <2>16, <2>17, <2>18, <2>19
           DEF VolStep
<1>. QED BY <1>1, <1>2, <1>3

-----------------------------------------------------------------------------
(* The gauge, step by step.                                                *)
Gauges == [at : {"idle", "ignore", "sample", "done"}, ignore : 0 .. Ignored, sum : Nat,
           taken : 0 .. SampleCount, percent : 0 .. 100, mixed : BOOLEAN]
Converters == [channel : Channels, fifo : BOOLEAN, runs : BOOLEAN]

(* What the gauge is made of after each of its steps.                      *)
LEMMA GaugeParts ==
  /\ NoGauge \in Gauges /\ NoGauge.at = "idle"
  /\ \A mixed \in BOOLEAN :
       LET g == [NoGauge EXCEPT !.at = "ignore", !.ignore = Ignored, !.mixed = mixed]
       IN  /\ g \in Gauges /\ g.at = "ignore" /\ g.ignore = Ignored /\ g.taken = 0 /\ g.sum = 0
           /\ g.mixed = mixed
  /\ \A g \in Gauges : /\ g.ignore > 0 => [g EXCEPT !.ignore = @ - 1] \in Gauges
                       /\ [g EXCEPT !.at = "sample"] \in Gauges
<1>1. NoGauge \in Gauges /\ NoGauge.at = "idle"
  BY AdcAssumption DEF NoGauge, Gauges, Ignored
<1>2. ASSUME NEW mixed \in BOOLEAN
      PROVE  LET g == [NoGauge EXCEPT !.at = "ignore", !.ignore = Ignored, !.mixed = mixed]
             IN  /\ g \in Gauges /\ g.at = "ignore" /\ g.ignore = Ignored /\ g.taken = 0 /\ g.sum = 0
                 /\ g.mixed = mixed
  <2>0. Ignored \in 0 .. Ignored
    BY DEF Ignored
  <2>1. \A g \in Gauges : [g EXCEPT !.at = "ignore", !.ignore = Ignored, !.mixed = mixed] \in Gauges
    BY <2>0 DEF Gauges
  <2>2. LET g == [NoGauge EXCEPT !.at = "ignore", !.ignore = Ignored, !.mixed = mixed]
        IN  g.at = "ignore" /\ g.ignore = Ignored /\ g.taken = 0 /\ g.sum = 0
    BY DEF NoGauge
  <2>3. [NoGauge EXCEPT !.at = "ignore", !.ignore = Ignored, !.mixed = mixed].mixed = mixed
    BY <1>1 DEF Gauges
  <2>. QED BY <1>1, <2>1, <2>2, <2>3
<1>3. ASSUME NEW g \in Gauges, g.ignore > 0 PROVE [g EXCEPT !.ignore = @ - 1] \in Gauges
  <2>1. g.ignore - 1 \in 0 .. Ignored
    BY <1>3 DEF Gauges, Ignored
  <2>. QED BY <2>1 DEF Gauges
<1>4. ASSUME NEW g \in Gauges PROVE [g EXCEPT !.at = "sample"] \in Gauges
  BY DEF Gauges
<1>. QED BY <1>1, <1>2, <1>3, <1>4

(* The converter: the strengthening holds at first and after every step.   *)
LEMMA AdcKept ==
  /\ AdcInit => AdcInv
  /\ AdcInv /\ [AdcStep]_adcVars => AdcInv'
<1>. USE DEF Gauges, Converters
<1>1. ASSUME AdcInit PROVE AdcInv
  <2>1. gauge \in Gauges /\ gauge.at = "idle" /\ volt \in Volts /\ analog = {} /\ queue = <<>>
    BY <1>1, GaugeParts DEF AdcInit
  <2>2. adc \in Converters
    BY <1>1 DEF AdcInit, Channels
  <2>3. queue \in Seq(Nat) /\ Len(queue) <= Depth
    BY <2>1, AdcAssumption
  <2>. QED BY <2>1, <2>2, <2>3 DEF AdcInv, Measuring, BatteryMeasured
<1>2. ASSUME AdcInv, [AdcStep]_adcVars PROVE AdcInv'
  <2>. USE <1>2
  <2>1. CASE UNCHANGED adcVars
    BY <2>1 DEF adcVars, AdcInv, Measuring, Counted, BatteryMeasured
  <2>2. /\ volt \in Nat /\ Volts \subseteq Nat /\ Depth \in Nat /\ SampleCount \in Nat \ {0}
        /\ \A c \in Channels : Result(c) \in Nat
    BY AdcAssumption DEF AdcInv, Result
  <2>3. ASSUME NEW v \in Volts, VoltChanges(v) PROVE AdcInv'
    <3>1. volt' = v /\ gauge' = NoGauge /\ UNCHANGED <<adc, queue, analog>>
      BY <2>3 DEF VoltChanges
    <3>. QED BY <3>1, GaugeParts DEF AdcInv, Measuring, BatteryMeasured
  <2>4. ASSUME Waiting, adc' \in Converters, queue' \in Seq(Nat), Len(queue') <= Depth,
               analog' \subseteq Channels, volt' = volt, gauge' = gauge
        PROVE  AdcInv'
    BY <2>4 DEF AdcInv, Measuring, BatteryMeasured, Waiting
  <2>5. ASSUME NEW channel \in Channels, AdcOpen(channel) \/ AdcFinalize(channel) PROVE AdcInv'
    BY <2>4, <2>5 DEF AdcOpen, AdcFinalize, AdcInv
  <2>6. ASSUME NEW channel \in Channels, AdcRead(channel) PROVE AdcInv'
    <3>1. Waiting /\ volt' = volt /\ gauge' = gauge /\ analog' = analog
      BY <2>6 DEF AdcRead
    <3>2. adc' = [adc EXCEPT !.runs = FALSE, !.channel = channel] /\ adc' \in Converters
      BY <2>6 DEF AdcRead, AdcInv
    <3>3. queue' = Queued(Result(channel)) /\ Result(channel) \in Nat
      BY <2>2, <2>6 DEF AdcRead
    <3>4. queue' \in Seq(Nat) /\ Len(queue') <= Depth
      BY <3>3, QueuedKept
    <3>. QED BY <2>4, <3>1, <3>2, <3>4 DEF AdcInv
  <2>7. CASE GaugeBegin
    <3>. DEFINE mixed == Len(queue) > Ignored
    <3>1. /\ analog' = analog \cup {Supply} /\ adc' = [channel |-> Supply, fifo |-> TRUE, runs |-> TRUE]
          /\ gauge' = [NoGauge EXCEPT !.at = "ignore", !.ignore = Ignored, !.mixed = mixed]
          /\ UNCHANGED <<queue, volt>>
      BY <2>7 DEF GaugeBegin
    <3>2. mixed \in BOOLEAN /\ (~mixed => Len(queue) <= Ignored) /\ Len(queue) \in Nat
      BY DEF AdcInv, Ignored
    <3>. HIDE DEF mixed
    <3>3. /\ gauge' \in Gauges /\ gauge'.at = "ignore" /\ gauge'.ignore = Ignored
          /\ gauge'.taken = 0 /\ gauge'.sum = 0 /\ gauge'.mixed = mixed
      BY <3>1, <3>2, GaugeParts
    <3>4. /\ adc' \in Converters /\ adc'.channel = Supply /\ Supply \in Channels
      BY <3>1 DEF Channels
    <3>5. adc'.fifo /\ adc'.runs
      BY <3>1
    <3>6. Measuring'
      <4>1. ~gauge'.mixed => \A k \in 1 .. Len(queue') : ~Counted(k)'
        BY <3>1, <3>2, <3>3 DEF Counted, Ignored
      <4>2. 0 = 0 * volt
        BY <2>2
      <4>. QED BY <3>1, <3>3, <3>4, <3>5, <4>1, <4>2 DEF Measuring
    <3>. QED BY <3>1, <3>3, <3>4, <3>6 DEF AdcInv, BatteryMeasured
  <2>8. CASE GaugeNothing
    <3>1. gauge' = NoGauge /\ UNCHANGED <<adc, queue, analog, volt>>
      BY <2>8 DEF GaugeNothing
    <3>. QED BY <3>1, GaugeParts DEF AdcInv, Measuring, BatteryMeasured
  <2>9. CASE Converts
    <3>1. /\ adc.runs /\ queue' = Queued(Result(adc.channel)) /\ UNCHANGED <<adc, analog, volt, gauge>>
      BY <2>9 DEF Converts
    <3>2. Result(adc.channel) \in Nat
      BY <2>2 DEF AdcInv
    <3>3. /\ queue' \in Seq(Nat) /\ Len(queue') <= Depth
          /\ \A k \in 1 .. Len(queue') : IF k \in 1 .. Len(queue) THEN queue'[k] = queue[k]
                                        ELSE queue'[k] = Result(adc.channel)
      BY <3>1, <3>2, QueuedKept
    <3>4. gauge.at \in {"ignore", "sample"} => Result(adc.channel) = volt
      BY DEF AdcInv, Measuring, Result
    <3>5. Measuring'
      BY <3>1, <3>3, <3>4 DEF AdcInv, Measuring, Counted
    <3>. QED BY <3>1, <3>3, <3>5 DEF AdcInv, BatteryMeasured
  <2>10. CASE GaugeIgnore
    <3>1. /\ gauge.at = "ignore" /\ UNCHANGED <<adc, analog, volt>>
          /\ gauge \in Gauges /\ queue \in Seq(Nat) /\ Len(queue) <= Depth
          /\ gauge.taken = 0 /\ gauge.sum = 0
      BY <2>10 DEF GaugeIgnore, AdcInv
    <3>2. CASE /\ queue # <<>> /\ gauge.ignore > 0
               /\ queue' = Tail(queue) /\ gauge' = [gauge EXCEPT !.ignore = @ - 1]
      <4>1. /\ gauge' \in Gauges /\ gauge'.at = "ignore" /\ gauge'.taken = 0 /\ gauge'.sum = 0
            /\ gauge'.mixed = gauge.mixed /\ gauge'.ignore = gauge.ignore - 1 /\ gauge.ignore \in Nat
        <5>1. gauge' \in Gauges
          BY <3>1, <3>2, GaugeParts
        <5>2. gauge.ignore \in Nat
          BY <3>1
        <5>. QED BY <3>1, <3>2, <5>1, <5>2
      <4>2. /\ queue' \in Seq(Nat) /\ Len(queue') = Len(queue) - 1
            /\ \A k \in 1 .. Len(queue') : k + 1 \in 1 .. Len(queue) /\ queue'[k] = queue[k + 1]
        BY <3>1, <3>2
      <4>3. \A k \in 1 .. Len(queue') : Counted(k)' => Counted(k + 1)
        BY <3>1, <4>1 DEF Counted
      <4>4. Measuring'
        BY <3>1, <4>1, <4>2, <4>3 DEF AdcInv, Measuring
      <4>. QED BY <2>2, <3>1, <4>1, <4>2, <4>4 DEF AdcInv, BatteryMeasured
    <3>3. CASE /\ queue = <<>> \/ gauge.ignore = 0
               /\ gauge' = [gauge EXCEPT !.at = "sample"] /\ queue' = queue
      <4>1. /\ gauge' \in Gauges /\ gauge'.at = "sample" /\ gauge'.taken = 0 /\ gauge'.sum = 0
            /\ gauge'.mixed = gauge.mixed
        BY <3>1, <3>3, GaugeParts
      <4>2. \A k \in 1 .. Len(queue) : Counted(k)
        BY <3>1, <3>3 DEF Counted
      <4>3. Measuring'
        BY <3>1, <3>3, <4>1, <4>2 DEF AdcInv, Measuring
      <4>. QED BY <3>1, <3>3, <4>1, <4>3 DEF AdcInv, BatteryMeasured
    <3>. QED BY <2>10, <3>2, <3>3 DEF GaugeIgnore
  <2>11. CASE GaugeSample
    <3>1. /\ gauge.at = "sample" /\ gauge.taken < SampleCount /\ queue # <<>>
          /\ gauge' = [gauge EXCEPT !.sum = @ + Head(queue), !.taken = @ + 1]
          /\ queue' = Tail(queue) /\ UNCHANGED <<adc, analog, volt>>
          /\ gauge \in Gauges /\ queue \in Seq(Nat) /\ Len(queue) <= Depth
      BY <2>11 DEF GaugeSample, AdcInv
    <3>2. /\ queue' \in Seq(Nat) /\ Len(queue') = Len(queue) - 1 /\ 1 \in 1 .. Len(queue)
          /\ Head(queue) = queue[1] /\ Head(queue) \in Nat
          /\ \A k \in 1 .. Len(queue') : k + 1 \in 1 .. Len(queue) /\ queue'[k] = queue[k + 1]
      BY <3>1
    <3>3. gauge.sum + Head(queue) \in Nat /\ gauge.taken + 1 \in 0 .. SampleCount /\ gauge.taken \in Nat
      BY <2>2, <3>1, <3>2
    <3>4. /\ gauge' \in Gauges /\ gauge'.at = "sample" /\ gauge'.mixed = gauge.mixed
          /\ gauge'.sum = gauge.sum + Head(queue) /\ gauge'.taken = gauge.taken + 1
      BY <3>1, <3>3
    <3>5. ~gauge.mixed => gauge.sum = gauge.taken * volt /\ Head(queue) = volt
      BY <3>1, <3>2 DEF AdcInv, Measuring, Counted
    <3>6. gauge.taken * volt + volt = (gauge.taken + 1) * volt
      BY <2>2, <3>3
    <3>7. Measuring'
      BY <3>1, <3>2, <3>4, <3>5, <3>6 DEF AdcInv, Measuring, Counted
    <3>. QED BY <2>2, <3>1, <3>2, <3>4, <3>7 DEF AdcInv, BatteryMeasured
  <2>12. CASE GaugeEnd
    <3>1. /\ gauge.at = "sample" /\ gauge.taken = SampleCount
          /\ adc' = [adc EXCEPT !.runs = FALSE] /\ queue' = <<>>
          /\ gauge' = [gauge EXCEPT !.at = "done", !.percent = BatteryPercent(gauge.sum \div SampleCount)]
          /\ UNCHANGED <<analog, volt>>
          /\ gauge \in Gauges
      BY <2>12 DEF GaugeEnd, AdcInv
    <3>2. gauge.sum \div SampleCount \in Nat
      <4>1. gauge.sum \in Nat
        BY <3>1
      <4>. QED BY <2>2, <4>1
    <3>3. BatteryPercent(gauge.sum \div SampleCount) \in 0 .. 100
      BY <3>2, PercentBounds
    <3>4. /\ gauge' \in Gauges /\ gauge'.at = "done" /\ gauge'.mixed = gauge.mixed
          /\ gauge'.percent = BatteryPercent(gauge.sum \div SampleCount)
      BY <3>1, <3>3
    <3>5. BatteryMeasured'
      <4>1. ~gauge.mixed => gauge.sum = SampleCount * volt
        BY <3>1 DEF AdcInv, Measuring
      <4>2. ~gauge.mixed => gauge.sum \div SampleCount = volt
        BY <2>2, <4>1, MeanOfEqual
      <4>3. BatteryPercent(volt)' = BatteryPercent(volt)
        BY <3>1 DEF BatteryPercent, Within
      <4>. QED BY <3>4, <4>2, <4>3 DEF BatteryMeasured
    <3>6. adc' \in Converters
      BY <3>1 DEF AdcInv
    <3>7. queue' \in Seq(Nat) /\ Len(queue') <= Depth
      BY <2>2, <3>1
    <3>. QED BY <3>1, <3>4, <3>5, <3>6, <3>7 DEF AdcInv, Measuring
  <2>. QED BY <2>1, <2>3, <2>5, <2>6, <2>7, <2>8, <2>9, <2>10, <2>11, <2>12 DEF AdcStep, GaugeGoesOn
<1>. QED BY <1>1, <1>2

-----------------------------------------------------------------------------
(* The bus.                                                                *)

Ports == [bus : {"spi", "i2c"}, open : BOOLEAN, activeLow : BOOLEAN, cs : BOOLEAN]
Chips == [regs : [Regs -> Vals], at : Regs \cup {NoReg}, held : BOOLEAN]
BusCalls == [pc : {"idle", "begin", "reg", "data", "end"}, op : Calls \cup {"none"},
             reg : Regs \cup {NoReg}, val : Vals \cup {NoReg}, got : Vals \cup {NoReg}, done : {0, 1, 2}]

(* The select pin is active and the bus held just while a call uses them.  *)
HeldInCall ==
  /\ port.open =>
       (port.cs = Active <=> port.bus = "spi" /\ io.pc \in {"reg", "data", "end"})
  /\ chip.held => port.bus = "i2c" /\ io.pc = "data" /\ io.op = "write"

(* A call that has named its register is at it, and what it reports when   *)
(* it ends is so.                                                          *)
AtRegister ==
  /\ io.pc # "idle" => port.open /\ io.reg \in Regs /\ io.val \in Vals /\ io.op \in Calls
  /\ io.pc \in {"reg", "end"} => port.bus = "spi"
  /\ io.pc \in {"begin", "reg", "data"} => io.done = 0
  /\ io.pc = "reg" => chip.at = NoReg
  /\ io.pc = "data" => \/ port.bus = "spi" /\ chip.at = io.reg
                       \/ port.bus = "i2c" /\ io.op = "read" /\ chip.at = io.reg
                       \/ port.bus = "i2c" /\ io.op = "write"
  /\ io.pc \in {"end", "idle"} /\ io.done > 0 =>
       /\ io.reg \in Regs
       /\ io.op = "read" => io.got = chip.regs[io.reg]
       /\ io.op = "xfr" \/ (io.op = "write" /\ port.bus = "spi") => chip.regs[io.reg] = io.val

BusInv ==
  /\ port \in Ports /\ chip \in Chips /\ io \in BusCalls
  /\ HeldInCall
  /\ AtRegister

(* What the chip does with what it hears.                                  *)
LEMMA HearsParts ==
  ASSUME NEW c \in Chips, NEW byte
  PROVE  /\ c.at = NoReg /\ byte \in Regs =>
              /\ Hears(c, byte) \in Chips /\ Hears(c, byte).at = byte
              /\ Hears(c, byte).regs = c.regs /\ Hears(c, byte).held = c.held
         /\ c.at \in Regs /\ byte \in Vals =>
              /\ Hears(c, byte) \in Chips /\ Hears(c, byte).at = c.at
              /\ Hears(c, byte).regs[c.at] = byte /\ Hears(c, byte).held = c.held
<1>1. NoReg \notin Regs
  BY BusAssumption DEF NoReg
<1>2. ASSUME c.at = NoReg, byte \in Regs
      PROVE  /\ Hears(c, byte) \in Chips /\ Hears(c, byte).at = byte
             /\ Hears(c, byte).regs = c.regs /\ Hears(c, byte).held = c.held
  <2>1. Hears(c, byte) = [c EXCEPT !.at = byte]
    BY <1>2 DEF Hears
  <2>. QED BY <1>2, <2>1 DEF Chips
<1>3. ASSUME c.at \in Regs, byte \in Vals
      PROVE  /\ Hears(c, byte) \in Chips /\ Hears(c, byte).at = c.at
             /\ Hears(c, byte).regs[c.at] = byte /\ Hears(c, byte).held = c.held
  <2>1. Hears(c, byte) = [c EXCEPT !.regs[c.at] = byte]
    BY <1>1, <1>3 DEF Hears
  <2>. QED BY <1>3, <2>1 DEF Chips
<1>. QED BY <1>2, <1>3

(* A bus with no call in progress.                                         *)
LEMMA NoBusCallParts == NoBusCall \in BusCalls /\ NoBusCall.pc = "idle" /\ NoBusCall.done = 0
BY DEF NoBusCall, BusCalls

(* The bus calls: the strengthening implies what is claimed, and every step keeps it. *)
LEMMA BusKept ==
  /\ BusInit => BusInv
  /\ BusInv => BusReleased /\ ReportsTrue
  /\ BusInv /\ [BusIoStep]_busIoVars => BusInv'
<1>1. ASSUME BusInit PROVE BusInv
  <2>1. port \in Ports /\ ~port.open
    <3>1. PICK b \in {"spi", "i2c"}, low \in BOOLEAN :
            port = [bus |-> b, open |-> FALSE, activeLow |-> low, cs |-> FALSE]
      BY <1>1 DEF BusInit
    <3>. QED BY <3>1 DEF Ports
  <2>2. chip \in Chips /\ ~chip.held
    <3>1. (CHOOSE v \in Vals : TRUE) \in Vals
      BY BusAssumption
    <3>2. chip = [regs |-> [r \in Regs |-> CHOOSE v \in Vals : TRUE], at |-> NoReg, held |-> FALSE]
      BY <1>1 DEF BusInit
    <3>. HIDE DEF NoReg
    <3>. QED BY <3>1, <3>2 DEF Chips
  <2>3. io = NoBusCall
    BY <1>1 DEF BusInit
  <2>. QED BY <2>1, <2>2, <2>3, NoBusCallParts DEF BusInv, HeldInCall, AtRegister
<1>2. BusInv => BusReleased /\ ReportsTrue
  BY DEF BusInv, HeldInCall, AtRegister, BusReleased, ReportsTrue, Selected, Active
<1>3. ASSUME BusInv, [BusIoStep]_busIoVars PROVE BusInv'
  <2>. USE <1>3 DEF BusInv
  <2>0. /\ NoReg \notin Regs
        /\ \A p \in Ports, cs \in BOOLEAN : LET q == [p EXCEPT !.cs = cs] IN
             q \in Ports /\ q.bus = p.bus /\ q.open = p.open /\ q.activeLow = p.activeLow /\ q.cs = cs
        /\ Active \in BOOLEAN
    BY BusAssumption DEF NoReg, Ports, Active
  <2>1. CASE UNCHANGED busIoVars
    BY <2>1 DEF busIoVars, HeldInCall, AtRegister, Active
  <2>2. CASE PortInit
    <3>1. /\ ~port.open /\ port' = [port EXCEPT !.open = TRUE, !.cs = ~Active] /\ UNCHANGED <<chip, io>>
      BY <2>2 DEF PortInit
    <3>2. /\ port' \in Ports /\ port'.open /\ port'.bus = port.bus /\ port'.cs = ~Active
          /\ port'.activeLow = port.activeLow
      BY <2>0, <3>1 DEF Ports
    <3>3. io.pc = "idle"
      BY <3>1 DEF AtRegister
    <3>. QED BY <2>0, <3>1, <3>2, <3>3 DEF HeldInCall, AtRegister, Active
  <2>3. CASE PortFinalize
    <3>1. port' = [port EXCEPT !.open = FALSE] /\ io.pc = "idle" /\ io' = NoBusCall /\ chip' = chip
      BY <2>3 DEF PortFinalize
    <3>2. port' \in Ports /\ ~port'.open
      BY <3>1 DEF Ports
    <3>. QED BY <3>1, <3>2, NoBusCallParts DEF HeldInCall, AtRegister
  <2>4. ASSUME NEW op \in Calls, NEW r \in Regs, NEW v \in Vals, Transfer(op, r, v)
        PROVE  BusInv'
    <3>1. /\ port.open /\ io.pc = "idle" /\ UNCHANGED <<port, chip>>
          /\ io' = [pc |-> "begin", op |-> op, reg |-> r, val |-> v, got |-> NoReg, done |-> 0]
      BY <2>4 DEF Transfer
    <3>2. /\ io' \in BusCalls /\ io'.pc = "begin" /\ io'.op = op /\ io'.reg = r /\ io'.val = v
          /\ io'.done = 0
      BY <3>1 DEF BusCalls
    <3>. QED BY <3>1, <3>2 DEF HeldInCall, AtRegister, Active
  <2>5. CASE Select
    <3>1. /\ port.bus = "spi" /\ io.pc = "begin" /\ port' = [port EXCEPT !.cs = Active]
          /\ chip' = [chip EXCEPT !.at = NoReg] /\ io' = [io EXCEPT !.pc = "reg"]
      BY <2>5 DEF Select
    <3>2. /\ port' \in Ports /\ port'.bus = port.bus /\ port'.open = port.open
          /\ port'.activeLow = port.activeLow /\ port'.cs = Active
      BY <2>0, <3>1
    <3>3. chip' \in Chips /\ chip'.at = NoReg /\ chip'.held = chip.held
      BY <3>1 DEF Chips
    <3>4. /\ io' \in BusCalls /\ io'.pc = "reg" /\ io'.op = io.op /\ io'.reg = io.reg
          /\ io'.val = io.val /\ io'.done = io.done
      BY <3>1 DEF BusCalls
    <3>. QED BY <3>1, <3>2, <3>3, <3>4 DEF HeldInCall, AtRegister, Active
  <2>6. CASE SpiReg
    <3>1. /\ port.bus = "spi" /\ io.pc = "reg" /\ port' = port
          /\ \/ chip' = (IF Selected THEN Hears(chip, io.reg) ELSE chip) /\ io' = [io EXCEPT !.pc = "data"]
             \/ chip' = chip /\ io' = [io EXCEPT !.pc = "end"]
      BY <2>6 DEF SpiReg
    <3>2. Selected /\ chip.at = NoReg /\ io.reg \in Regs
      BY <2>0, <3>1 DEF Selected, HeldInCall, AtRegister
    <3>3. /\ io' \in BusCalls /\ io'.op = io.op /\ io'.reg = io.reg /\ io'.val = io.val
          /\ io'.done = io.done /\ chip' \in Chips /\ chip'.held = chip.held
          /\ \/ io'.pc = "data" /\ chip'.at = io.reg
             \/ io'.pc = "end"
      <4>1. CASE chip' = Hears(chip, io.reg) /\ io' = [io EXCEPT !.pc = "data"]
        <5>1. chip' \in Chips /\ chip'.held = chip.held /\ chip'.at = io.reg
          BY <3>2, <4>1, HearsParts
        <5>. QED BY <4>1, <5>1 DEF BusCalls
      <4>2. CASE chip' = chip /\ io' = [io EXCEPT !.pc = "end"]
        BY <4>2 DEF BusCalls
      <4>. QED BY <3>1, <3>2, <4>1, <4>2
    <3>. QED BY <3>1, <3>3 DEF HeldInCall, AtRegister, Active
  <2>7. CASE SpiData
    <3>1. port.bus = "spi" /\ io.pc = "data" /\ port' = port
      BY <2>7 DEF SpiData
    <3>2. /\ Selected /\ chip.at = io.reg /\ io.reg \in Regs /\ io.val \in Vals /\ io.op \in Calls
          /\ io.done = 0 /\ chip.regs \in [Regs -> Vals]
      BY <2>0, <3>1 DEF Chips, Selected, HeldInCall, AtRegister
    <3>3. CASE io' = [io EXCEPT !.pc = "end"] /\ chip' = chip
      <4>1. /\ io' \in BusCalls /\ io'.op = io.op /\ io'.reg = io.reg /\ io'.val = io.val
            /\ io'.done = io.done /\ io'.pc = "end"
        BY <3>3 DEF BusCalls
      <4>. QED BY <3>1, <3>2, <3>3, <4>1 DEF HeldInCall, AtRegister, Active
    <3>4. CASE /\ io.op = "read" /\ chip' = chip
               /\ io' = [io EXCEPT !.pc = "end", !.got = chip.regs[chip.at], !.done = 1]
      <4>1. /\ io' \in BusCalls /\ io'.op = io.op /\ io'.reg = io.reg /\ io'.val = io.val
            /\ io'.done = 1 /\ io'.pc = "end" /\ io'.got = chip.regs[chip.at]
        BY <3>2, <3>4 DEF BusCalls
      <4>. QED BY <3>1, <3>2, <3>4, <4>1 DEF HeldInCall, AtRegister, Active
    <3>5. CASE /\ io.op # "read" /\ chip' = Hears(chip, io.val)
               /\ io' = [io EXCEPT !.pc = "end", !.done = 1]
      <4>1. /\ io' \in BusCalls /\ io'.op = io.op /\ io'.reg = io.reg /\ io'.val = io.val
            /\ io'.done = 1 /\ io'.pc = "end"
        BY <3>2, <3>5 DEF BusCalls
      <4>2. chip' \in Chips /\ chip'.regs[chip.at] = io.val /\ chip'.held = chip.held
        BY <3>2, <3>5, HearsParts
      <4>. QED BY <3>1, <3>2, <3>5, <4>1, <4>2 DEF HeldInCall, AtRegister, Active
    <3>. QED BY <2>7, <3>2, <3>3, <3>4, <3>5 DEF SpiData
  <2>8. CASE Deselect
    <3>1. /\ port.bus = "spi" /\ io.pc = "end" /\ port' = [port EXCEPT !.cs = ~Active]
          /\ chip' = chip /\ io' = [io EXCEPT !.pc = "idle"]
      BY <2>8 DEF Deselect
    <3>2. /\ port' \in Ports /\ port'.bus = port.bus /\ port'.open = port.open
          /\ port'.activeLow = port.activeLow /\ port'.cs = ~Active
      BY <2>0, <3>1
    <3>3. /\ io' \in BusCalls /\ io'.pc = "idle" /\ io'.op = io.op /\ io'.reg = io.reg
          /\ io'.val = io.val /\ io'.done = io.done /\ io'.got = io.got
      BY <3>1 DEF BusCalls
    <3>. QED BY <2>0, <3>1, <3>2, <3>3 DEF HeldInCall, AtRegister, Active
  <2>9. ASSUME I2cFails, port.bus = "i2c", io.pc # "idle", port' = port
        PROVE  BusInv'
    <3>1. /\ chip' \in Chips /\ ~chip'.held
          /\ io' \in BusCalls /\ io'.pc = "idle" /\ io'.done = 0
      <4>1. chip' \in Chips /\ ~chip'.held
        BY <2>9 DEF I2cFails, Chips
      <4>2. io' \in BusCalls /\ io'.pc = "idle" /\ io'.done = 0
        BY <2>9 DEF I2cFails, BusCalls
      <4>. QED BY <4>1, <4>2
    <3>. QED BY <2>9, <3>1 DEF HeldInCall, AtRegister, Active
  <2>10. CASE I2cXfr
    <3>1. /\ port.bus = "i2c" /\ io.pc = "begin" /\ io.op = "xfr" /\ port' = port
          /\ I2cFails \/ (/\ chip' = Hears([chip EXCEPT !.at = io.reg], io.val)
                          /\ io' = [io EXCEPT !.pc = "idle", !.done = 2])
      BY <2>10 DEF I2cXfr
    <3>2. CASE chip' = Hears([chip EXCEPT !.at = io.reg], io.val) /\ io' = [io EXCEPT !.pc = "idle", !.done = 2]
      <4>1. io.reg \in Regs /\ io.val \in Vals /\ ~chip.held
        BY <3>1 DEF AtRegister, HeldInCall
      <4>. DEFINE c == [chip EXCEPT !.at = io.reg]
      <4>2. c \in Chips /\ c.at = io.reg /\ c.held = chip.held /\ chip' = Hears(c, io.val)
        BY <3>2, <4>1 DEF Chips
      <4>. HIDE DEF c
      <4>3. chip' \in Chips /\ chip'.regs[io.reg] = io.val /\ ~chip'.held
        BY <4>1, <4>2, HearsParts
      <4>4. /\ io' \in BusCalls /\ io'.pc = "idle" /\ io'.op = io.op /\ io'.reg = io.reg /\ io'.val = io.val
        BY <3>2 DEF BusCalls
      <4>. QED BY <3>1, <4>1, <4>3, <4>4 DEF HeldInCall, AtRegister, Active
    <3>. QED BY <2>9, <3>1, <3>2
  <2>11. ASSUME I2cReadReg \/ I2cWriteReg PROVE BusInv'
    <3>1. /\ port.bus = "i2c" /\ io.pc = "begin" /\ io.op \in {"read", "write"} /\ port' = port
          /\ I2cFails \/ (/\ \/ io.op = "read" /\ chip' = [chip EXCEPT !.at = io.reg]
                             \/ io.op = "write" /\ chip' = [chip EXCEPT !.at = io.reg, !.held = TRUE]
                          /\ io' = [io EXCEPT !.pc = "data"])
      BY <2>11 DEF I2cReadReg, I2cWriteReg
    <3>2. CASE /\ \/ io.op = "read" /\ chip' = [chip EXCEPT !.at = io.reg]
                  \/ io.op = "write" /\ chip' = [chip EXCEPT !.at = io.reg, !.held = TRUE]
               /\ io' = [io EXCEPT !.pc = "data"]
      <4>1. io.reg \in Regs /\ io.done = 0 /\ ~chip.held
        BY <3>1 DEF AtRegister, HeldInCall
      <4>2. chip' \in Chips /\ chip'.at = io.reg /\ (chip'.held => io.op = "write")
        BY <3>2, <4>1 DEF Chips
      <4>3. /\ io' \in BusCalls /\ io'.pc = "data" /\ io'.op = io.op /\ io'.reg = io.reg /\ io'.val = io.val
            /\ io'.done = io.done
        BY <3>2 DEF BusCalls
      <4>. QED BY <3>1, <4>1, <4>2, <4>3 DEF HeldInCall, AtRegister, Active
    <3>. QED BY <2>9, <3>1, <3>2
  <2>12. CASE I2cReadData
    <3>1. /\ port.bus = "i2c" /\ io.pc = "data" /\ io.op = "read" /\ port' = port
          /\ I2cFails \/ (/\ chip' = chip
                          /\ io' = [io EXCEPT !.pc = "idle", !.got = chip.regs[chip.at], !.done = 1])
      BY <2>12 DEF I2cReadData
    <3>2. CASE chip' = chip /\ io' = [io EXCEPT !.pc = "idle", !.got = chip.regs[chip.at], !.done = 1]
      <4>1. io.reg \in Regs /\ chip.at = io.reg /\ ~chip.held
        BY <3>1 DEF AtRegister, HeldInCall
      <4>2. chip.regs[chip.at] \in Vals
        BY <4>1 DEF Chips
      <4>3. /\ io' \in BusCalls /\ io'.pc = "idle" /\ io'.op = io.op /\ io'.reg = io.reg
            /\ io'.got = chip.regs[io.reg]
        BY <3>2, <4>1, <4>2 DEF BusCalls
      <4>. QED BY <3>1, <3>2, <4>1, <4>3 DEF HeldInCall, AtRegister, Active
    <3>. QED BY <2>9, <3>1, <3>2
  <2>13. CASE I2cWriteData
    <3>1. /\ port.bus = "i2c" /\ io.pc = "data" /\ io.op = "write" /\ port' = port
          /\ I2cFails \/ (/\ chip' = [chip EXCEPT !.at = IF io.val \in Regs THEN io.val ELSE NoReg,
                                                  !.held = FALSE]
                          /\ io' = [io EXCEPT !.pc = "idle", !.done = 1])
      BY <2>13 DEF I2cWriteData
    <3>2. CASE /\ chip' = [chip EXCEPT !.at = IF io.val \in Regs THEN io.val ELSE NoReg, !.held = FALSE]
               /\ io' = [io EXCEPT !.pc = "idle", !.done = 1]
      <4>0. (IF io.val \in Regs THEN io.val ELSE NoReg) \in Regs \cup {NoReg}
        OBVIOUS
      <4>1. chip' \in Chips /\ ~chip'.held
        BY <3>2, <4>0 DEF Chips
      <4>2. /\ io' \in BusCalls /\ io'.pc = "idle" /\ io'.op = io.op /\ io'.reg = io.reg
        BY <3>2 DEF BusCalls
      <4>3. io.reg \in Regs
        BY <3>1 DEF AtRegister
      <4>. QED BY <3>1, <4>1, <4>2, <4>3 DEF HeldInCall, AtRegister, Active
    <3>. QED BY <2>9, <3>1, <3>2
  <2>. QED BY <2>1, <2>2, <2>3, <2>4, <2>5, <2>6, <2>7, <2>8, <2>10, <2>11, <2>12, <2>13 DEF BusIoStep
<1>. QED BY <1>1, <1>2, <1>3

-----------------------------------------------------------------------------
(* The sensors.                                                            *)

Reads == [at : {"idle", "force", "wait", "data"}, by : Sensors \cup {Nobody}, slept : BOOLEAN,
          waited : BOOLEAN]

(* The call that runs is for the sensor the bus leads to, and it has       *)
(* waited for a measurement if it says so.                                 *)
SensorInv ==
  /\ sampling \in [Sensors -> {"sleep", "forced", "normal"}]
  /\ stock \in [Sensors -> {"old", "new"}]
  /\ ready \subseteq Sensors
  /\ read \in Reads
  /\ IF read.at = "idle" THEN read = NoRead
     ELSE read.by \in Sensors /\ address = read.by
  /\ read.at = "wait" => sampling[address] = "forced" \/ stock[address] = "new"
  /\ read.waited => read.at = "data" /\ stock[address] = "new"
  /\ OwnSensor /\ FreshWhenAsleep

(* The sensor: the strengthening holds at first and after every step.      *)
LEMMA SensorKept ==
  /\ SensorInit => SensorInv
  /\ SensorInv /\ [SensorStep]_sensorVars => SensorInv'
<1>0. /\ NoRead \in Reads /\ NoRead.at = "idle" /\ ~NoRead.waited /\ ~NoReading.ok
  BY DEF NoRead, Reads, NoReading
<1>1. ASSUME SensorInit PROVE SensorInv
  BY <1>0, <1>1 DEF SensorInit, SensorInv, OwnSensor, FreshWhenAsleep
<1>2. ASSUME SensorInv, [SensorStep]_sensorVars PROVE SensorInv'
  <2>. USE <1>2
  <2>1. CASE UNCHANGED sensorVars
    BY <2>1 DEF sensorVars, SensorInv, OwnSensor, FreshWhenAsleep
  <2>2. ASSUME read = NoRead, read' = read, stock' = stock, reading' = reading,
               ready' \subseteq Sensors, sampling' \in [Sensors -> {"sleep", "forced", "normal"}]
        PROVE  SensorInv'
    BY <1>0, <2>2 DEF SensorInv, OwnSensor, FreshWhenAsleep
  <2>3. ASSUME NEW s \in Sensors, SensorOpen(s) PROVE SensorInv'
    <3>1. /\ read = NoRead /\ UNCHANGED <<stock, read, reading>> /\ ready' \subseteq Sensors
          /\ sampling' \in [Sensors -> {"sleep", "forced", "normal"}]
      BY <2>3 DEF SensorOpen, SensorInv
    <3>. QED BY <2>2, <3>1
  <2>4. ASSUME NEW s \in Sensors, NEW to \in {"sleep", "forced", "normal"}, Switch(s, to)
        PROVE  SensorInv'
    <3>1. /\ read = NoRead /\ UNCHANGED <<stock, read, reading>> /\ ready' \subseteq Sensors
          /\ sampling' \in [Sensors -> {"sleep", "forced", "normal"}]
      BY <2>4 DEF Switch, SensorInv
    <3>. QED BY <2>2, <3>1
  <2>5. ASSUME NEW s \in Sensors, ReadMode(s) PROVE SensorInv'
    <3>. DEFINE slept == sampling[address'] = "sleep"
    <3>1. /\ read = NoRead /\ address' = s /\ stock' = [other \in Sensors |-> "old"]
          /\ \/ read' = [NoRead EXCEPT !.at = IF slept THEN "force" ELSE "data", !.by = s, !.slept = slept]
             \/ read' = read
          /\ reading' = NoReading /\ UNCHANGED <<ready, sampling>>
      BY <2>5 DEF ReadMode, Addressed
    <3>2. slept \in BOOLEAN
      OBVIOUS
    <3>. HIDE DEF slept
    <3>3. CASE read' = [NoRead EXCEPT !.at = IF slept THEN "force" ELSE "data", !.by = s, !.slept = slept]
      <4>1. /\ read' \in Reads /\ read'.at \in {"force", "data"} /\ read'.by = s /\ ~read'.waited
        BY <1>0, <3>2, <3>3 DEF Reads
      <4>. QED BY <1>0, <3>1, <4>1 DEF SensorInv, OwnSensor, FreshWhenAsleep
    <3>4. CASE read' = read
      BY <1>0, <3>1, <3>4 DEF SensorInv, OwnSensor, FreshWhenAsleep
    <3>. QED BY <3>1, <3>3, <3>4
  <2>6. CASE ForceMode
    <3>1. /\ read.at = "force" /\ UNCHANGED <<ready, address, stock, reading>>
          /\ \/ sampling' = [sampling EXCEPT ![address] = "forced"] /\ read' = [read EXCEPT !.at = "wait"]
             \/ sampling' = sampling /\ read' = NoRead
      BY <2>6 DEF ForceMode
    <3>2. CASE sampling' = [sampling EXCEPT ![address] = "forced"] /\ read' = [read EXCEPT !.at = "wait"]
      <4>1. /\ read' \in Reads /\ read'.at = "wait" /\ read'.by = read.by
            /\ read'.waited = read.waited
        BY <3>2 DEF SensorInv, Reads
      <4>. QED BY <3>1, <3>2, <4>1 DEF SensorInv, OwnSensor, FreshWhenAsleep
    <3>3. CASE sampling' = sampling /\ read' = NoRead
      BY <1>0, <3>1, <3>3 DEF SensorInv, OwnSensor, FreshWhenAsleep
    <3>. QED BY <3>1, <3>2, <3>3
  <2>7. CASE Wait
    <3>1. /\ read.at = "wait" /\ UNCHANGED <<ready, address, sampling, stock, reading>>
          /\ \/ sampling[address] # "forced" /\ read' = [read EXCEPT !.at = "data", !.waited = TRUE]
             \/ read' = [read EXCEPT !.at = "data"]
      BY <2>7 DEF Wait
    <3>2. CASE sampling[address] # "forced" /\ read' = [read EXCEPT !.at = "data", !.waited = TRUE]
      <4>1. read' \in Reads /\ read'.at = "data" /\ read'.by = read.by
        BY <3>2 DEF SensorInv, Reads
      <4>. QED BY <3>1, <3>2, <4>1 DEF SensorInv, OwnSensor, FreshWhenAsleep
    <3>3. CASE read' = [read EXCEPT !.at = "data"]
      <4>1. /\ read' \in Reads /\ read'.at = "data" /\ read'.by = read.by
            /\ read'.waited = read.waited
        BY <3>3 DEF SensorInv, Reads
      <4>. QED BY <3>1, <3>3, <4>1 DEF SensorInv, OwnSensor, FreshWhenAsleep
    <3>. QED BY <3>1, <3>2, <3>3
  <2>8. CASE ReadSensor
    <3>. DEFINE slept == read.slept /\ read.waited
                fresh == stock[address] = "new"
    <3>1. /\ read.at = "data" /\ read' = NoRead /\ UNCHANGED <<ready, address, sampling, stock>>
          /\ \/ reading' = [ok |-> TRUE, by |-> read.by, of |-> address, slept |-> slept, fresh |-> fresh]
             \/ reading' = reading
      BY <2>8 DEF ReadSensor
    <3>2. OwnSensor' /\ FreshWhenAsleep'
      <4>1. slept => fresh
        BY DEF SensorInv
      <4>2. address = read.by
        BY <3>1 DEF SensorInv
      <4>. HIDE DEF slept, fresh
      <4>3. CASE reading' = [ok |-> TRUE, by |-> read.by, of |-> address, slept |-> slept, fresh |-> fresh]
        <5>1. reading'.of = reading'.by /\ (reading'.slept => reading'.fresh)
          BY <4>1, <4>2, <4>3
        <5>. QED BY <5>1 DEF OwnSensor, FreshWhenAsleep
      <4>4. CASE reading' = reading
        BY <4>4 DEF SensorInv, OwnSensor, FreshWhenAsleep
      <4>. QED BY <3>1, <4>3, <4>4
    <3>. QED BY <1>0, <3>1, <3>2 DEF SensorInv
  <2>9. ASSUME NEW s \in Sensors, Measured(s) PROVE SensorInv'
    <3>1. /\ stock' = [stock EXCEPT ![s] = "new"] /\ UNCHANGED <<ready, address, read, reading>>
          /\ sampling' = [sampling EXCEPT ![s] = IF @ = "forced" THEN "sleep" ELSE @]
      BY <2>9 DEF Measured
    <3>2. /\ stock' \in [Sensors -> {"old", "new"}] /\ stock'[s] = "new"
          /\ \A t \in Sensors : stock[t] = "new" => stock'[t] = "new"
          /\ sampling' \in [Sensors -> {"sleep", "forced", "normal"}]
          /\ \A t \in Sensors : t # s => sampling'[t] = sampling[t]
      BY <3>1 DEF SensorInv
    <3>. QED BY <3>1, <3>2 DEF SensorInv, OwnSensor, FreshWhenAsleep
  <2>. QED BY <2>1, <2>3, <2>4, <2>5, <2>6, <2>7, <2>8, <2>9 DEF SensorStep
<1>. QED BY <1>1, <1>2

-----------------------------------------------------------------------------
(* The colour display.                                                     *)

Windows == {r \in [x : Nat, y : Nat, w : Nat, h : Nat] : r.x + r.w <= Memory.w /\ r.y + r.h <= Memory.h}
Views == [rect : Windows, rotation : {-1} \cup Orientations, on : BOOLEAN]
Drawings == [op : {"none", "configured", "fill", "rect", "torn"}, rect : Windows, of : Pictures \cup {0}]
Lcds == [valid : BOOLEAN, kind : DOMAIN Panels \cup {"none"}, rotation : Orientations,
         wired : BOOLEAN, light : BOOLEAN, reset : BOOLEAN]

LcdInv ==
  /\ lcd \in Lcds
  /\ view \in Views /\ drawn \in Drawings
  /\ pixels = [dot \in Dots |-> pixels[dot]]
  /\ lcd.valid => lcd.kind \in DOMAIN Panels
  /\ drawn.op = "configured" => /\ view.rotation \in Orientations
                                /\ view.rect = Screen(lcd.kind, view.rotation)
  /\ RectShows

(* A dot of a rectangle comes before the end of it.                        *)
LEMMA IndexFits ==
  ASSUME NEW rect, {rect.x, rect.y, rect.w, rect.h} \subseteq Nat,
         NEW dot, dot[1] \in Nat, dot[2] \in Nat, In(rect, dot)
  PROVE  /\ Index(rect, dot) \in Nat /\ rect.w * rect.h \in Nat \ {0}
         /\ Index(rect, dot) < rect.w * rect.h
<1>. DEFINE dx == dot[1] - rect.x
            dy == dot[2] - rect.y
            w == rect.w
            h == rect.h
<1>1. dx \in Nat /\ dy \in Nat /\ w \in Nat /\ h \in Nat /\ dx < w /\ dy < h
  BY DEF In
<1>2. Index(rect, dot) = dy * w + dx
  BY DEF Index
<1>. HIDE DEF dx, dy
<1>3. dy + 1 <= h /\ dy * w + dx < (dy + 1) * w
  BY <1>1
<1>4. (dy + 1) * w <= h * w
  BY <1>1, <1>3
<1>5. dy * w \in Nat /\ h * w = w * h /\ w * h \in Nat
  BY <1>1
<1>. HIDE DEF w, h
<1>6. dy * w + dx \in Nat /\ dy * w + dx < w * h
  BY <1>1, <1>3, <1>4, <1>5
<1>. QED BY <1>1, <1>2, <1>5, <1>6 DEF w, h

(* A window is filled once by a rectangle's pixels, all of it.             *)
LEMMA StreamedOnce ==
  ASSUME NEW rect, {rect.x, rect.y, rect.w, rect.h} \subseteq Nat, NEW dot \in Dots
  PROVE  /\ Reached(rect, Size(rect), dot) <=> In(rect, dot)
         /\ In(rect, dot) => LastOf(rect, Size(rect), dot) = Index(rect, dot)
<1>1. dot[1] \in Nat /\ dot[2] \in Nat
  BY LcdAssumption DEF Dots
<1>2. CASE ~In(rect, dot)
  BY <1>2 DEF Reached
<1>3. CASE In(rect, dot)
  <2>. DEFINE size == Size(rect)
              k == Index(rect, dot)
  <2>1. k \in Nat /\ size \in Nat \ {0} /\ k < size
    BY <1>1, <1>3, IndexFits DEF Size
  <2>2. LastOf(rect, size, dot) = k + (size * ((size - 1 - k) \div size))
    BY DEF LastOf
  <2>3. Reached(rect, size, dot)
    BY <1>3, <2>1 DEF Reached
  <2>. HIDE DEF size, k
  <2>4. (size - 1 - k) \div size = 0
    <3>1. size - 1 - k \in Nat /\ size - 1 - k < 1 * size
      BY <2>1
    <3>2. (size - 1 - k) \div size \in Nat /\ (size - 1 - k) \div size < 1
      BY <2>1, <3>1, Scaled
    <3>. QED BY <3>2
  <2>5. k + (size * 0) = k
    BY <2>1
  <2>. QED BY <1>3, <2>2, <2>3, <2>4, <2>5 DEF size, k
<1>. QED BY <1>2, <1>3

(* Where the picture of a panel starts.                                    *)
LEMMA OriginFits ==
  ASSUME NEW kind, NEW rotation
  PROVE  Origin(kind, rotation).x \in Nat /\ Origin(kind, rotation).y \in Nat
<1>. DEFINE turned == IF rotation \in {180, 270} THEN Gaps.square ELSE 0
            down == Gaps.wide.y + (IF rotation = 0 THEN 1 ELSE 0)
<1>1. Gaps.round \in Nat /\ Gaps.wide.x \in Nat /\ turned \in Nat /\ down \in Nat
  BY LcdAssumption
<1>2. \/ Origin(kind, rotation) = [x |-> 0, y |-> turned]
      \/ Origin(kind, rotation) = [x |-> 0, y |-> Gaps.round]
      \/ Origin(kind, rotation) = [x |-> Gaps.wide.x, y |-> down]
      \/ Origin(kind, rotation) = [x |-> 0, y |-> 0]
  BY DEF Origin
<1>. HIDE DEF turned, down
<1>. QED BY <1>1, <1>2

(* The windows, drawings and views the LCD starts from are typed.          *)
LEMMA LcdParts ==
  /\ NothingDrawn \in Drawings /\ NothingDrawn.op = "none"
  /\ SetUp \in Drawings /\ SetUp.op = "configured"
  /\ AfterReset \in Views /\ InvalidLcd \in Lcds /\ ~InvalidLcd.valid
  /\ \A kind \in DOMAIN Panels, rotation \in Orientations : Screen(kind, rotation) \in Windows
  /\ lcd.valid /\ lcd.kind \in DOMAIN Panels =>
       \A r \in Rects : ~Refused(r) => r \in Windows
<1>1. Memory.w \in Nat /\ Memory.h \in Nat
  BY LcdAssumption
<1>2. NoRect \in Windows
  BY <1>1 DEF NoRect, Windows
<1>3. NothingDrawn \in Drawings /\ NothingDrawn.op = "none"
  BY <1>2 DEF NothingDrawn, Drawings
<1>4. SetUp \in Drawings /\ SetUp.op = "configured"
  BY <1>3 DEF SetUp, Drawings
<1>5. AfterReset \in Views
  BY <1>1 DEF AfterReset, Views, Windows
<1>6. ASSUME NEW kind \in DOMAIN Panels, NEW rotation \in Orientations
      PROVE  Screen(kind, rotation) \in Windows
  <2>1. /\ Panels[kind].w \in Nat /\ Panels[kind].h \in Nat
        /\ Origin(kind, rotation).x + Panels[kind].w <= Memory.w
        /\ Origin(kind, rotation).y + Panels[kind].h <= Memory.h
    BY LcdAssumption
  <2>. QED BY <2>1, OriginFits DEF Screen, Windows
<1>7. ASSUME lcd.valid, lcd.kind \in DOMAIN Panels, NEW r \in Rects, ~Refused(r) PROVE r \in Windows
  <2>1. /\ Panels[lcd.kind].w \in Nat /\ Panels[lcd.kind].h \in Nat
        /\ Panels[lcd.kind].w <= Memory.w /\ Panels[lcd.kind].h <= Memory.h
    <3>1. /\ Panels[lcd.kind].w \in Nat /\ Panels[lcd.kind].h \in Nat
          /\ Origin(lcd.kind, 0).x + Panels[lcd.kind].w <= Memory.w
          /\ Origin(lcd.kind, 0).y + Panels[lcd.kind].h <= Memory.h
      BY <1>7, LcdAssumption
    <3>. QED BY <1>1, <3>1, OriginFits
  <2>2. r \in [x : Nat, y : Nat, w : Nat, h : Nat]
    BY LcdAssumption
  <2>3. r.x + r.w <= Panels[lcd.kind].w /\ r.y + r.h <= Panels[lcd.kind].h
    BY <1>7, <2>1, <2>2 DEF Refused
  <2>. QED BY <1>1, <2>1, <2>2, <2>3 DEF Windows
<1>8. InvalidLcd \in Lcds /\ ~InvalidLcd.valid
  BY LcdAssumption DEF InvalidLcd, Lcds
<1>. QED BY <1>3, <1>4, <1>5, <1>6, <1>7, <1>8

(* The part of a window that has been sent is a window of the memory.      *)
LEMMA WindowedFits ==
  ASSUME NEW old \in Windows, NEW rect \in Windows, NEW sent
  PROVE  Windowed(old, rect, sent) \in Windows
<1>. DEFINE one == sent > 0
            two == sent > 1
<1>1. /\ {rect.x, rect.y, rect.w, rect.h, old.x, old.y, old.w, old.h} \subseteq Nat
      /\ rect.x + rect.w <= Memory.w /\ old.x + old.w <= Memory.w
      /\ rect.y + rect.h <= Memory.h /\ old.y + old.h <= Memory.h
  BY DEF Windows
<1>2. Windowed(old, rect, sent) = [x |-> IF one THEN rect.x ELSE old.x, w |-> IF one THEN rect.w ELSE old.w,
                                   y |-> IF two THEN rect.y ELSE old.y, h |-> IF two THEN rect.h ELSE old.h]
  BY DEF Windowed
<1>. HIDE DEF one, two
<1>3. Windowed(old, rect, sent) \in [x : Nat, y : Nat, w : Nat, h : Nat]
  BY <1>1, <1>2
<1>4. /\ Windowed(old, rect, sent).x + Windowed(old, rect, sent).w <= Memory.w
      /\ Windowed(old, rect, sent).y + Windowed(old, rect, sent).h <= Memory.h
  BY <1>1, <1>2
<1>. QED BY <1>3, <1>4 DEF Windows

(* The controller while the display is configured.                         *)
LEMMA OrientedFits ==
  ASSUME NEW old \in Views, NEW kind \in DOMAIN Panels, NEW rotation \in Orientations, NEW sent \in Nat
  PROVE  LET new == Oriented(old, kind, rotation, sent) IN
         /\ new \in Views /\ new.on = old.on
         /\ sent = 3 => new.rotation = rotation /\ new.rect = Screen(kind, rotation)
<1>. DEFINE rect == Windowed(old.rect, Screen(kind, rotation), sent - 1)
            to == IF sent > 0 THEN rotation ELSE old.rotation
<1>1. rect \in Windows
  BY LcdParts, WindowedFits DEF Views
<1>2. sent = 3 => rect = Screen(kind, rotation)
  BY DEF Windowed, Screen
<1>3. to \in {-1} \cup Orientations /\ (sent = 3 => to = rotation)
  BY DEF Views
<1>4. Oriented(old, kind, rotation, sent) = [old EXCEPT !.rotation = to, !.rect = rect]
  BY DEF Oriented, Views
<1>. HIDE DEF rect, to
<1>. QED BY <1>1, <1>2, <1>3, <1>4 DEF Views

(* What the steps that draw rectangles do, and those that do not.          *)
LEMMA LcdKept ==
  /\ LcdInit => LcdInv
  /\ LcdInv /\ [LcdStep]_lcdVars =>
       /\ LcdInv'
       /\ drawn'.op \in {"rect", "torn", "fill"} =>
            \A dot \in Dots : pixels'[dot] # pixels[dot] => In(drawn'.rect, dot)
       /\ drawn.op = "configured" /\ drawn'.op = "fill" =>
            \A dot \in Dots : IF In(Screen(lcd.kind, view.rotation), dot) THEN pixels'[dot] = <<drawn'.of, 0>>
                              ELSE pixels'[dot] = pixels[dot]
<1>0. Unknown = [dot \in Dots |-> Unknown[dot]]
  BY DEF Unknown
<1>1. ASSUME LcdInit PROVE LcdInv
  <2>1. pixels = Unknown /\ view = AfterReset /\ drawn = NothingDrawn /\ lcd = InvalidLcd
    BY <1>1 DEF LcdInit
  <2>. QED BY <1>0, <2>1, LcdParts DEF LcdInv, RectShows
<1>2. ASSUME LcdInv, [LcdStep]_lcdVars
      PROVE  /\ LcdInv'
             /\ drawn'.op \in {"rect", "torn", "fill"} =>
                  \A dot \in Dots : pixels'[dot] # pixels[dot] => In(drawn'.rect, dot)
             /\ drawn.op = "configured" /\ drawn'.op = "fill" =>
                  \A dot \in Dots :
                    IF In(Screen(lcd.kind, view.rotation), dot) THEN pixels'[dot] = <<drawn'.of, 0>>
                    ELSE pixels'[dot] = pixels[dot]
  <2>. USE <1>2
  <2>. DEFINE Goal == /\ LcdInv'
                      /\ drawn'.op \in {"rect", "torn", "fill"} =>
                           \A dot \in Dots : pixels'[dot] # pixels[dot] => In(drawn'.rect, dot)
                      /\ drawn.op = "configured" /\ drawn'.op = "fill" =>
                           \A dot \in Dots :
                             IF In(Screen(lcd.kind, view.rotation), dot) THEN pixels'[dot] = <<drawn'.of, 0>>
                             ELSE pixels'[dot] = pixels[dot]
  <2>1. CASE UNCHANGED lcdVars
    BY <2>1 DEF LcdInv, RectShows, lcdVars
  <2>2. ASSUME view' \in Views, pixels' \in {pixels, Unknown}, drawn' = NothingDrawn,
               lcd' \in Lcds, lcd'.valid => lcd'.kind \in DOMAIN Panels, lcd'.valid /\ ~lcd'.reset => view'.on
        PROVE  Goal
    BY <1>0, <2>2, LcdParts DEF LcdInv, RectShows
  <2>3. /\ view \in Views /\ view.rect \in Windows /\ drawn \in Drawings
        /\ lcd \in Lcds /\ (lcd.valid => lcd.kind \in DOMAIN Panels)
        /\ lcd.valid /\ ~lcd.reset => view.on
    BY DEF LcdInv, RectShows, Views
  <2>4. ASSUME NEW kind \in DOMAIN Panels, LcdOpen(kind) PROVE Goal
    <3>. DEFINE Ready(wired) == [valid |-> TRUE, kind |-> kind, rotation |-> 0, wired |-> wired,
                                   light |-> wired, reset |-> FALSE]
    <3>0. PICK lit \in BOOLEAN, wired \in BOOLEAN, sent \in Arriving(3) :
            /\ view' = Oriented([AfterReset EXCEPT !.on = lit], kind, 0, sent)
            /\ sent = 3 => lit /\ lcd' = Ready(wired) /\ drawn' = SetUp
            /\ sent # 3 => lcd' = InvalidLcd /\ drawn' = NothingDrawn
            /\ pixels' = Unknown
      BY <2>4 DEF LcdOpen, Arriving
    <3>9. Ready(wired) \in Lcds /\ Ready(wired).valid /\ Ready(wired).kind = kind
      BY LcdAssumption DEF Lcds
    <3>. HIDE DEF Ready
    <3>1. /\ view' = Oriented([AfterReset EXCEPT !.on = lit], kind, 0, sent)
          /\ sent = 3 => /\ lit /\ lcd' \in Lcds /\ lcd'.valid /\ lcd'.kind = kind
                         /\ drawn' = SetUp
          /\ sent # 3 => lcd' = InvalidLcd /\ drawn' = NothingDrawn
          /\ pixels' = Unknown
      BY <3>0, <3>9
    <3>2. [AfterReset EXCEPT !.on = lit] \in Views /\ [AfterReset EXCEPT !.on = lit].on = lit
      BY LcdParts DEF Views
    <3>3. /\ view' \in Views /\ view'.on = lit
          /\ sent = 3 => view'.rotation = 0 /\ view'.rect = Screen(kind, 0)
      <4>1. sent \in Nat /\ 0 \in Orientations
        BY LcdAssumption DEF Arriving
      <4>. DEFINE old == [AfterReset EXCEPT !.on = lit]
      <4>. HIDE DEF old
      <4>2. LET new == Oriented(old, kind, 0, sent) IN
            /\ new \in Views /\ new.on = old.on
            /\ sent = 3 => new.rotation = 0 /\ new.rect = Screen(kind, 0)
        BY <3>2, <4>1, OrientedFits DEF old
      <4>. QED BY <3>1, <3>2, <4>2 DEF old
    <3>4. CASE sent = 3
      BY <1>0, <3>1, <3>3, <3>4, LcdParts, LcdAssumption DEF LcdInv, RectShows
    <3>5. CASE sent # 3
      BY <2>2, <3>1, <3>3, <3>5, LcdParts
    <3>. QED BY <3>4, <3>5
  <2>5. CASE LcdOpenFails
    BY <2>2, <2>3, <2>5 DEF LcdOpenFails
  <2>6. CASE LcdReset
    <3>1. /\ drawn' = NothingDrawn
          /\ \/ view' = AfterReset /\ pixels' = Unknown /\ lcd' = [lcd EXCEPT !.reset = TRUE]
             \/ UNCHANGED <<lcd, view, pixels>>
      BY <2>6 DEF LcdReset
    <3>2. LET new == [lcd EXCEPT !.reset = TRUE] IN
          new \in Lcds /\ new.valid = lcd.valid /\ new.kind = lcd.kind /\ new.reset
      BY <2>3 DEF Lcds
    <3>3. CASE view' = AfterReset /\ pixels' = Unknown /\ lcd' = [lcd EXCEPT !.reset = TRUE]
      <4>1. lcd'.valid /\ ~lcd'.reset => view'.on
        BY <3>2, <3>3
      <4>. QED BY <2>2, <2>3, <3>1, <3>2, <3>3, <4>1, LcdParts
    <3>. QED BY <2>2, <2>3, <3>1, <3>3
  <2>7. CASE LcdClose
    <3>1. PICK sent \in Arriving(1) : view' = [view EXCEPT !.on = @ /\ sent = 0]
      BY <2>7 DEF LcdClose
    <3>2. view' \in Views
      <4>. DEFINE on == view.on /\ sent = 0
      <4>1. view' = [view EXCEPT !.on = on] /\ on \in BOOLEAN /\ view \in Views
        BY <2>3, <3>1 DEF Views
      <4>. HIDE DEF on
      <4>. QED BY <4>1 DEF Views
    <3>3. drawn' = NothingDrawn /\ pixels' = pixels /\ lcd' = InvalidLcd
      BY <2>7 DEF LcdClose
    <3>. QED BY <2>2, <3>2, <3>3, LcdParts
  <2>8. ASSUME NEW rotation \in Orientations, SetRotation(rotation) PROVE Goal
    <3>1. PICK sent \in Arriving(3) :
            /\ view' = Oriented(view, lcd.kind, rotation, sent)
            /\ drawn' = IF sent = 3 THEN SetUp ELSE NothingDrawn
            /\ pixels' = IF sent = 0 THEN pixels ELSE Unknown
      BY <2>8 DEF SetRotation
    <3>2. /\ lcd.valid /\ lcd' \in Lcds
          /\ lcd'.valid = lcd.valid /\ lcd'.kind = lcd.kind /\ lcd'.reset = lcd.reset
      BY <2>3, <2>8 DEF SetRotation, Lcds
    <3>3. /\ view' \in Views /\ view'.on = view.on
          /\ sent = 3 => view'.rotation = rotation /\ view'.rect = Screen(lcd.kind, rotation)
      <4>1. sent \in Nat
        BY DEF Arriving
      <4>. QED BY <2>3, <3>1, <3>2, <4>1, OrientedFits
    <3>4. CASE sent = 3
      <4>1. pixels' = Unknown /\ drawn' = SetUp
        BY <3>1, <3>4
      <4>. QED BY <1>0, <2>3, <3>2, <3>3, <3>4, <4>1, LcdParts DEF LcdInv, RectShows
    <3>5. CASE sent # 3
      BY <2>2, <2>3, <3>1, <3>2, <3>3, <3>5
    <3>. QED BY <3>4, <3>5
  <2>9. ASSUME NEW bright \in BOOLEAN, SetBacklight(bright) PROVE Goal
    <3>1. UNCHANGED <<view, pixels, drawn>> /\ lcd' \in {lcd, [lcd EXCEPT !.light = bright]}
      BY <2>9 DEF SetBacklight
    <3>2. lcd' \in Lcds /\ lcd'.valid = lcd.valid /\ lcd'.kind = lcd.kind /\ lcd'.reset = lcd.reset
      BY <2>3, <3>1 DEF Lcds
    <3>3. drawn'.op = drawn.op
      BY <3>1
    <3>4. Goal
      BY <3>1, <3>2, <3>3 DEF LcdInv, RectShows
    <3>. QED BY <3>4
  <2>10. ASSUME NEW colour \in Pictures, Fill(colour) PROVE Goal
    <3>. DEFINE all == Size(Panels[lcd.kind])
    <3>1. lcd.valid /\ lcd.kind \in DOMAIN Panels /\ UNCHANGED <<lcd, view>>
      BY <2>3, <2>10 DEF Fill
    <3>2. PICK many \in {0, 1, all} :
            /\ pixels' = [dot \in Dots |-> IF Reached(view.rect, many, dot) THEN <<colour, 0>> ELSE pixels[dot]]
            /\ drawn' = [op |-> IF many = all THEN "fill" ELSE "torn", rect |-> view.rect, of |-> colour]
      BY <2>10 DEF Fill
    <3>3. /\ drawn' \in Drawings /\ drawn'.op \in {"fill", "torn"} /\ (drawn'.op = "fill" => many = all)
          /\ drawn'.rect = view.rect /\ drawn'.of = colour
      BY <2>3, <3>2 DEF Drawings
    <3>4. /\ pixels' = [dot \in Dots |-> pixels'[dot]]
          /\ \A dot \in Dots : pixels'[dot] # pixels[dot] => In(view.rect, dot)
      BY <3>2 DEF Reached
    <3>5. ASSUME drawn.op = "configured", many = all, NEW dot \in Dots
          PROVE  IF In(Screen(lcd.kind, view.rotation), dot) THEN pixels'[dot] = <<colour, 0>>
                 ELSE pixels'[dot] = pixels[dot]
      <4>1. view.rect = Screen(lcd.kind, view.rotation) /\ Size(view.rect) = all
        BY <3>5 DEF LcdInv, Screen, Size
      <4>2. {view.rect.x, view.rect.y, view.rect.w, view.rect.h} \subseteq Nat
        BY <2>3 DEF Windows
      <4>3. Reached(view.rect, many, dot) <=> In(view.rect, dot)
        BY <3>5, <4>1, <4>2, StreamedOnce
      <4>. QED BY <3>2, <4>1, <4>3
    <3>. QED BY <3>1, <3>3, <3>4, <3>5 DEF LcdInv, RectShows
  <2>11. ASSUME NEW rect \in Rects, NEW picture \in Pictures, UpdateRect(rect, picture) PROVE Goal
    <3>1. /\ lcd.valid /\ lcd' = lcd
          /\ \/ drawn' = NothingDrawn /\ view' = view /\ pixels' = pixels
             \/ /\ ~Refused(rect) /\ drawn' = NothingDrawn /\ pixels' = pixels
                /\ \E sent : view' = [view EXCEPT !.rect = Windowed(view.rect, rect, sent)]
             \/ /\ ~Refused(rect) /\ view' = [view EXCEPT !.rect = rect]
                /\ \E many \in {1, Size(rect)} :
                     /\ pixels' = [dot \in Dots |-> IF Reached(rect, many, dot)
                                                    THEN <<picture, LastOf(rect, many, dot)>> ELSE pixels[dot]]
                     /\ drawn' = [op |-> IF many = Size(rect) THEN "rect" ELSE "torn",
                                  rect |-> rect, of |-> picture]
      BY <2>3, <2>11 DEF UpdateRect, Views
    <3>2. ASSUME NEW to \in Windows PROVE [view EXCEPT !.rect = to] \in Views /\ [view EXCEPT !.rect = to].on = view.on
      BY <2>3 DEF Views
    <3>3. CASE drawn' = NothingDrawn /\ view' = view /\ pixels' = pixels
      BY <2>2, <2>3, <3>1, <3>3
    <3>4. CASE /\ ~Refused(rect) /\ drawn' = NothingDrawn /\ pixels' = pixels
               /\ \E sent : view' = [view EXCEPT !.rect = Windowed(view.rect, rect, sent)]
      <4>1. PICK sent : view' = [view EXCEPT !.rect = Windowed(view.rect, rect, sent)]
        BY <3>4
      <4>2. Windowed(view.rect, rect, sent) \in Windows
        BY <2>3, <3>1, <3>4, LcdParts, WindowedFits
      <4>3. view' \in Views /\ view'.on = view.on
        BY <3>2, <4>1, <4>2
      <4>. QED BY <2>2, <2>3, <3>1, <3>4, <4>3
    <3>5. ASSUME ~Refused(rect), view' = [view EXCEPT !.rect = rect], NEW many \in {1, Size(rect)},
                 pixels' = [dot \in Dots |-> IF Reached(rect, many, dot)
                                             THEN <<picture, LastOf(rect, many, dot)>> ELSE pixels[dot]],
                 drawn' = [op |-> IF many = Size(rect) THEN "rect" ELSE "torn", rect |-> rect, of |-> picture]
          PROVE  Goal
      <4>1. rect \in Windows /\ {rect.x, rect.y, rect.w, rect.h} \subseteq Nat
        BY <2>3, <3>1, <3>5, LcdParts, LcdAssumption
      <4>2. view' \in Views /\ view'.on = view.on
        BY <3>2, <3>5, <4>1
      <4>3. /\ drawn' \in Drawings /\ drawn'.op \in {"rect", "torn"} /\ (drawn'.op = "rect" => many = Size(rect))
            /\ drawn'.rect = rect /\ drawn'.of = picture
        BY <3>5, <4>1 DEF Drawings
      <4>4. /\ pixels' = [dot \in Dots |-> pixels'[dot]]
            /\ \A dot \in Dots : pixels'[dot] # pixels[dot] => In(rect, dot)
        BY <3>5 DEF Reached
      <4>5. ASSUME many = Size(rect), NEW dot \in Dots, In(rect, dot)
            PROVE  pixels'[dot] = <<picture, Index(rect, dot)>>
        BY <3>5, <4>1, <4>5, StreamedOnce
      <4>6. RectShows'
        BY <2>3, <3>1, <4>2, <4>3, <4>5 DEF RectShows, Index
      <4>. QED BY <2>3, <3>1, <4>2, <4>3, <4>4, <4>6 DEF LcdInv
    <3>. QED BY <3>1, <3>3, <3>4, <3>5
  <2>. QED BY <2>1, <2>4, <2>5, <2>6, <2>7, <2>8, <2>9, <2>10, <2>11 DEF LcdStep
<1>. QED BY <1>1, <1>2

-----------------------------------------------------------------------------
(* Frames and the display that shows them.                                 *)

(* Where a number of the form a * s + b has its parts.                     *)
LEMMA PartsUnique ==
  ASSUME NEW s \in Nat, NEW a \in Nat, NEW b \in Nat, b < s, NEW c \in Nat, NEW d \in Nat, d < s,
         a * s + b = c * s + d
  PROVE  a = c /\ b = d
<1>1. ASSUME NEW i \in Nat, NEW j \in Nat, NEW k \in Nat, NEW l \in Nat, j < s, l < s,
             i * s + j = k * s + l, i < k
      PROVE  FALSE
  <2>1. i + 1 <= k /\ i * s \in Nat /\ k * s \in Nat
    BY <1>1
  <2>2. (i + 1) * s <= k * s
    BY <2>1
  <2>3. (i + 1) * s = i * s + s
    BY <1>1
  <2>. QED BY <1>1, <2>1, <2>2, <2>3
<1>2. ~(a < c) /\ ~(c < a)
  BY <1>1
<1>3. a = c
  BY <1>2
<1>4. a * s \in Nat
  OBVIOUS
<1>. QED BY <1>3, <1>4

(* A number below a product has its parts below the factors.               *)
LEMMA PartsBelow ==
  ASSUME NEW s \in Nat \ {0}, NEW n \in Nat, NEW i \in Nat, i < n * s
  PROVE  /\ i \div s \in Nat /\ i \div s < n /\ i % s \in Nat /\ i % s < s
         /\ (i \div s) * s + (i % s) = i
<1>1. i \div s \in Nat /\ i \div s < n
  BY Scaled
<1>2. i % s \in Nat /\ i % s < s /\ (i \div s) * s + (i % s) = i
  OBVIOUS
<1>. QED BY <1>1, <1>2

(* A row and a column make an address inside the rows there are.           *)
LEMMA PartsFit ==
  ASSUME NEW s \in Nat, NEW n \in Nat, NEW a \in Nat, a < n, NEW b \in Nat, b < s
  PROVE  a * s + b \in Nat /\ a * s + b < n * s
<1>1. (a + 1) * s <= n * s
  BY a + 1 <= n
<1>2. (a + 1) * s = a * s + s /\ a * s \in Nat /\ n * s \in Nat
  OBVIOUS
<1>. QED BY <1>1, <1>2

(* A number below the modulus is its own remainder.                        *)
LEMMA SmallMod == ASSUME NEW a \in Nat, NEW b \in Nat, a < b PROVE a % b = a
OBVIOUS

(* The stride rounds the width up to the alignment.                        *)
LEMMA RowFits == ASSUME NEW a \in Nat \ {0} PROVE ((FrameW + a - 1) \div a) * a \in Nat
                                                /\ FrameW <= ((FrameW + a - 1) \div a) * a
<1>. DEFINE q == (FrameW + a - 1) \div a
            r == (FrameW + a - 1) % a
<1>1. FrameW + a - 1 \in Nat /\ FrameW \in Nat
  BY PixelsAssumption
<1>2. q \in Nat /\ r \in Nat /\ r <= a - 1 /\ q * a + r = FrameW + a - 1
  BY <1>1
<1>3. q * a \in Nat
  BY <1>2
<1>. HIDE DEF q, r
<1>4. q * a \in Nat /\ FrameW <= q * a
  BY <1>1, <1>2, <1>3
<1>. QED BY <1>4 DEF q

(* A side of a rectangle, where it overlaps that of the frame.             *)
LEMMA ClippedSide ==
  ASSUME NEW side \in Nat \ {0}, side + 1 < Int16, NEW at \in -1 .. side - 1, NEW size \in 0 .. side + 1,
         size = 0 \/ at + size > 0
  PROVE  LET c == Clipped(at, size, side) IN
         /\ c[1] \in Nat /\ c[2] \in Nat /\ c[1] + c[2] <= side
         /\ \A k \in 0 .. side - 1 :
              c[1] <= k /\ k < c[1] + c[2] <=> size = 0 \/ (k >= at /\ k < at + size)
<1>1. Int16 \in Nat
  BY PixelsAssumption
<1>2. CASE size = 0
  <2>1. Clipped(at, size, side) = <<0, side>>
    BY <1>2 DEF Clipped
  <2>. QED BY <1>2, <2>1
<1>3. CASE size # 0 /\ at < 0
  <2>1. (size + at) \in Nat /\ size + at < Int16 /\ size + at <= side
    BY <1>1, <1>3
  <2>2. (size + at) % Int16 = size + at
    BY <1>1, <2>1, SmallMod
  <2>3. Clipped(at, size, side) = <<0, size + at>>
    BY <1>3, <2>1, <2>2 DEF Clipped
  <2>. QED BY <1>3, <2>1, <2>3
<1>4. CASE size # 0 /\ at >= 0 /\ at + size <= side
  <2>1. Clipped(at, size, side) = <<at, size>>
    BY <1>4 DEF Clipped
  <2>. QED BY <1>4, <2>1
<1>5. CASE size # 0 /\ at >= 0 /\ at + size > side
  <2>1. side - at \in Nat /\ side - at < Int16
    BY <1>1, <1>5
  <2>2. (side - at) % Int16 = side - at
    BY <1>1, <2>1, SmallMod
  <2>3. Clipped(at, size, side) = <<at, side - at>>
    BY <1>5, <2>2 DEF Clipped
  <2>. QED BY <1>5, <2>1, <2>3
<1>. QED BY <1>2, <1>3, <1>4, <1>5

(* The rows of a rectangle in the memory of a frame.                       *)
Address(p) == p[2] * buffer.stride + p[1]
Inside(x, y, p) == x[1] <= p[1] /\ p[1] < x[1] + x[2] /\ y[1] <= p[2] /\ p[2] < y[1] + y[2]

(* The cells a rectangle fills are those of the points inside it.          *)
LEMMA FilledInside ==
  ASSUME buffer.stride \in Nat, FrameW <= buffer.stride,
         NEW x, x[1] \in Nat, x[2] \in Nat, x[1] + x[2] <= FrameW,
         NEW y, y[1] \in Nat, y[2] \in Nat, y[1] + y[2] <= FrameH
  PROVE  /\ \A p \in Points : Address(p) \in Filled(x, y) <=> Inside(x, y, p)
         /\ \A i \in Filled(x, y) : \E p \in Points : i = Address(p)
<1>. DEFINE s == buffer.stride
<1>1. FrameW \in Nat \ {0} /\ FrameH \in Nat \ {0} /\ s \in Nat \ {0}
  BY PixelsAssumption
<1>2. \A p \in Points : /\ p[1] \in Nat /\ p[1] < FrameW /\ p[1] < s
                        /\ p[2] \in Nat /\ p[2] < FrameH
  BY <1>1 DEF Points
<1>3. CASE x[2] = FrameW /\ x[1] = 0 /\ s = FrameW
  <2>1. /\ y[1] * s \in Nat /\ x[2] * y[2] \in Nat
        /\ y[1] * s + x[2] * y[2] = (y[1] + y[2]) * s
    BY <1>1, <1>3
  <2>2. Filled(x, y) = (y[1] * s) .. ((y[1] + y[2]) * s - 1)
    <3>1. Filled(x, y) = (y[1] * s) .. (y[1] * s + x[2] * y[2] - 1)
      BY <1>3 DEF Filled
    <3>. HIDE DEF s
    <3>. QED BY <2>1, <3>1
  <2>3. ASSUME NEW p \in Points PROVE Address(p) \in Filled(x, y) <=> Inside(x, y, p)
    <3>1. Inside(x, y, p) <=> y[1] <= p[2] /\ p[2] < y[1] + y[2]
      BY <1>2, <1>3 DEF Inside
    <3>2. Address(p) = p[2] * s + p[1] /\ p[2] * s \in Nat
      BY <1>1, <1>2 DEF Address
    <3>3. ASSUME y[1] <= p[2] PROVE y[1] * s <= Address(p)
      <4>1. y[1] * s <= p[2] * s
        BY <1>1, <1>2, <3>3
      <4>. QED BY <1>1, <1>2, <2>1, <3>2, <4>1
    <3>4. ASSUME p[2] < y[1] PROVE Address(p) < y[1] * s
      BY <1>1, <1>2, <3>2, <3>4, PartsFit
    <3>5. ASSUME p[2] < y[1] + y[2] PROVE Address(p) < (y[1] + y[2]) * s
      <4>1. y[1] + y[2] \in Nat
        OBVIOUS
      <4>. QED BY <1>1, <1>2, <3>2, <3>5, <4>1, PartsFit
    <3>6. ASSUME y[1] + y[2] <= p[2] PROVE (y[1] + y[2]) * s <= Address(p)
      <4>1. (y[1] + y[2]) * s <= p[2] * s
        BY <1>1, <1>2, <3>6
      <4>. QED BY <1>1, <1>2, <3>2, <4>1
    <3>7. Address(p) \in Nat /\ (y[1] + y[2]) * s \in Nat
      BY <1>1, <1>2, <3>2
    <3>. HIDE DEF s
    <3>. QED BY <1>2, <2>1, <2>2, <3>1, <3>3, <3>4, <3>5, <3>6, <3>7
  <2>4. ASSUME NEW i \in Filled(x, y) PROVE \E p \in Points : i = Address(p)
    <3>1. (y[1] + y[2]) * s <= FrameH * s /\ (y[1] + y[2]) * s \in Nat /\ FrameH * s \in Nat
      BY <1>1
    <3>2. i \in Nat /\ i < FrameH * s
      <4>. DEFINE low == y[1] * s
                  high == (y[1] + y[2]) * s
                  top == FrameH * s
      <4>1. low \in Nat /\ high \in Nat /\ top \in Nat /\ high <= top /\ i \in low .. high - 1
        BY <2>1, <2>2, <3>1
      <4>. HIDE DEF low, high, top
      <4>2. i \in Nat /\ i < top
        BY <4>1
      <4>. QED BY <4>2 DEF top
    <3>3. /\ i \div s \in Nat /\ i \div s < FrameH /\ i % s \in Nat /\ i % s < s
          /\ (i \div s) * s + (i % s) = i
      BY <1>1, <3>2, PartsBelow
    <3>4. <<i % s, i \div s>> \in Points
      BY <1>1, <1>3, <3>3 DEF Points
    <3>. QED BY <3>3, <3>4 DEF Address
  <2>. QED BY <2>3, <2>4
<1>4. CASE ~(x[2] = FrameW /\ x[1] = 0 /\ s = FrameW)
  <2>1. Filled(x, y) = {(y[1] + j) * s + x[1] + i : i \in 0 .. x[2] - 1, j \in 0 .. y[2] - 1}
    BY <1>4 DEF Filled
  <2>2. \A i \in 0 .. x[2] - 1, j \in 0 .. y[2] - 1 :
          /\ <<x[1] + i, y[1] + j>> \in Points
          /\ (y[1] + j) * s + x[1] + i = Address(<<x[1] + i, y[1] + j>>)
          /\ x[1] + i \in Nat /\ x[1] + i < s /\ y[1] + j \in Nat
    <3>. SUFFICES ASSUME NEW i \in 0 .. x[2] - 1, NEW j \in 0 .. y[2] - 1
                  PROVE  /\ <<x[1] + i, y[1] + j>> \in Points
                         /\ (y[1] + j) * s + x[1] + i = Address(<<x[1] + i, y[1] + j>>)
                         /\ x[1] + i \in Nat /\ x[1] + i < s /\ y[1] + j \in Nat
      OBVIOUS
    <3>1. x[1] + i \in 0 .. FrameW - 1 /\ y[1] + j \in 0 .. FrameH - 1
      BY <1>1
    <3>2. (y[1] + j) * s \in Nat
      BY <1>1
    <3>3. (y[1] + j) * s + x[1] + i = (y[1] + j) * s + (x[1] + i)
      BY <3>2
    <3>. QED BY <1>1, <3>1, <3>3 DEF Points, Address
  <2>3. ASSUME NEW p \in Points, Inside(x, y, p) PROVE Address(p) \in Filled(x, y)
    <3>1. p[1] - x[1] \in 0 .. x[2] - 1 /\ p[2] - y[1] \in 0 .. y[2] - 1
      BY <1>2, <2>3 DEF Inside
    <3>2. (y[1] + (p[2] - y[1])) * s + x[1] + (p[1] - x[1]) = Address(p)
      <4>1. y[1] + (p[2] - y[1]) = p[2] /\ p[2] * s \in Nat
        BY <1>1, <1>2
      <4>. QED BY <1>2, <4>1 DEF Address
    <3>. QED BY <2>1, <3>1, <3>2
  <2>4. ASSUME NEW p \in Points, Address(p) \in Filled(x, y) PROVE Inside(x, y, p)
    <3>1. PICK i \in 0 .. x[2] - 1, j \in 0 .. y[2] - 1 : Address(p) = (y[1] + j) * s + x[1] + i
      BY <2>1, <2>4
    <3>2. p[2] * s + p[1] = (y[1] + j) * s + (x[1] + i)
      BY <2>2, <3>1 DEF Address
    <3>3. /\ p[2] = y[1] + j /\ p[1] = x[1] + i
      <4>. DEFINE a == p[2]
                  b == p[1]
                  c == y[1] + j
                  d == x[1] + i
      <4>1. a \in Nat /\ b \in Nat /\ c \in Nat /\ d \in Nat /\ b < s /\ d < s /\ s \in Nat
        BY <1>1, <1>2, <2>2
      <4>2. a * s + b = c * s + d
        BY <3>2
      <4>. HIDE DEF s, a, b, c, d
      <4>3. a = c /\ b = d
        BY <4>1, <4>2, PartsUnique
      <4>. QED BY <4>3 DEF a, b, c, d
    <3>. QED BY <3>3 DEF Inside
  <2>5. \A i \in Filled(x, y) : \E p \in Points : i = Address(p)
    <3>. SUFFICES ASSUME NEW k \in Filled(x, y) PROVE \E p \in Points : k = Address(p)
      OBVIOUS
    <3>1. PICK i \in 0 .. x[2] - 1, j \in 0 .. y[2] - 1 : k = (y[1] + j) * s + x[1] + i
      BY <2>1
    <3>2. <<x[1] + i, y[1] + j>> \in Points /\ k = Address(<<x[1] + i, y[1] + j>>)
      BY <2>2, <3>1
    <3>. QED BY <3>2
  <2>. QED BY <2>3, <2>4, <2>5
<1>. QED BY <1>3, <1>4

-----------------------------------------------------------------------------
(* A frame of colours: each point is as it was asked to be, and what lies  *)
(* between the rows is as it was allocated.                                *)
FrameOK ==
  buffer.format = "rgba32" =>
    /\ buffer.stride \in Nat /\ FrameW <= buffer.stride
    /\ buffer = [buf |-> buffer.buf, stride |-> buffer.stride, cells |-> buffer.cells, format |-> "rgba32"]
    /\ buffer.cells = [i \in 0 .. buffer.stride * FrameH - 1 |-> buffer.cells[i]]
    /\ \A p \in Points : buffer.cells[Address(p)] = canvas[p]
    /\ \A i \in DOMAIN buffer.cells : (\A p \in Points : i # Address(p)) => buffer.cells[i] = 0

DisplayObjects == {"window", "renderer", "texture"}

DisplayInv ==
  /\ display \in [pc : {"closed", "vsync", "texture", "frame", "open"}, time : 0 .. MaxTicks]
  /\ ticks \in 0 .. MaxTicks
  /\ display.pc = "closed" => sdl = {}
  /\ display.pc \in {"vsync", "texture"} => sdl = {"window", "renderer"}
  /\ display.pc \in {"frame", "open"} => sdl = DisplayObjects
  /\ display.pc = "open" => ran \in {Undrawn, display.time} /\ (ran = Undrawn => display.time = 0)
  /\ display.pc # "open" => ran = Undrawn

PixelsInv == FrameOK /\ DisplayInv

(* Every point has a cell of its own in the buffer.                        *)
LEMMA AddressFits ==
  ASSUME buffer.stride \in Nat, FrameW <= buffer.stride
  PROVE  /\ \A p \in Points : Address(p) \in 0 .. buffer.stride * FrameH - 1
         /\ \A p, q \in Points : Address(p) = Address(q) => p = q
<1>. DEFINE s == buffer.stride
<1>1. /\ FrameH \in Nat /\ FrameW \in Nat
      /\ \A p \in Points : /\ p[1] \in Nat /\ p[1] < s /\ p[2] \in Nat /\ p[2] < FrameH
                           /\ p = <<p[1], p[2]>>
  BY PixelsAssumption DEF Points
<1>2. ASSUME NEW p \in Points PROVE Address(p) \in 0 .. s * FrameH - 1
  <2>1. p[2] * s + p[1] \in Nat /\ p[2] * s + p[1] < FrameH * s
    BY <1>1, PartsFit
  <2>2. FrameH * s = s * FrameH /\ s * FrameH \in Nat
    BY <1>1
  <2>. HIDE DEF s
  <2>3. p[2] * s + p[1] \in 0 .. s * FrameH - 1
    BY <2>1, <2>2
  <2>. QED BY <2>3 DEF Address, s
<1>3. ASSUME NEW p \in Points, NEW q \in Points, Address(p) = Address(q) PROVE p = q
  <2>1. p[2] * s + p[1] = q[2] * s + q[1]
    BY <1>3 DEF Address
  <2>2. p[2] = q[2] /\ p[1] = q[1]
    <3>. DEFINE a == p[2]
                b == p[1]
                c == q[2]
                d == q[1]
    <3>1. a \in Nat /\ b \in Nat /\ c \in Nat /\ d \in Nat /\ b < s /\ d < s /\ s \in Nat
      BY <1>1
    <3>2. a * s + b = c * s + d
      BY <2>1
    <3>. HIDE DEF s, a, b, c, d
    <3>3. a = c /\ b = d
      BY <3>1, <3>2, PartsUnique
    <3>. QED BY <3>3 DEF a, b, c, d
  <2>. QED BY <1>1, <2>2
<1>. QED BY <1>2, <1>3

(* The cells that are coloured are the points that are.                    *)
LEMMA FrameShows == PixelsInv => ClearsRect /\ NothingLeft
<1>. SUFFICES ASSUME PixelsInv PROVE ClearsRect
  BY DEF PixelsInv, DisplayInv, NothingLeft
<1>. SUFFICES ASSUME buffer.format = "rgba32"
              PROVE  /\ \A p \in Points : Pixel(buffer, p) = canvas[p]
                     /\ Cardinality({i \in DOMAIN buffer.cells : buffer.cells[i] # 0})
                          = Cardinality({p \in Points : canvas[p] # 0})
  BY DEF ClearsRect
<1>. DEFINE S == {p \in Points : canvas[p] # 0}
            T == {i \in DOMAIN buffer.cells : buffer.cells[i] # 0}
            f == [p \in S |-> Address(p)]
<1>1. /\ buffer.stride \in Nat /\ FrameW <= buffer.stride
      /\ DOMAIN buffer.cells = 0 .. buffer.stride * FrameH - 1
      /\ \A p \in Points : buffer.cells[Address(p)] = canvas[p]
      /\ \A i \in DOMAIN buffer.cells : (\A p \in Points : i # Address(p)) => buffer.cells[i] = 0
  BY DEF PixelsInv, FrameOK
<1>2. \A p \in Points : Pixel(buffer, p) = canvas[p]
  BY <1>1 DEF Pixel, Address
<1>3. f \in [S -> T]
  BY <1>1, AddressFits
<1>4. \A p, q \in S : f[p] = f[q] => p = q
  BY <1>1, AddressFits
<1>5. \A i \in T : \E p \in S : f[p] = i
  BY <1>1
<1>6. ExistsBijection(S, T)
  <2>. HIDE DEF S, T, f
  <2>1. f \in Bijection(S, T)
    BY <1>3, <1>4, <1>5, Fun_IsBij
  <2>. QED BY <2>1 DEF ExistsBijection
<1>7. IsFiniteSet(S)
  <2>1. IsFiniteSet(0 .. FrameW - 1) /\ IsFiniteSet(0 .. FrameH - 1)
    <3>1. 0 \in Int /\ FrameW - 1 \in Int /\ FrameH - 1 \in Int
      BY PixelsAssumption
    <3>. QED BY <3>1, FS_Interval
  <2>2. IsFiniteSet(Points)
    BY <2>1, FS_Product DEF Points
  <2>. QED BY <2>2, FS_Subset
<1>8. Cardinality(T) = Cardinality(S)
  <2>. HIDE DEF S, T
  <2>. QED BY <1>6, <1>7, FS_Bijection
<1>. QED BY <1>2, <1>8

(* A frame as it is made shows the blank canvas.                           *)
LEMMA NewFrameOK ==
  ASSUME NEW format \in {"rgba32", "mono"}, NEW align \in Nat \ {0},
         buffer' = NewFrame(format, align), canvas' = Blank
  PROVE  FrameOK'
<1>. DEFINE s == Stride(format, align)
<1>1. /\ buffer'.format = format /\ buffer'.stride = s /\ buffer'.buf = "malloc"
      /\ buffer' = [buf |-> "malloc", stride |-> s, format |-> format,
                    cells |-> [i \in 0 .. s * FrameH - 1 |-> 0]]
  BY DEF NewFrame
<1>2. CASE format = "mono"
  BY <1>1, <1>2 DEF FrameOK
<1>3. CASE format = "rgba32"
  <2>1. s \in Nat /\ FrameW <= s
    BY <1>3, RowFits DEF Stride
  <2>2. \A p \in Points : Address(p)' \in 0 .. s * FrameH - 1
    <3>1. \A p \in Points : p[1] \in Nat /\ p[1] < s /\ p[2] \in Nat /\ p[2] < FrameH /\ FrameH \in Nat
      BY <2>1, PixelsAssumption DEF Points
    <3>2. ASSUME NEW p \in Points PROVE p[2] * s + p[1] \in 0 .. s * FrameH - 1
      <4>1. p[2] * s + p[1] \in Nat /\ p[2] * s + p[1] < FrameH * s
        BY <2>1, <3>1, PartsFit
      <4>2. FrameH * s = s * FrameH /\ s * FrameH \in Nat
        BY <2>1, <3>1
      <4>. HIDE DEF s
      <4>. QED BY <4>1, <4>2
    <3>3. \A p \in Points : Address(p)' = p[2] * s + p[1]
      BY <1>1 DEF Address
    <3>. QED BY <3>2, <3>3
  <2>3. buffer'.cells = [i \in 0 .. s * FrameH - 1 |-> 0]
    BY <1>1
  <2>. HIDE DEF s
  <2>4. buffer' = [buf |-> buffer'.buf, stride |-> buffer'.stride, cells |-> buffer'.cells, format |-> "rgba32"]
    BY <1>1, <1>3, <2>3
  <2>. QED BY <1>1, <2>1, <2>2, <2>3, <2>4 DEF FrameOK, Blank
<1>. QED BY <1>2, <1>3

(* Clearing a rectangle paints its points and no other cell.               *)
LEMMA ClearOK ==
  ASSUME FrameOK, NEW ink, NEW x \in -1 .. FrameW - 1, NEW y \in -1 .. FrameH - 1,
         NEW w \in 0 .. FrameW + 1, NEW h \in 0 .. FrameH + 1, Overlaps(x, y, w, h),
         buffer' = Cleared(buffer, ink, x, y, w, h), canvas' = Painted(ink, x, y, w, h)
  PROVE  FrameOK'
<1>. DEFINE cx == Clipped(x, w, FrameW)
            cy == Clipped(y, h, FrameH)
            in(p) == /\ w = 0 \/ (p[1] >= x /\ p[1] < x + w)
                     /\ h = 0 \/ (p[2] >= y /\ p[2] < y + h)
<1>1. CASE buffer.format = "mono"
  BY <1>1 DEF Cleared, FrameOK
<1>2. CASE buffer.format \notin {"mono", "rgba32"}
  <2>1. buffer' = [buffer EXCEPT !.cells = [i \in DOMAIN @ |-> IF i \in Filled(cx, cy) THEN ink ELSE @[i]]]
    BY <1>2 DEF Cleared
  <2>2. buffer'.format = buffer.format
    BY <2>1
  <2>. QED BY <1>2, <2>2 DEF FrameOK
<1>3. CASE buffer.format = "rgba32"
  <2>1. /\ buffer.stride \in Nat /\ FrameW <= buffer.stride
        /\ buffer = [buf |-> buffer.buf, stride |-> buffer.stride, cells |-> buffer.cells,
                     format |-> "rgba32"]
        /\ buffer.cells = [i \in 0 .. buffer.stride * FrameH - 1 |-> buffer.cells[i]]
        /\ \A p \in Points : buffer.cells[Address(p)] = canvas[p]
        /\ \A i \in DOMAIN buffer.cells : (\A p \in Points : i # Address(p)) => buffer.cells[i] = 0
    BY <1>3 DEF FrameOK
  <2>2. /\ FrameW \in Nat \ {0} /\ FrameH \in Nat \ {0} /\ FrameW + 1 < Int16 /\ FrameH + 1 < Int16
    BY PixelsAssumption
  <2>3. /\ cx[1] \in Nat /\ cx[2] \in Nat /\ cx[1] + cx[2] <= FrameW
        /\ \A k \in 0 .. FrameW - 1 : cx[1] <= k /\ k < cx[1] + cx[2] <=> w = 0 \/ (k >= x /\ k < x + w)
    BY <2>2, ClippedSide DEF Overlaps
  <2>4. /\ cy[1] \in Nat /\ cy[2] \in Nat /\ cy[1] + cy[2] <= FrameH
        /\ \A k \in 0 .. FrameH - 1 : cy[1] <= k /\ k < cy[1] + cy[2] <=> h = 0 \/ (k >= y /\ k < y + h)
    BY <2>2, ClippedSide DEF Overlaps
  <2>5. \A p \in Points : p[1] \in 0 .. FrameW - 1 /\ p[2] \in 0 .. FrameH - 1
    BY DEF Points
  <2>6. \A p \in Points : Inside(cx, cy, p) <=> in(p)
    <3>. HIDE DEF cx, cy
    <3>. QED BY <2>3, <2>4, <2>5 DEF Inside
  <2>. DEFINE cells == Filled(cx, cy)
  <2>7. /\ \A p \in Points : Address(p) \in cells <=> in(p)
        /\ \A i \in cells : \E p \in Points : i = Address(p)
    <3>. HIDE DEF cx, cy, in
    <3>1. /\ \A p \in Points : Address(p) \in Filled(cx, cy) <=> Inside(cx, cy, p)
          /\ \A i \in Filled(cx, cy) : \E p \in Points : i = Address(p)
      BY <2>1, <2>3, <2>4, FilledInside
    <3>. QED BY <2>6, <3>1
  <2>. DEFINE new == [i \in DOMAIN buffer.cells |-> IF i \in cells THEN ink ELSE buffer.cells[i]]
  <2>8. buffer' = [buffer EXCEPT !.cells = new]
    BY <1>3, <2>1 DEF Cleared
  <2>9. canvas' = [p \in Points |-> IF in(p) THEN ink ELSE canvas[p]]
    BY <1>3 DEF Painted
  <2>. HIDE DEF in, cells
  <2>10. /\ DOMAIN buffer.cells = 0 .. buffer.stride * FrameH - 1
         /\ new = [i \in 0 .. buffer.stride * FrameH - 1 |-> new[i]]
         /\ \A p \in Points : Address(p) \in DOMAIN buffer.cells
    BY <2>1, AddressFits
  <2>11. \A p \in Points : new[Address(p)] = canvas'[p]
    BY <2>1, <2>7, <2>9, <2>10
  <2>12. \A i \in DOMAIN new : (\A p \in Points : i # Address(p)) => new[i] = 0
    BY <2>1, <2>7
  <2>. HIDE DEF new
  <2>13. /\ buffer' = [buf |-> buffer.buf, stride |-> buffer.stride, cells |-> new, format |-> "rgba32"]
    BY <2>1, <2>8
  <2>14. /\ buffer'.stride = buffer.stride /\ buffer'.cells = new /\ buffer'.buf = buffer.buf
         /\ buffer'.format = "rgba32"
    BY <2>13
  <2>15. \A p \in Points : Address(p)' = Address(p)
    BY <2>14 DEF Address
  <2>16. /\ buffer'.stride \in Nat /\ FrameW <= buffer'.stride
         /\ buffer' = [buf |-> buffer'.buf, stride |-> buffer'.stride, cells |-> buffer'.cells,
                       format |-> "rgba32"]
    BY <2>1, <2>13, <2>14
  <2>17. buffer'.cells = [i \in 0 .. buffer'.stride * FrameH - 1 |-> buffer'.cells[i]]
    BY <2>10, <2>14
  <2>18. \A p \in Points : buffer'.cells[Address(p)'] = canvas'[p]
    BY <2>11, <2>14, <2>15
  <2>19. \A i \in DOMAIN buffer'.cells : (\A p \in Points : i # Address(p)') => buffer'.cells[i] = 0
    BY <2>12, <2>14, <2>15
  <2>. QED BY <2>16, <2>17, <2>18, <2>19 DEF FrameOK
<1>. QED BY <1>1, <1>2, <1>3

(* Frames and display: the strengthening is kept, and two drawings are an interval apart. *)
LEMMA PixelsKept ==
  /\ PixelsInit => PixelsInv
  /\ PixelsInv /\ [PixelsStep]_pixVars =>
       /\ PixelsInv'
       /\ ran' # ran /\ ran > 0 /\ ran' # Undrawn => ran' - ran >= Interval
<1>0. MaxTicks \in Nat /\ Interval \in Nat /\ Undrawn \in Int /\ ~(Undrawn > 0)
  BY PixelsAssumption DEF Undrawn
<1>1. ASSUME PixelsInit PROVE PixelsInv
  <2>1. buffer.format = "none"
    BY <1>1 DEF PixelsInit, NoFrame
  <2>2. DisplayInv
    BY <1>0, <1>1 DEF PixelsInit, DisplayInv
  <2>. QED BY <2>1, <2>2 DEF PixelsInv, FrameOK
<1>2. ASSUME PixelsInv, [PixelsStep]_pixVars
      PROVE  PixelsInv' /\ (ran' # ran /\ ran > 0 /\ ran' # Undrawn => ran' - ran >= Interval)
  <2>. USE <1>2 DEF PixelsInv
  <2>1. CASE UNCHANGED pixVars
    BY <2>1 DEF pixVars, FrameOK, DisplayInv, Address
  <2>2. ASSUME buffer' = buffer, canvas' = canvas PROVE FrameOK'
    BY <2>2 DEF FrameOK, Address
  <2>3. CASE FrameFinalize
    BY <2>3 DEF FrameFinalize, FrameOK, DisplayInv, NoFrame
  <2>4. ASSUME NEW f \in {"rgba32", "mono"}, NEW a \in Alignments, FrameInit(f, a)
        PROVE  PixelsInv' /\ ran' = ran
    <3>1. FrameOK'
      BY <2>4, PixelsAssumption, NewFrameOK DEF FrameInit
    <3>2. DisplayInv' /\ ran' = ran
      BY <2>4 DEF FrameInit, DisplayInv
    <3>. QED BY <3>1, <3>2
  <2>5. ASSUME NEW pc \in {"vsync", "texture", "frame"}, NEW handle, Opens(pc, handle)
        PROVE  FrameOK' /\ ran' = ran /\ display' = [pc |-> pc, time |-> display.time]
    BY <2>2, <2>5 DEF Opens, DisplayInv
  <2>6. ASSUME NEW lost, OpenFails(lost)
        PROVE  FrameOK' /\ ran' = ran /\ display' = [pc |-> "closed", time |-> display.time]
    BY <2>2, <2>6 DEF OpenFails, DisplayInv
  <2>7. CASE MakeWindow
    BY <2>5, <2>7 DEF MakeWindow, Opens, DisplayInv
  <2>8. CASE SetVSync
    BY <2>5, <2>6, <2>8 DEF SetVSync, Opens, OpenFails, DisplayInv
  <2>9. CASE MakeTexture
    BY <2>5, <2>6, <2>9 DEF MakeTexture, Opens, OpenFails, DisplayInv, DisplayObjects
  <2>10. CASE MakeFrame /\ OpenFails({"texture", "renderer", "window"})
    BY <2>6, <2>10 DEF MakeFrame, OpenFails, DisplayInv, DisplayObjects
  <2>11. CASE MakeFrame /\ ~OpenFails({"texture", "renderer", "window"})
    <3>1. FrameOK'
      BY <2>11, NewFrameOK DEF MakeFrame
    <3>2. DisplayInv'
      BY <1>0, <2>11 DEF MakeFrame, DisplayInv
    <3>. QED BY <2>11, <3>1, <3>2 DEF MakeFrame
  <2>12. CASE TicksPass
    BY <1>0, <2>2, <2>12 DEF TicksPass, DisplayInv
  <2>13. CASE DisplayFinalize
    BY <1>0, <2>13 DEF DisplayFinalize, FrameOK, DisplayInv, NoFrame
  <2>14. ASSUME NEW ink \in Inks, NEW x \in -1 .. FrameW - 1, NEW y \in -1 .. FrameH - 1,
                NEW w \in 0 .. FrameW + 1, NEW h \in 0 .. FrameH + 1, Overlaps(x, y, w, h),
                ClearRect(ink, x, y, w, h)
         PROVE  PixelsInv' /\ ran' = ran
    <3>1. FrameOK'
      BY <2>14, ClearOK DEF ClearRect
    <3>2. DisplayInv' /\ ran' = ran
      BY <2>14 DEF ClearRect, DisplayInv
    <3>. QED BY <3>1, <3>2
  <2>15. ASSUME NEW ink \in Inks, NEW x \in -1 .. FrameW - 1, NEW y \in -1 .. FrameH - 1,
                NEW w \in 0 .. FrameW + 1, NEW h \in 0 .. FrameH + 1, Overlaps(x, y, w, h),
                RunFrame(ink, x, y, w, h)
         PROVE  PixelsInv' /\ (ran' # ran /\ ran > 0 /\ ran' # Undrawn => ran' - ran >= Interval)
    <3>1. FrameOK'
      BY <2>15, ClearOK DEF RunFrame
    <3>2. DisplayInv'
      BY <1>0, <2>15 DEF RunFrame, DisplayInv
    <3>3. ran > 0 => ran' - ran >= Interval
      BY <1>0, <2>15 DEF RunFrame, Due, DisplayInv
    <3>. QED BY <3>1, <3>2, <3>3
  <2>. QED BY <2>1, <2>3, <2>4, <2>7, <2>8, <2>9, <2>10, <2>11, <2>12, <2>13, <2>14, <2>15
       DEF PixelsStep
<1>. QED BY <1>1, <1>2

-----------------------------------------------------------------------------
(* The timers and the two programs: the events that were made are in the   *)
(* queue, about to be pushed or being processed.                           *)
TimerCalls == [of : Tasks \cup {-1}, core : {0, 1}, read : Nat,
          at : {"free", "look", "count", "stop", "done", "make", "push", "shut"}]
Rings == [events : 0 .. QueueSize, shut : BOOLEAN]
One(b) == IF b THEN 1 ELSE 0
Held == ring.events + One(called[1].at = "push") + One(called[2].at = "push")
          + One(task[0] = "process") + One(task[1] = "process")

TimerTypes ==
  /\ called \in [Slots -> TimerCalls]
  /\ \A c \in Slots : called[c].at = "free" \/ called[c].of \in Tasks
  /\ count \in [Tasks -> Nat]
  /\ ticker \in [Tasks -> BOOLEAN] /\ alarm \in [Tasks -> 0 .. 1] /\ due \in [Tasks -> 0 .. 1]
  /\ task \in [Tasks -> {"begin", "none", "start", "wait", "loop", "process", "returned", "failed"}]
  /\ ring \in Rings /\ awaited \in 0 .. 1

AlarmsInv ==
  /\ AlarmsMatch
  /\ \A t \in Tasks : task[t] \in {"begin", "none", "start"} => ~ticker[t]
  /\ task[0] = "begin" => task[1] = "none"

LoopInv ==
  /\ made = Held
  /\ example = "runloop" =>
       \A t \in Tasks : task[t] = "returned" => ring.shut /\ ring.events = 0

ClockInv ==
  example = "clock" =>
    /\ ~ticker[1] /\ due[1] = 0 /\ task[1] = "none"
    /\ \A c \in Slots : called[c].at = "free" \/ called[c].of = 0
    /\ task[0] = "begin" => due[0] = 0 /\ \A c \in Slots : called[c].at = "free"
    /\ (\E c \in Slots : called[c].at = "done") \/ (task[0] = "wait" /\ awaited = 0)
         \/ task[0] = "returned" => ~ticker[0]

TimersInv ==
  /\ example \in {"clock", "runloop"}
  /\ TimerTypes /\ AlarmsInv /\ LoopInv /\ ClockInv

(* What the strengthening of the timers implies.                           *)
LEMMA TimersTidy ==
  TimersInv =>
    /\ AlarmsMatch /\ AllFreed /\ StoppedFirst
    /\ ring.events \in 0 .. QueueSize
    /\ made \in 0 .. QueueSize + Cardinality(Slots) + Cardinality(Tasks)
<1>. SUFFICES ASSUME TimersInv
     PROVE  /\ AllFreed /\ made \in 0 .. QueueSize + Cardinality(Slots) + Cardinality(Tasks)
  BY DEF TimersInv, TimerTypes, Rings, AlarmsInv, ClockInv, StoppedFirst
<1>1. Cardinality(Slots) = 2 /\ Cardinality(Tasks) = 2
  <2>1. \A a, b : a # b => IsFiniteSet({a, b}) /\ Cardinality({a, b}) = 2
    <3>. TAKE a, b
    <3>. HAVE a # b
    <3>1. IsFiniteSet({a}) /\ Cardinality({a}) = 1
      BY FS_Singleton
    <3>2. {a, b} = {a} \cup {b} /\ b \notin {a}
      OBVIOUS
    <3>3. IsFiniteSet({a} \cup {b}) /\ Cardinality({a} \cup {b}) = 1 + 1
      BY <3>1, <3>2, FS_AddElement
    <3>. QED BY <3>2, <3>3
  <2>. QED BY <2>1 DEF Slots, Tasks
<1>2. made = Held /\ ring.events \in 0 .. QueueSize /\ QueueSize \in Nat
  BY TimersAssumption DEF TimersInv, LoopInv, TimerTypes, Rings
<1>3. made \in 0 .. QueueSize + 4
  BY <1>2 DEF Held, One
<1>4. AllFreed
  <2>. SUFFICES ASSUME task = [t \in Tasks |-> "returned"], \A c \in Slots : called[c] = Free
                PROVE  made = 0
    BY DEF AllFreed
  <2>1. /\ task[0] = "returned" /\ task[1] = "returned"
        /\ called[1].at = "free" /\ called[2].at = "free"
    BY DEF Tasks, Slots, Free
  <2>2. ring.events = 0
    BY <2>1 DEF TimersInv, ClockInv, LoopInv, Tasks
  <2>. QED BY <1>2, <2>1, <2>2 DEF Held, One
<1>. QED BY <1>1, <1>2, <1>3, <1>4

(* What stopping a timer changes.                                          *)
LEMMA TimerStops ==
  ASSUME TimersInv, NEW t \in Tasks, Stop(t)
  PROVE  /\ ticker' = [ticker EXCEPT ![t] = FALSE]
         /\ alarm' = [alarm EXCEPT ![t] = 0]
         /\ due' \in [Tasks -> 0 .. 1] /\ \A u \in Tasks : due'[u] \in {0, due[u]}
  BY DEF Stop, LinuxStop, DarwinStop, PicoStop, Deleted, LeaveTimers,
         TimersInv, TimerTypes, AlarmsInv, AlarmsMatch

(* The timers and their programs: the strengthening holds at first and after every step. *)
LEMMA TimersKept ==
  /\ TimersInit => TimersInv
  /\ TimersInv /\ [TimersStep]_tickVars => TimersInv'
<1>0. QueueSize \in Nat \ {0} /\ Processors \subseteq {0, 1} /\ Cores \subseteq {0, 1}
  BY TimersAssumption DEF Cores
<1>1. TimersInit => TimersInv
  BY <1>0 DEF TimersInit, TimersInv, TimerTypes, AlarmsInv, AlarmsMatch, LoopInv, ClockInv,
              TimerCalls, Rings, Free, Held, One, Tasks, Slots
<1>2. ASSUME TimersInv, TimersStep PROVE TimersInv'
  <2>. USE <1>2 DEF TimersInv
  <2>. example' = example /\ system' = system
    BY DEF TimersStep, Expires, Enter, CallbackStep, TaskStep, StartTask, PopEvent, FreeEvent,
           ClockLook, ClockCount, ClockStop, RunloopLook, RunloopMake, RunloopPush, RunloopShut,
           ClockMain, CreateTask, LeaveCall
  <2>1. ASSUME NEW t \in Tasks, Expires(t) PROVE TimersInv'
    BY <2>1 DEF Expires, TimerTypes, AlarmsInv, AlarmsMatch, LoopInv, ClockInv, Held, Tasks
  <2>2. ASSUME NEW t \in Tasks, NEW c \in Slots, Enter(t, c) PROVE TimersInv'
    <3>1. /\ due' = [due EXCEPT ![t] = @ - 1] /\ due[t] > 0 /\ called[c] = Free
          /\ UNCHANGED <<ticker, alarm, count, task, ring, made, awaited>>
      BY <2>2 DEF Enter
    <3>2. PICK core \in {0, 1} :
            called' \in {called,
                         [called EXCEPT ![c] = [of |-> t, at |-> "look", core |-> core, read |-> 0]]}
      BY <1>0, <2>2 DEF Enter
    <3>3. \A d \in Slots : /\ called'[d] = called[d] \/ (d = c /\ called'[d] \in TimerCalls
                                      /\ called'[d].at = "look" /\ called'[d].of = t)
      BY <3>2 DEF TimerTypes, TimerCalls
    <3>4. TimerTypes'
      BY <3>1, <3>2, <3>3 DEF TimerTypes, TimerCalls
    <3>5. AlarmsInv' /\ (example = "clock" => t = 0)
      BY <3>1 DEF AlarmsInv, AlarmsMatch, ClockInv, Tasks, TimerTypes
    <3>6. \A d \in Slots : called'[d].at = "push" <=> called[d].at = "push"
      BY <3>1, <3>3 DEF Free
    <3>7. LoopInv'
      BY <3>1, <3>6 DEF LoopInv, Held, Slots
    <3>8. ClockInv'
      BY <3>1, <3>3, <3>5 DEF ClockInv, TimerTypes, Tasks
    <3>. QED BY <3>4, <3>5, <3>7, <3>8
  <2>3. ASSUME NEW c \in Slots, ClockLook(c) PROVE TimersInv'
    <3>1. /\ example = "clock" /\ called[c].at = "look"
          /\ called' = [called EXCEPT ![c].at = "count", ![c].read = count[0]]
          /\ UNCHANGED <<ticker, alarm, due, count, task, ring, made, awaited>>
      BY <2>3 DEF ClockLook, InCall, LeaveCall, LeaveTimers, LeaveQueue
    <3>2. TimerTypes'
      BY <3>1, ZenonT(60) DEF TimerTypes, TimerCalls, Tasks
    <3>3. AlarmsInv' /\ LoopInv'
      BY <3>1 DEF AlarmsInv, AlarmsMatch, LoopInv, Held, TimerTypes, Slots, Tasks
    <3>4. ClockInv'
      BY <3>1 DEF ClockInv, TimerTypes, Tasks
    <3>. QED BY <3>2, <3>3, <3>4
  <2>4. ASSUME NEW c \in Slots, ClockCount(c) PROVE TimersInv'
    <3>1. /\ example = "clock" /\ called[c].at = "count"
          /\ count' = [count EXCEPT ![0] = IF called[c].read < MaxTold THEN called[c].read + 1 ELSE @]
          /\ called' \in {[called EXCEPT ![c].at = "stop"], [called EXCEPT ![c] = Free]}
          /\ UNCHANGED <<ticker, alarm, due, task, ring, made, awaited>>
      BY <2>4 DEF ClockCount, InCall, CallAt, CallEnds, LeaveCall, LeaveTimers, LeaveQueue
    <3>2. TimerTypes'
      BY <3>1 DEF TimerTypes, TimerCalls, Tasks, Free
    <3>3. \A d \in Slots : /\ called'[d].at \notin {"push", "done"} \/ called'[d] = called[d]
                           /\ called[d].at # "push" \/ called'[d] = called[d]
                           /\ called'[d].of = called[d].of \/ called'[d].at = "free"
                           /\ called[d].at = "free" => called'[d].at = "free"
      <4>1. \A d \in Slots \ {c} : called'[d] = called[d]
        BY <3>1 DEF TimerTypes
      <4>2. \/ called'[c].at = "stop" /\ called'[c].of = called[c].of
            \/ called'[c].at = "free"
        BY <3>1 DEF TimerTypes, TimerCalls, Free
      <4>. QED BY <3>1, <4>1, <4>2
    <3>4. AlarmsInv' /\ LoopInv'
      <4>1. \A d \in Slots : called'[d].at = "push" <=> called[d].at = "push"
        BY <3>3
      <4>. QED BY <3>1, <4>1 DEF AlarmsInv, AlarmsMatch, LoopInv, Held, Slots
    <3>5. ClockInv'
      BY <3>1, <3>3 DEF ClockInv, TimerTypes, Tasks
    <3>. QED BY <3>2, <3>4, <3>5
  <2>5. ASSUME NEW c \in Slots, ClockStop(c) PROVE TimersInv'
    <3>1. CASE InCall(c, "stop")
      <4>1. /\ example = "clock" /\ called[c].at = "stop" /\ called[c].of = 0
            /\ Stop(called[c].of) /\ called' = [called EXCEPT ![c].at = "done"]
            /\ UNCHANGED <<count, task, ring, made, awaited>>
        BY <2>5, <3>1 DEF ClockStop, InCall, CallAt, LeaveCall, LeaveQueue, ClockInv
      <4>2. /\ ticker' = [ticker EXCEPT ![0] = FALSE] /\ alarm' = [alarm EXCEPT ![0] = 0]
            /\ due' \in [Tasks -> 0 .. 1] /\ \A u \in Tasks : due'[u] \in {0, due[u]}
        BY <4>1, TimerStops DEF Tasks
      <4>3. TimerTypes'
        BY <4>1, <4>2 DEF TimerTypes, TimerCalls, Tasks
      <4>4. AlarmsInv' /\ LoopInv'
        BY <4>1, <4>2 DEF AlarmsInv, AlarmsMatch, LoopInv, Held, TimerTypes, Slots, Tasks
      <4>5. ClockInv'
        BY <4>1, <4>2 DEF ClockInv, TimerTypes, Tasks
      <4>. QED BY <4>3, <4>4, <4>5
    <3>2. CASE InCall(c, "done")
      <4>1. /\ example = "clock" /\ called[c].at = "done" /\ awaited' \in 0 .. 1
            /\ called' = [called EXCEPT ![c] = Free]
            /\ UNCHANGED <<ticker, alarm, due, count, task, ring, made>>
        BY <2>5, <3>2 DEF ClockStop, InCall, CallEnds, LeaveCall, LeaveQueue, LeaveTimers, TimerTypes
      <4>2. TimerTypes'
        BY <4>1 DEF TimerTypes, TimerCalls, Tasks, Free
      <4>3. AlarmsInv' /\ LoopInv'
        BY <4>1 DEF AlarmsInv, AlarmsMatch, LoopInv, Held, TimerTypes, Slots, Tasks, Free
      <4>4. ClockInv'
        BY <4>1 DEF ClockInv, TimerTypes, Tasks, Free
      <4>. QED BY <4>2, <4>3, <4>4
    <3>. QED BY <2>5, <3>1, <3>2 DEF ClockStop
  <2>6. ASSUME ClockMain PROVE TimersInv'
    <3>1. CASE Runs(0, "begin")
      <4>1. PICK runs \in BOOLEAN :
              /\ example = "clock" /\ task[0] = "begin" /\ awaited' = 1
              /\ ticker' = [ticker EXCEPT ![0] = runs]
              /\ alarm' = [alarm EXCEPT ![0] = IF runs THEN @ + 1 ELSE @]
              /\ task' = [task EXCEPT ![0] = IF runs THEN "wait" ELSE "failed"]
              /\ UNCHANGED <<called, due, count, ring, made>>
        BY <2>6, <3>1 DEF ClockMain, Runs, Start, TaskAt, LeaveQueue
      <4>2. ~ticker[0] /\ alarm[0] = 0
        BY <4>1 DEF AlarmsInv, AlarmsMatch, Tasks
      <4>3. TimerTypes'
        BY <4>1, <4>2 DEF TimerTypes, Tasks
      <4>4. AlarmsInv' /\ LoopInv'
        BY <4>1, <4>2 DEF AlarmsInv, AlarmsMatch, LoopInv, Held, TimerTypes, One, Tasks
      <4>5. ClockInv'
        BY <4>1, <4>2 DEF ClockInv, TimerTypes, Tasks
      <4>. QED BY <4>3, <4>4, <4>5
    <3>2. CASE Runs(0, "wait")
      <4>1. /\ example = "clock" /\ task[0] = "wait" /\ awaited = 0
            /\ task' = [task EXCEPT ![0] = "returned"]
            /\ UNCHANGED <<ticker, alarm, due, called, count, ring, made, awaited>>
        BY <2>6, <3>2 DEF ClockMain, Runs, TaskAt, LeaveQueue, LeaveTimers
      <4>2. TimerTypes' /\ AlarmsInv' /\ LoopInv' /\ ClockInv'
        BY <4>1 DEF TimerTypes, AlarmsInv, AlarmsMatch, LoopInv, Held, ClockInv, Tasks
      <4>. QED BY <4>2
    <3>. QED BY <2>6, <3>1, <3>2 DEF ClockMain
  <2>7. ASSUME NEW c \in Slots, RunloopLook(c) PROVE TimersInv'
    <3>1. PICK at \in {"shut", "make"} :
            /\ example = "runloop" /\ called[c].at = "look"
            /\ called' = [called EXCEPT ![c].read = count[called[c].core], ![c].at = at]
            /\ UNCHANGED <<ticker, alarm, due, count, task, ring, made, awaited>>
      BY <2>7 DEF RunloopLook, InCall, LeaveCall, LeaveTimers, LeaveQueue
    <3>2. TimerTypes'
      BY <3>1 DEF TimerTypes, TimerCalls, Tasks
    <3>3. AlarmsInv' /\ LoopInv' /\ ClockInv'
      BY <3>1 DEF AlarmsInv, AlarmsMatch, LoopInv, ClockInv, Held, TimerTypes, Slots, Tasks
    <3>. QED BY <3>2, <3>3
  <2>8. ASSUME NEW c \in Slots, RunloopMake(c) PROVE TimersInv'
    <3>1. CASE CallAt(c, "push") /\ made' = made + 1
      <4>1. /\ example = "runloop" /\ called[c].at = "make"
            /\ count' = [count EXCEPT ![called[c].core] = called[c].read + 1]
            /\ called' = [called EXCEPT ![c].at = "push"]
            /\ UNCHANGED <<ticker, alarm, due, task, ring, awaited>>
        BY <2>8, <3>1 DEF RunloopMake, InCall, CallAt, CallEnds, LeaveCall, LeaveTimers, TimerTypes, TimerCalls, Free
      <4>2. TimerTypes'
        BY <4>1 DEF TimerTypes, TimerCalls, Tasks
      <4>3. made' = Held'
        BY <1>0, <3>1, <4>1 DEF LoopInv, Held, One, TimerTypes, Rings, Slots
      <4>4. AlarmsInv' /\ LoopInv' /\ ClockInv'
        BY <4>1, <4>3 DEF AlarmsInv, AlarmsMatch, LoopInv, ClockInv
      <4>. QED BY <4>2, <4>4
    <3>2. CASE CallEnds(c) /\ UNCHANGED <<made, count>>
      <4>1. /\ example = "runloop" /\ called[c].at = "make" /\ called' = [called EXCEPT ![c] = Free]
            /\ UNCHANGED <<ticker, alarm, due, task, ring, awaited, made, count>>
        BY <2>8, <3>2 DEF RunloopMake, InCall, CallEnds, LeaveCall, LeaveTimers
      <4>2. TimerTypes'
        BY <4>1 DEF TimerTypes, TimerCalls, Tasks, Free
      <4>3. AlarmsInv' /\ LoopInv' /\ ClockInv'
        BY <4>1 DEF AlarmsInv, AlarmsMatch, LoopInv, ClockInv, Held, TimerTypes, Slots, Free
      <4>. QED BY <4>2, <4>3
    <3>. QED BY <2>8, <3>1, <3>2 DEF RunloopMake
  <2>9. ASSUME NEW c \in Slots, RunloopPush(c) PROVE TimersInv'
    <3>1. /\ example = "runloop" /\ called[c].at = "push" /\ called' = [called EXCEPT ![c] = Free]
          /\ UNCHANGED <<ticker, alarm, due, task, awaited, count>>
          /\ IF ring.shut \/ ring.events = QueueSize
             THEN made' = made - 1 /\ ring' = ring
             ELSE ring' = [ring EXCEPT !.events = @ + 1] /\ made' = made
      BY <2>9 DEF RunloopPush, InCall, CallEnds, LeaveCall, LeaveTimers
    <3>2. ring' \in Rings /\ ring'.shut = ring.shut /\ (ring.shut => ring'.events = ring.events)
      BY <1>0, <3>1 DEF TimerTypes, Rings
    <3>3. TimerTypes'
      BY <3>1, <3>2 DEF TimerTypes, TimerCalls, Tasks, Free
    <3>4. made' = Held'
      BY <1>0, <3>1 DEF LoopInv, Held, One, TimerTypes, Rings, Slots, Free
    <3>5. AlarmsInv' /\ LoopInv' /\ ClockInv'
      BY <3>1, <3>2, <3>4 DEF AlarmsInv, AlarmsMatch, LoopInv, ClockInv
    <3>. QED BY <3>3, <3>5
  <2>10. ASSUME NEW c \in Slots, RunloopShut(c) PROVE TimersInv'
    <3>1. CASE InCall(c, "shut")
      <4>1. /\ example = "runloop" /\ called[c].at = "shut" /\ called' = [called EXCEPT ![c].at = "stop"]
            /\ ring' = [ring EXCEPT !.shut = TRUE]
            /\ UNCHANGED <<ticker, alarm, due, task, made, awaited, count>>
        BY <2>10, <3>1 DEF RunloopShut, InCall, CallAt, LeaveCall, LeaveTimers
      <4>2. ring' \in Rings /\ ring'.events = ring.events /\ ring'.shut
        BY <4>1 DEF TimerTypes, Rings
      <4>3. TimerTypes'
        BY <4>1, <4>2 DEF TimerTypes, TimerCalls, Tasks
      <4>4. AlarmsInv' /\ LoopInv' /\ ClockInv'
        BY <4>1, <4>2 DEF AlarmsInv, AlarmsMatch, LoopInv, ClockInv, Held, TimerTypes, Slots
      <4>. QED BY <4>3, <4>4
    <3>2. CASE InCall(c, "stop")
      <4>1. /\ example = "runloop" /\ called[c].at = "stop" /\ called[c].of \in Tasks
            /\ Stop(called[c].of) /\ called' = [called EXCEPT ![c] = Free]
            /\ UNCHANGED <<task, ring, made, awaited, count>>
        BY <2>10, <3>2 DEF RunloopShut, InCall, CallEnds, LeaveCall, TimerTypes
      <4>2. /\ ticker' = [ticker EXCEPT ![called[c].of] = FALSE]
            /\ alarm' = [alarm EXCEPT ![called[c].of] = 0] /\ due' \in [Tasks -> 0 .. 1]
        BY <4>1, TimerStops
      <4>3. TimerTypes'
        BY <4>1, <4>2 DEF TimerTypes, TimerCalls, Tasks, Free
      <4>4. AlarmsInv' /\ LoopInv' /\ ClockInv'
        BY <4>1, <4>2 DEF AlarmsInv, AlarmsMatch, LoopInv, ClockInv, Held, TimerTypes, Slots, Free
      <4>. QED BY <4>3, <4>4
    <3>. QED BY <2>10, <3>1, <3>2 DEF RunloopShut
  <2>11. ASSUME CreateTask PROVE TimersInv'
    <3>1. PICK ok \in BOOLEAN :
            /\ example = "runloop" /\ task[0] = "begin"
            /\ task' = [task EXCEPT ![0] = IF ok THEN "start" ELSE "failed",
                                    ![1] = IF ok THEN "start" ELSE "none"]
            /\ UNCHANGED <<ticker, alarm, due, called, count, ring, made, awaited>>
      BY <2>11 DEF CreateTask, Runs, LeaveTimers, LeaveQueue
    <3>2. ~ticker[0] /\ ~ticker[1] /\ task[1] = "none"
      BY <3>1 DEF AlarmsInv, Tasks
    <3>3. TimerTypes' /\ AlarmsInv' /\ ClockInv'
      BY <3>1, <3>2 DEF TimerTypes, AlarmsInv, AlarmsMatch, ClockInv, Tasks
    <3>4. LoopInv'
      BY <3>1, <3>2 DEF LoopInv, Held, TimerTypes, Tasks
    <3>. QED BY <3>3, <3>4
  <2>12. ASSUME NEW t \in Tasks, StartTask(t) PROVE TimersInv'
    <3>1. PICK runs \in BOOLEAN :
            /\ example = "runloop" /\ task[t] = "start"
            /\ ticker' = [ticker EXCEPT ![t] = runs]
            /\ alarm' = [alarm EXCEPT ![t] = IF runs THEN @ + 1 ELSE @]
            /\ task' = [task EXCEPT ![t] = IF runs THEN "loop" ELSE "failed"]
            /\ UNCHANGED <<called, due, count, ring, made, awaited>>
      BY <2>12 DEF StartTask, Runs, Start, TaskAt, LeaveQueue
    <3>2. ~ticker[t] /\ alarm[t] = 0
      BY <3>1 DEF AlarmsInv, AlarmsMatch
    <3>3. TimerTypes'
      BY <3>1, <3>2 DEF TimerTypes, Tasks
    <3>4. AlarmsInv' /\ LoopInv' /\ ClockInv'
      BY <3>1, <3>2 DEF AlarmsInv, AlarmsMatch, LoopInv, ClockInv, Held, TimerTypes, One, Tasks
    <3>. QED BY <3>3, <3>4
  <2>13. ASSUME NEW t \in Tasks, PopEvent(t) PROVE TimersInv'
    <3>1. CASE ring.events > 0 /\ TaskAt(t, "process")
      <4>1. /\ example = "runloop" /\ task[t] = "loop" /\ task' = [task EXCEPT ![t] = "process"]
            /\ ring' = [ring EXCEPT !.events = @ - 1]
            /\ UNCHANGED <<ticker, alarm, due, called, count, made, awaited>>
        BY <2>13, <3>1 DEF PopEvent, Runs, TaskAt, LeaveTimers
      <4>2. ring' \in Rings /\ ring'.events = ring.events - 1 /\ ring'.shut = ring.shut
        BY <1>0, <3>1, <4>1 DEF TimerTypes, Rings
      <4>3. TimerTypes' /\ AlarmsInv' /\ ClockInv'
        BY <4>1, <4>2 DEF TimerTypes, AlarmsInv, AlarmsMatch, ClockInv
      <4>4. made' = Held'
        BY <1>0, <3>1, <4>1, <4>2 DEF LoopInv, Held, One, TimerTypes, Rings, Tasks
      <4>5. LoopInv'
        BY <3>1, <4>1, <4>2, <4>4 DEF LoopInv, TimerTypes, Rings
      <4>. QED BY <4>3, <4>5
    <3>2. CASE ring.events = 0 /\ ring.shut /\ TaskAt(t, "returned")
      <4>1. /\ example = "runloop" /\ task[t] = "loop" /\ task' = [task EXCEPT ![t] = "returned"]
            /\ UNCHANGED <<ring, ticker, alarm, due, called, count, made, awaited>>
        BY <2>13, <3>2 DEF PopEvent, Runs, TaskAt, LeaveTimers
      <4>2. TimerTypes' /\ AlarmsInv' /\ ClockInv' /\ LoopInv'
        BY <3>2, <4>1 DEF TimerTypes, AlarmsInv, AlarmsMatch, ClockInv, LoopInv, Held, Tasks
      <4>. QED BY <4>2
    <3>. QED BY <2>13, <3>1, <3>2 DEF PopEvent
  <2>14. ASSUME NEW t \in Tasks, FreeEvent(t) PROVE TimersInv'
    <3>1. /\ task[t] = "process" /\ task' = [task EXCEPT ![t] = "loop"] /\ made' = made - 1
          /\ UNCHANGED <<ring, ticker, alarm, due, called, count, awaited>>
      BY <2>14 DEF FreeEvent, Runs, TaskAt, LeaveTimers
    <3>2. TimerTypes' /\ AlarmsInv' /\ ClockInv'
      BY <3>1 DEF TimerTypes, AlarmsInv, AlarmsMatch, ClockInv, Tasks
    <3>3. LoopInv'
      BY <1>0, <3>1 DEF LoopInv, Held, One, TimerTypes, Rings, Tasks
    <3>. QED BY <3>2, <3>3
  <2>. QED BY <2>1, <2>2, <2>3, <2>4, <2>5, <2>6, <2>7, <2>8, <2>9, <2>10, <2>11, <2>12, <2>13, <2>14
       DEF TimersStep, CallbackStep, TaskStep
<1>3. ASSUME TimersInv, UNCHANGED tickVars PROVE TimersInv'
  BY <1>3 DEF tickVars, TimersInv, TimerTypes, AlarmsInv, AlarmsMatch, LoopInv, ClockInv, Held
<1>. QED BY <1>1, <1>2, <1>3

-----------------------------------------------------------------------------
(* The threads that print.                                                 *)
InLine == {"put", "panic", "panicput", "dead"}
Threads == [pc : InLine \cup {"none", "next", "wrapper", "pop", "poparg", "send", "end", "killed", "exiting"},
            at : Nat, left : 0 .. LineLength, bad : BOOLEAN]

ConTypes ==
  /\ actor \in [Actors -> Threads]
  /\ mutex = [init |-> mutex.init, owner |-> mutex.owner] /\ mutex.owner \in Actors \cup {NoOne}
  /\ working \in 0 .. 1 /\ wrapper \in [Workers -> 0 .. 1]
  /\ row.of \in Actors \cup {NoOne}

(* Where the threads are in their scripts: a worker has begun only when    *)
(* the main thread is past its creation.                                   *)
OrderInv ==
  /\ actor[Main].at \in 1 .. 6 * Rounds + 1
  /\ actor[Main].pc \in {"next", "send", "exiting"} \cup InLine
  /\ actor[Main].pc \in InLine => actor[Main].at % 6 \in {0, 2, 4}
  /\ actor[Main].pc = "send" => actor[Main].at % 6 = 3
  /\ \A w \in Workers :
       /\ actor[w].at \in 1 .. 4
       /\ actor[w].pc \notin {"send", "exiting"}
       /\ actor[w].pc \in InLine => actor[w].at \in {1, 3}
       /\ actor[w].pc \in {"none", "wrapper", "pop", "poparg"} => actor[w].at = 1
       /\ actor[w].pc = "none" \/ 6 * w - 3 < actor[Main].at
            \/ (6 * w - 3 = actor[Main].at /\ actor[Main].pc = "send")

(* The waitgroup counts the worker that has begun, or is about to, and not *)
(* done its work.                                                          *)
WorkInv ==
  /\ \A w \in Workers :
       actor[w].pc # "none" /\ actor[w].at <= 2 => working = 1 /\ actor[Main].at <= 6 * w - 1
  /\ actor[Main].at % 6 \in {2, 3} /\ actor[Main].pc # "send" => working = 1
  /\ actor[Main].at % 6 \in {0, 1} /\ actor[Main].at < 6 * Rounds => working = 0

LockInv ==
  /\ OwnerRuns /\ WrapperReturned
  /\ ~mutex.init => mutex.owner = NoOne
  /\ mutex.init => \A p \in Actors : actor[p].pc = "put" => mutex.owner = p

RowInv ==
  mutex.init /\ ~Panicking =>
    /\ ~row.torn
    /\ \A p \in Actors :
         row.of = p <=> actor[p].pc = "put" /\ 0 < actor[p].left /\ actor[p].left < LineLength

ConsoleInv == ConTypes /\ OrderInv /\ WorkInv /\ LockInv /\ RowInv

(* Division by the six steps of the main thread's round.                   *)
LEMMA Sixes ==
  \A a \in Nat : /\ a % 6 \in 0 .. 5
                 /\ (a + 1) % 6 = IF a % 6 = 5 THEN 0 ELSE (a % 6) + 1
                 /\ a \div 6 \in Nat /\ a = (6 * (a \div 6)) + (a % 6)
<1>1. \A a \in Nat : a % 6 \in 0 .. 5 /\ a \div 6 \in Nat
  OBVIOUS
<1>2. \A a \in Nat : a = (6 * (a \div 6)) + (a % 6)
  BY Z3
<1>3. \A a \in Nat : (a + 1) % 6 = IF a % 6 = 5 THEN 0 ELSE (a % 6) + 1
  BY Z3
<1>. QED BY <1>1, <1>2, <1>3

(* The script of the main thread.                                          *)
LEMMA MainScript ==
  ASSUME NEW a \in 1 .. 6 * Rounds + 1, actor[Main].at = a
  PROVE  /\ Op(Main) = "add" => a % 6 = 1 /\ a < 6 * Rounds
         /\ Op(Main) = "print" => a % 6 \in {0, 2, 4}
         /\ Op(Main) = "create" => a % 6 = 3 /\ Round \in Workers /\ a = 6 * Round - 3
         /\ Op(Main) = "wait" => a % 6 = 5
         /\ Op(Main) = "exit" => a = 6 * Rounds + 1
<1>1. Rounds \in Nat \ {0} /\ a \in Nat /\ a - 1 \in Nat
  BY ConsoleAssumption
<1>2. CASE a = 6 * Rounds + 1
  <2>1. Op(Main) = "exit"
    BY <1>1, <1>2 DEF Op, Script
  <2>. QED BY <1>2, <2>1
<1>3. CASE a # 6 * Rounds + 1
  <2>1. Op(Main) = <<"add", "print", "create", "print", "wait", "print">>[((a - 1) % 6) + 1]
    BY <1>1, <1>3 DEF Op, Script
  <2>. DEFINE r == (a - 1) % 6
              k == (a - 1) \div 6
  <2>2. k \in Nat /\ r \in 0 .. 5 /\ a - 1 = (6 * k) + r
    BY <1>1, Sixes
  <2>3. a % 6 = IF r = 5 THEN 0 ELSE r + 1
    <3>1. (a - 1) + 1 = a
      BY <1>1
    <3>. QED BY <1>1, <3>1, Sixes
  <2>4. Round = k + 1
    BY DEF Round
  <2>5. Op(Main) = <<"add", "print", "create", "print", "wait", "print">>[r + 1]
    BY <2>1
  <2>. HIDE DEF r, k
  <2>6. /\ r = 0 => Op(Main) = "add"
        /\ r = 2 => Op(Main) = "create"
        /\ r = 4 => Op(Main) = "wait"
        /\ r \in {1, 3, 5} => Op(Main) = "print"
    BY <2>2, <2>5
  <2>7. r = 2 => k + 1 \in Workers /\ a = 6 * (k + 1) - 3
    BY <1>1, <1>3, <2>2 DEF Workers
  <2>8. a < 6 * Rounds \/ r # 0
    BY <1>1, <1>3, <2>2
  <2>9. /\ Op(Main) = "add" => r = 0
        /\ Op(Main) = "create" => r = 2
        /\ Op(Main) = "wait" => r = 4
        /\ Op(Main) = "print" => r \in {1, 3, 5}
        /\ Op(Main) # "exit"
    <3>1. r \in {0, 1, 2, 3, 4, 5}
      BY <2>2
    <3>. QED BY <2>6, <3>1
  <2>10. /\ r = 0 => a % 6 = 1 /\ a < 6 * Rounds
         /\ r \in {1, 3, 5} => a % 6 \in {0, 2, 4}
         /\ r = 2 => a % 6 = 3
         /\ r = 4 => a % 6 = 5
    BY <2>3, <2>8
  <2>. QED BY <2>4, <2>7, <2>9, <2>10
<1>. QED BY <1>2, <1>3

(* Where in its script a worker is at each of its operations.              *)
LEMMA WorkerScript ==
  ASSUME NEW w \in Workers, actor[w].at \in 1 .. 4
  PROVE  /\ Op(w) = "print" => actor[w].at \in {1, 3}
         /\ Op(w) = "done" => actor[w].at = 2
         /\ Op(w) = "return" => actor[w].at = 4
<1>1. Script(w) = <<"print", "done", "print", "return">>
  BY DEF Script, Workers, Main
<1>. QED BY <1>1 DEF Op

(* The two programs start in the strengthening.                            *)
LEMMA ThreadsStart == ConsoleInit => ConsoleInv
<1>. SUFFICES ASSUME ConsoleInit PROVE ConsoleInv
  OBVIOUS
<1>. DEFINE no == FALSE
            first(p) == IF p = Main THEN "next" ELSE "none"
<1>1. /\ actor = [p \in Actors |-> [pc |-> first(p), at |-> 1, left |-> 0, bad |-> no]]
      /\ no \in BOOLEAN
      /\ \A p \in Actors : first(p) \in {"next", "none"} /\ (first(p) = "next" <=> p = Main)
  BY DEF ConsoleInit
<1>3. /\ Main \in Actors /\ Main \notin Workers /\ Rounds \in Nat \ {0} /\ LineLength \in Nat
      /\ \A w \in Workers : w \in Nat /\ w \in Actors
  BY ConsoleAssumption DEF Actors, Main, Workers
<1>. HIDE DEF no, first
<1>2. actor \in [Actors -> Threads]
  BY <1>1, <1>3 DEF Threads
<1>4. /\ actor[Main].at = 1 /\ actor[Main].pc = "next"
      /\ \A w \in Workers : w \in Actors /\ actor[w].pc = "none" /\ actor[w].at = 1
      /\ \A p \in Actors : actor[p].pc \in {"next", "none"}
  BY <1>1, <1>3
<1>5. 1 % 6 = 1
  OBVIOUS
<1>6. ConTypes
  BY <1>2 DEF ConsoleInit, ConTypes
<1>7. OrderInv /\ WorkInv
  BY <1>3, <1>4, <1>5 DEF ConsoleInit, OrderInv, WorkInv, InLine
<1>8. LockInv /\ RowInv
  BY <1>3, <1>4 DEF ConsoleInit, LockInv, RowInv, OwnerRuns, WrapperReturned, NoOne, Actors, Workers, Main
<1>. QED BY <1>6, <1>7, <1>8 DEF ConsoleInv

(* Where the threads are, in the form the steps need.                      *)
LEMMA ThreadsWhere ==
  ASSUME ConsoleInv
  PROVE  /\ Main \in Actors /\ Main \notin Workers /\ Actors = Workers \cup {Main}
         /\ \A w \in Workers : w \in Nat /\ w > 0
         /\ Rounds \in Nat \ {0} /\ LineLength \in Nat \ {0} /\ NoOne \notin Actors
         /\ actor[Main].at \in Nat /\ actor[Main].at % 6 \in 0 .. 5
         /\ (actor[Main].at + 1) % 6
              = IF actor[Main].at % 6 = 5 THEN 0 ELSE (actor[Main].at % 6) + 1
         /\ actor[Main].at = 6 * (actor[Main].at \div 6) + (actor[Main].at % 6)
         /\ actor[Main].at \div 6 \in Nat
<1>1. Rounds \in Nat \ {0} /\ LineLength \in Nat \ {0}
  BY ConsoleAssumption
<1>2. actor[Main].at \in Nat
  BY <1>1 DEF ConsoleInv, OrderInv
<1>3. NoOne \notin Actors
  BY DEF NoOne, Actors, Workers, Main
<1>. QED BY <1>1, <1>2, <1>3, Sixes DEF Actors, Main, Workers

(* What a thread does within a line leaves its place in the script.        *)
LEMMA LinesKeepOrder ==
  ASSUME ConsoleInv, NEW p \in Actors, actor' \in [Actors -> Threads],
         \A q \in Actors \ {p} : actor'[q] = actor[q],
         actor'[p].at = actor[p].at, actor'[p].pc \in InLine,
         actor[p].pc \in InLine \/ (actor[p].pc = "next" /\ Op(p) = "print"),
         UNCHANGED <<working, wrapper>>
  PROVE  OrderInv' /\ WorkInv' /\ WrapperReturned'
<1>1. CASE p = Main
  <2>1. /\ \A w \in Workers : actor'[w] = actor[w]
        /\ actor'[Main].at = actor[Main].at /\ actor[Main].pc # "send"
        /\ actor'[Main].pc \in InLine
    BY <1>1, ThreadsWhere DEF InLine
  <2>2. actor[Main].at % 6 \in {0, 2, 4}
    BY <1>1, MainScript DEF ConsoleInv, OrderInv
  <2>3. OrderInv'
    BY <2>1, <2>2 DEF ConsoleInv, OrderInv, InLine
  <2>4. WorkInv' /\ WrapperReturned'
    BY <2>1 DEF ConsoleInv, LockInv, WrapperReturned, WorkInv, InLine
  <2>. QED BY <2>3, <2>4
<1>2. CASE p \in Workers
  <2>1. /\ actor'[Main] = actor[Main] /\ \A w \in Workers \ {p} : actor'[w] = actor[w]
    BY <1>2, ThreadsWhere
  <2>2. actor[p].at \in {1, 3} /\ actor[p].at \in 1 .. 4
    BY <1>2, WorkerScript DEF ConsoleInv, OrderInv
  <2>3. OrderInv'
    BY <1>2, <2>1, <2>2 DEF ConsoleInv, OrderInv, InLine
  <2>4. WorkInv' /\ WrapperReturned'
    BY <1>2, <2>1 DEF ConsoleInv, LockInv, WrapperReturned, WorkInv, InLine
  <2>. QED BY <2>3, <2>4
<1>. QED BY <1>1, <1>2, ThreadsWhere

(* Between lines nothing happens to the mutex and to the line.             *)
LEMMA LinesKept ==
  ASSUME ConsoleInv, UNCHANGED <<mutex, row>>,
         \A q \in Actors : \/ actor'[q] = actor[q]
                           \/ actor[q].pc \notin InLine /\ actor'[q].pc \notin InLine
  PROVE  /\ OwnerRuns' /\ RowInv'
         /\ ~mutex'.init => mutex'.owner = NoOne
         /\ mutex'.init => \A p \in Actors : actor'[p].pc = "put" => mutex'.owner = p
<1>1. \A q \in Actors : /\ actor'[q].pc = "put" <=> actor[q].pc = "put"
                        /\ actor'[q].pc \in InLine <=> actor[q].pc \in InLine
                        /\ actor[q].pc \in InLine => actor'[q] = actor[q]
  BY DEF InLine
<1>2. OwnerRuns'
  BY <1>1 DEF ConsoleInv, LockInv, ConTypes, OwnerRuns, InLine
<1>3. Panicking' <=> Panicking
  BY <1>1 DEF Panicking, InLine
<1>4. RowInv'
  BY <1>1, <1>3 DEF ConsoleInv, RowInv, InLine
<1>. QED BY <1>1, <1>2, <1>4 DEF ConsoleInv, LockInv

(* Steps in a line.                                                        *)
LEMMA ActorKept ==
  ASSUME ConsoleInv, NEW p \in Actors,
         Printf(p) \/ PutChar(p) \/ PanicBegin(p) \/ PanicPrint(p) \/ Abort(p)
  PROVE  ConsoleInv'
<1>. USE DEF ConsoleInv
<1>0. /\ LineLength \in Nat \ {0} /\ NoOne \notin Actors
      /\ mutex = [init |-> mutex.init, owner |-> mutex.owner] /\ mutex.owner \in Actors \cup {NoOne}
      /\ actor \in [Actors -> Threads] /\ working \in 0 .. 1 /\ wrapper \in [Workers -> 0 .. 1]
  BY ThreadsWhere DEF ConTypes
<1>1. UNCHANGED <<working, wrapper>>
  BY DEF Printf, PutChar, PanicBegin, PanicPrint, Abort
<1>2. LockMutex(p) => /\ mutex' \in {mutex, [init |-> mutex.init, owner |-> p]}
                      /\ mutex.init => mutex.owner \in {NoOne, p} /\ mutex'.owner = p
                      /\ mutex'.init = mutex.init
  BY <1>0 DEF LockMutex
<1>3. Unlocked(p) \in {mutex, [init |-> mutex.init, owner |-> NoOne]}
  BY <1>0 DEF Unlocked
<1>4. ASSUME NEW pc \in InLine, NEW left \in 0 .. LineLength, NEW b \in BOOLEAN,
             actor' = [actor EXCEPT ![p].pc = pc, ![p].left = left, ![p].bad = b],
             actor[p].pc \in InLine \/ (actor[p].pc = "next" /\ Op(p) = "print")
      PROVE  /\ actor' \in [Actors -> Threads]
             /\ actor'[p].pc = pc /\ actor'[p].left = left
             /\ \A q \in Actors \ {p} : actor'[q] = actor[q]
             /\ OrderInv' /\ WorkInv' /\ WrapperReturned'
  <2>1. /\ actor' \in [Actors -> Threads]
        /\ actor'[p].pc = pc /\ actor'[p].left = left /\ actor'[p].at = actor[p].at
        /\ \A q \in Actors \ {p} : actor'[q] = actor[q]
    BY <1>0, <1>4, ZenonT(60) DEF Threads
  <2>. QED BY <1>1, <1>4, <2>1, LinesKeepOrder
<1>5. ASSUME NEW pc, NEW left, actor' = Goes(p, pc, left)
      PROVE  actor' = [actor EXCEPT ![p].pc = pc, ![p].left = left, ![p].bad = actor[p].bad]
  BY <1>0, <1>5 DEF Goes, Threads
<1>6. actor[p].bad \in BOOLEAN /\ actor[p].left \in 0 .. LineLength /\ actor[p].at \in Nat
  BY <1>0 DEF Threads
<1>7. CASE Printf(p)
  <2>1. PICK b \in BOOLEAN :
          actor' = [actor EXCEPT ![p].pc = "put", ![p].left = LineLength, ![p].bad = b]
    BY <1>7, ConsoleAssumption DEF Printf
  <2>2. actor[p].pc = "next" /\ Op(p) = "print" /\ LockMutex(p) /\ row' = row
    BY <1>7 DEF Printf
  <2>3. /\ actor' \in [Actors -> Threads]
        /\ actor'[p].pc = "put" /\ actor'[p].left = LineLength
        /\ \A q \in Actors \ {p} : actor'[q] = actor[q]
        /\ OrderInv' /\ WorkInv' /\ WrapperReturned'
    <3>1. "put" \in InLine /\ LineLength \in 0 .. LineLength
      BY <1>0 DEF InLine
    <3>. QED BY <1>4, <2>1, <2>2, <3>1
  <2>4. ConTypes'
    BY <1>0, <1>1, <1>2, <2>2, <2>3 DEF ConTypes
  <2>5. OwnerRuns'
    BY <1>0, <1>2, <2>2, <2>3 DEF LockInv, OwnerRuns
  <2>6. LockInv'
    <3>1. ~mutex'.init => mutex'.owner = NoOne
      BY <1>2, <2>2 DEF LockInv, LockMutex
    <3>2. mutex'.init => \A q \in Actors : actor'[q].pc = "put" => mutex'.owner = q
      BY <1>0, <1>2, <2>2, <2>3 DEF LockInv
    <3>. QED BY <2>3, <2>5, <3>1, <3>2 DEF LockInv
  <2>7. Panicking' <=> Panicking
    BY <2>2, <2>3 DEF Panicking
  <2>8. RowInv'
    BY <1>0, <1>2, <2>2, <2>3, <2>7 DEF RowInv
  <2>. QED BY <2>3, <2>4, <2>6, <2>8
<1>8. CASE PutChar(p)
  <2>1. /\ actor[p].pc \in {"put", "panicput"} /\ actor[p].left > 0 /\ mutex' = mutex
        /\ actor' = Goes(p, actor[p].pc, actor[p].left - 1)
        /\ row' = [of |-> IF actor[p].left = 1 THEN NoOne ELSE p,
                   torn |-> row.torn \/ row.of \notin {NoOne, p}
                             \/ (row.of = NoOne /\ actor[p].left < LineLength)]
    BY <1>8 DEF PutChar
  <2>2. /\ actor' \in [Actors -> Threads]
        /\ actor'[p].pc = actor[p].pc /\ actor'[p].left = actor[p].left - 1
        /\ \A q \in Actors \ {p} : actor'[q] = actor[q]
        /\ OrderInv' /\ WorkInv' /\ WrapperReturned'
    <3>1. actor[p].left - 1 \in 0 .. LineLength
      BY <1>0, <1>6, <2>1
    <3>2. actor[p].pc \in InLine
      BY <2>1 DEF InLine
    <3>3. actor' = [actor EXCEPT ![p].pc = actor[p].pc, ![p].left = actor[p].left - 1, ![p].bad = actor[p].bad]
      BY <1>5, <2>1
    <3>. HIDE DEF InLine
    <3>. QED BY <1>4, <1>6, <3>1, <3>2, <3>3
  <2>3. row'.of \in {NoOne, p} /\ row'.of = IF actor[p].left = 1 THEN NoOne ELSE p
    BY <2>1
  <2>4. ConTypes' /\ LockInv'
    BY <1>0, <1>1, <2>1, <2>2, <2>3 DEF ConTypes, LockInv, OwnerRuns
  <2>5. ASSUME mutex'.init, ~Panicking'
        PROVE  /\ ~row'.torn
               /\ \A q \in Actors : row'.of = q <=>
                    actor'[q].pc = "put" /\ 0 < actor'[q].left /\ actor'[q].left < LineLength
    <3>1. actor[p].pc = "put" /\ ~Panicking
      BY <2>1, <2>2, <2>5 DEF Panicking
    <3>2. mutex.init /\ mutex.owner = p
      BY <2>1, <2>5, <3>1 DEF LockInv
    <3>3. \A q \in Actors \ {p} : actor[q].pc # "put"
      BY <3>2 DEF LockInv
    <3>4. ~row.torn /\ row.of \in {NoOne, p} /\ (row.of = p <=> actor[p].left < LineLength)
      BY <2>1, <3>1, <3>2, <3>3 DEF RowInv, ConTypes
    <3>5. ~row'.torn
      BY <1>0, <1>6, <2>1, <3>4
    <3>. QED BY <1>0, <1>6, <2>1, <2>2, <2>3, <3>1, <3>3, <3>5
  <2>. QED BY <2>2, <2>4, <2>5 DEF RowInv
<1>9. CASE PanicBegin(p) \/ PanicPrint(p) \/ Abort(p)
  <2>1. PICK pc \in {"panic", "panicput", "dead"}, left \in 0 .. LineLength :
          /\ actor' = Goes(p, pc, left) /\ actor[p].pc \in InLine /\ row' = row
          /\ (pc # "dead" /\ (mutex' = mutex \/ LockMutex(p))) \/ (pc = "dead" /\ mutex' = Unlocked(p))
    <3>1. 0 \in 0 .. LineLength /\ LineLength \in 0 .. LineLength
      BY <1>0
    <3>2. CASE PanicBegin(p)
      BY <3>1, <3>2 DEF PanicBegin, InLine
    <3>3. CASE PanicPrint(p)
      BY <3>1, <3>3 DEF PanicPrint, InLine
    <3>4. CASE Abort(p)
      BY <3>1, <3>4 DEF Abort, InLine
    <3>. QED BY <1>9, <3>2, <3>3, <3>4
  <2>2. /\ actor' \in [Actors -> Threads] /\ actor'[p].pc = pc
        /\ \A q \in Actors \ {p} : actor'[q] = actor[q]
        /\ OrderInv' /\ WorkInv' /\ WrapperReturned'
    <3>1. pc \in InLine
      BY DEF InLine
    <3>2. actor' = [actor EXCEPT ![p].pc = pc, ![p].left = left, ![p].bad = actor[p].bad]
      BY <1>5, <2>1
    <3>. QED BY <1>4, <1>6, <2>1, <3>1, <3>2
  <2>3. Panicking'
    BY <2>2 DEF Panicking
  <2>4. mutex' \in {mutex, [init |-> mutex.init, owner |-> p], [init |-> mutex.init, owner |-> NoOne]}
    BY <1>2, <1>3, <2>1
  <2>5. ConTypes'
    BY <1>0, <1>1, <2>1, <2>2, <2>4 DEF ConTypes
  <2>6. OwnerRuns'
    <3>1. pc = "dead" => mutex'.owner # p
      BY <1>0, <2>1 DEF Unlocked, LockInv
    <3>. QED BY <1>0, <2>2, <2>4, <3>1 DEF LockInv, OwnerRuns
  <2>7. /\ ~mutex'.init => mutex'.owner = NoOne
        /\ mutex'.init => \A q \in Actors : actor'[q].pc = "put" => mutex'.owner = q
    <3>1. mutex' = mutex \/ LockMutex(p) \/ mutex' = Unlocked(p)
      BY <2>1
    <3>2. CASE mutex' = mutex
      BY <2>2, <3>2 DEF LockInv
    <3>3. CASE LockMutex(p)
      BY <1>0, <1>2, <2>2, <3>3 DEF LockInv, LockMutex
    <3>4. CASE mutex' = Unlocked(p)
      BY <1>0, <2>2, <3>4 DEF LockInv, Unlocked
    <3>. QED BY <3>1, <3>2, <3>3, <3>4
  <2>. QED BY <2>2, <2>3, <2>5, <2>6, <2>7 DEF LockInv, RowInv
<1>. QED BY <1>7, <1>8, <1>9

(* The next command of the main thread's script.                           *)
LEMMA MainGoesOn ==
  ASSUME ConsoleInv, actor[Main].at < 6 * Rounds + 1,
         actor' = GoesOn(Main), wrapper' = wrapper, working' \in 0 .. 1,
         \/ actor[Main].pc = "next" /\ actor[Main].at % 6 \in {0, 1, 2, 4, 5}
         \/ actor[Main].pc = "put"
         \/ actor[Main].pc = "send",
         actor[Main].at % 6 = 1 => working' = 1,
         actor[Main].at % 6 # 1 => working' = working,
         actor[Main].at % 6 = 5 => working = 0
  PROVE  actor' \in [Actors -> Threads] /\ OrderInv' /\ WorkInv' /\ WrapperReturned'
<1>. DEFINE a == actor[Main].at
<1>. USE DEF ConsoleInv
<1>1. /\ Main \in Actors /\ Main \notin Workers /\ Actors = Workers \cup {Main}
      /\ \A w \in Workers : w \in Nat /\ w > 0
      /\ Rounds \in Nat \ {0} /\ a \in Nat /\ a % 6 \in 0 .. 5
      /\ (a + 1) % 6 = IF a % 6 = 5 THEN 0 ELSE (a % 6) + 1
      /\ a = 6 * (a \div 6) + (a % 6) /\ a \div 6 \in Nat
  BY ThreadsWhere
<1>2. /\ actor' \in [Actors -> Threads]
      /\ actor'[Main].at = a + 1 /\ actor'[Main].pc = "next"
      /\ \A w \in Workers : actor'[w] = actor[w]
  BY <1>1 DEF GoesOn, ConTypes, Threads
<1>. HIDE DEF a
<1>3. OrderInv'
  BY <1>1, <1>2 DEF OrderInv, InLine, a
<1>4. \A w \in Workers :
        actor[w].pc # "none" /\ actor[w].at <= 2 => working' = 1 /\ a + 1 <= 6 * w - 1
  <2>. SUFFICES ASSUME NEW w \in Workers, actor[w].pc # "none", actor[w].at <= 2
                PROVE  working' = 1 /\ a + 1 <= 6 * w - 1
    OBVIOUS
  <2>1. working = 1 /\ a <= 6 * w - 1 /\ (6 * w - 3 < a \/ (6 * w - 3 = a /\ actor[Main].pc = "send"))
    BY DEF WorkInv, OrderInv, a
  <2>2. a % 6 # 5
    BY <2>1 DEF a
  <2>3. a # 6 * w - 1
    BY <1>1, <2>2
  <2>. QED BY <1>1, <2>1, <2>3 DEF a
<1>5. /\ (a + 1) % 6 \in {2, 3} => working' = 1
      /\ (a + 1) % 6 \in {0, 1} /\ a + 1 < 6 * Rounds => working' = 0
  <2>1. /\ a % 6 = 2 => working = 1
        /\ a % 6 = 0 /\ a < 6 * Rounds => working = 0
    BY <1>1 DEF WorkInv, OrderInv, InLine, a
  <2>. QED BY <1>1, <2>1 DEF a
<1>6. WorkInv'
  BY <1>2, <1>4, <1>5 DEF WorkInv
<1>7. WrapperReturned'
  BY <1>2 DEF LockInv, WrapperReturned
<1>. QED BY <1>2, <1>3, <1>6, <1>7

(* What a worker does next, short of being done.                           *)
LEMMA WorkerGoesOn ==
  ASSUME ConsoleInv, NEW w \in Workers, actor' \in [Actors -> Threads],
         \A q \in Actors \ {w} : actor'[q] = actor[q],
         working' = working, actor[w].pc # "none",
         actor'[w].pc \in {"next", "poparg", "end"}, actor'[w].at \in 1 .. 4,
         actor'[w].pc = "poparg" => actor'[w].at = 1,
         actor'[w].at <= 2 => actor[w].at <= 2,
         wrapper'[w] = 0, wrapper' \in [Workers -> 0 .. 1],
         \A v \in Workers \ {w} : wrapper'[v] = wrapper[v]
  PROVE  OrderInv' /\ WorkInv' /\ WrapperReturned'
<1>. USE DEF ConsoleInv
<1>1. actor'[Main] = actor[Main] /\ \A v \in Workers \ {w} : actor'[v] = actor[v]
  BY ThreadsWhere
<1>2. OrderInv'
  BY <1>1 DEF OrderInv, InLine
<1>3. WorkInv'
  BY <1>1 DEF WorkInv
<1>4. WrapperReturned'
  BY <1>1 DEF LockInv, WrapperReturned
<1>. QED BY <1>2, <1>3, <1>4

(* Ending a line keeps the strengthening.                                  *)
LEMMA EndLineKept ==
  ASSUME ConsoleInv, NEW p \in Actors, EndLine(p)
  PROVE  ConsoleInv'
<1>. USE DEF ConsoleInv
<1>0. /\ NoOne \notin Actors /\ LineLength \in Nat \ {0}
      /\ mutex = [init |-> mutex.init, owner |-> mutex.owner] /\ mutex.owner \in Actors \cup {NoOne}
      /\ actor \in [Actors -> Threads] /\ working \in 0 .. 1 /\ wrapper \in [Workers -> 0 .. 1]
  BY ThreadsWhere DEF ConTypes
<1>1. /\ actor[p].pc = "put" /\ actor[p].left = 0 /\ mutex' = Unlocked(p) /\ actor' = GoesOn(p)
      /\ UNCHANGED <<working, wrapper, row>>
  BY DEF EndLine
<1>2. /\ actor' \in [Actors -> Threads]
      /\ actor'[p].pc = "next" /\ actor'[p].at = actor[p].at + 1
      /\ \A q \in Actors \ {p} : actor'[q] = actor[q]
  BY <1>0, <1>1 DEF GoesOn, Threads
<1>3. OrderInv' /\ WorkInv' /\ WrapperReturned'
  <2>1. CASE p = Main
    <3>1. actor[Main].at % 6 \in {0, 2, 4}
      BY <1>1, <2>1 DEF OrderInv, InLine
    <3>2. actor[Main].at < 6 * Rounds + 1
      <4>. DEFINE a == actor[Main].at
                  q == a \div 6
                  r == a % 6
      <4>1. /\ a \in 1 .. 6 * Rounds + 1 /\ q \in Nat /\ r \in {0, 2, 4} /\ a = 6 * q + r
            /\ Rounds \in Nat
        BY <3>1, ThreadsWhere DEF OrderInv
      <4>. HIDE DEF q, r, a
      <4>2. a < 6 * Rounds + 1
        BY <4>1
      <4>. QED BY <4>2 DEF a
    <3>. QED BY <1>0, <1>1, <2>1, <3>1, <3>2, MainGoesOn
  <2>2. CASE p \in Workers
    <3>1. actor[p].at \in {1, 3} /\ wrapper[p] = 0
      BY <1>1, <2>2 DEF OrderInv, InLine, LockInv, WrapperReturned
    <3>. QED BY <1>0, <1>1, <1>2, <2>2, <3>1, WorkerGoesOn
  <2>. QED BY <2>1, <2>2, ThreadsWhere
<1>4. mutex' \in {mutex, [init |-> mutex.init, owner |-> NoOne]}
  BY <1>0, <1>1 DEF Unlocked
<1>5. ConTypes'
  BY <1>0, <1>1, <1>2, <1>4 DEF ConTypes
<1>6. /\ OwnerRuns' /\ (~mutex'.init => mutex'.owner = NoOne)
      /\ mutex'.init => \A q \in Actors : actor'[q].pc = "put" => mutex'.owner = q
  <2>1. mutex.init => mutex.owner = p
    BY <1>1 DEF LockInv
  <2>2. mutex'.owner = NoOne /\ mutex'.init = mutex.init
    BY <1>0, <1>1, <1>4, <2>1 DEF LockInv, Unlocked
  <2>3. mutex.init => \A q \in Actors : actor'[q].pc # "put"
    BY <1>2, <2>1 DEF LockInv
  <2>. QED BY <2>2, <2>3 DEF OwnerRuns
<1>7. Panicking' <=> Panicking
  BY <1>1, <1>2 DEF Panicking
<1>8. RowInv'
  BY <1>0, <1>1, <1>2, <1>4, <1>7 DEF RowInv
<1>. QED BY <1>3, <1>5, <1>6, <1>8 DEF LockInv

(* Steps of the scripts other than lines.                                  *)
LEMMA ScriptKept ==
  ASSUME ~ResetsRunning, ConsoleInv,
         MainStep \/ \E w \in Workers : WorkerStep(w)
  PROVE  ConsoleInv'
<1>. USE DEF ConsoleInv
<1>. DEFINE a == actor[Main].at
<1>0. /\ Main \in Actors /\ Main \notin Workers /\ Actors = Workers \cup {Main}
      /\ \A w \in Workers : w \in Nat /\ w > 0
      /\ Rounds \in Nat \ {0} /\ a \in Nat /\ a \in 1 .. 6 * Rounds + 1
      /\ mutex = [init |-> mutex.init, owner |-> mutex.owner] /\ mutex.owner \in Actors \cup {NoOne}
      /\ actor \in [Actors -> Threads] /\ working \in 0 .. 1 /\ wrapper \in [Workers -> 0 .. 1]
      /\ row.of \in Actors \cup {NoOne} /\ LineLength \in Nat
  BY ThreadsWhere DEF ConTypes, OrderInv
<1>1. ASSUME actor' \in [Actors -> Threads] /\ OrderInv' /\ WorkInv' /\ WrapperReturned',
             UNCHANGED <<mutex, row>>, working' \in 0 .. 1, wrapper' \in [Workers -> 0 .. 1],
             \A q \in Actors : \/ actor'[q] = actor[q]
                               \/ actor[q].pc \notin InLine /\ actor'[q].pc \notin InLine
      PROVE  ConsoleInv'
  BY <1>0, <1>1, LinesKept DEF ConTypes, LockInv
<1>2. ASSUME AddWork \/ SendArg \/ WaitWork PROVE ConsoleInv'
  <2>1. /\ actor' = GoesOn(Main) /\ UNCHANGED <<mutex, row, wrapper>> /\ actor[Main].pc \in {"next", "send"}
    BY <1>2 DEF AddWork, SendArg, WaitWork
  <2>2. /\ AddWork => a % 6 = 1 /\ a < 6 * Rounds
        /\ SendArg => a % 6 = 3 /\ actor[Main].pc = "send"
        /\ WaitWork => a % 6 = 5
    BY <1>0, MainScript DEF AddWork, SendArg, WaitWork, OrderInv
  <2>3. a < 6 * Rounds + 1
    <3>. DEFINE q == a \div 6
                r == a % 6
    <3>1. q \in Nat /\ r \in {1, 3, 5} /\ a = 6 * q + r /\ (r = 1 => a < 6 * Rounds)
      BY <1>2, <2>2, ThreadsWhere
    <3>. HIDE DEF q, r, a
    <3>. QED BY <1>0, <3>1
  <2>4. AddWork => working = 0 /\ working' = 1
    BY <2>2 DEF AddWork, WorkInv
  <2>5. /\ SendArg => working' = working
        /\ WaitWork => working' = working /\ working = 0
    BY DEF SendArg, WaitWork
  <2>6. working' \in 0 .. 1
    BY <1>0, <1>2, <2>4, <2>5
  <2>7. actor' \in [Actors -> Threads] /\ OrderInv' /\ WorkInv' /\ WrapperReturned'
    <3>1. CASE AddWork
      BY <1>0, <2>1, <2>2, <2>3, <2>4, <2>6, <3>1, MainGoesOn DEF AddWork
    <3>2. CASE SendArg
      BY <1>0, <2>1, <2>2, <2>3, <2>5, <2>6, <3>2, MainGoesOn
    <3>3. CASE WaitWork
      BY <1>0, <2>1, <2>2, <2>3, <2>5, <2>6, <3>3, MainGoesOn DEF WaitWork
    <3>. QED BY <1>2, <3>1, <3>2, <3>3
  <2>8. \A q \in Actors : \/ actor'[q] = actor[q]
                          \/ actor[q].pc \notin InLine /\ actor'[q].pc \notin InLine
    BY <1>0, <2>1 DEF GoesOn, Threads, InLine
  <2>. QED BY <1>0, <1>1, <2>1, <2>6, <2>7, <2>8
(* The worker that is created has not begun, and no other is at work.      *)
<1>. DEFINE Creates ==
              /\ Round \in Workers /\ a = 6 * Round - 3 /\ a % 6 = 3 /\ working = 1
              /\ actor[Round].pc = "none" /\ actor[Round].at = 1 /\ wrapper[Round] = 0
              /\ \A w \in Workers : actor[w].pc = "none" \/ actor[w].at > 2
              /\ \A w \in Workers : actor[w].pc # "none" => 6 * w - 3 < a
<1>3. ASSUME actor[Main].pc = "next", Op(Main) = "create" PROVE Creates
  <2>1. Round \in Workers /\ a = 6 * Round - 3 /\ a % 6 = 3
    BY <1>0, <1>3, MainScript
  <2>2. actor[Round].pc = "none" /\ actor[Round].at = 1
    BY <1>0, <1>3, <2>1 DEF OrderInv
  <2>3. wrapper[Round] = 0 /\ working = 1
    BY <1>3, <2>1, <2>2 DEF LockInv, WrapperReturned, WorkInv
  <2>4. \A w \in Workers : actor[w].pc # "none" => 6 * w - 3 < a
    BY <1>0, <1>3 DEF OrderInv
  <2>5. ASSUME NEW w \in Workers, actor[w].pc # "none", actor[w].at <= 2 PROVE FALSE
    <3>1. a <= 6 * w - 1 /\ 6 * w - 3 < a
      BY <2>4, <2>5 DEF WorkInv
    <3>2. Round \in Nat /\ w \in Nat
      BY <1>0, <2>1
    <3>. HIDE DEF a
    <3>. QED BY <2>1, <3>1, <3>2
  <2>6. \A w \in Workers : actor[w].at \in 1 .. 4
    BY DEF OrderInv
  <2>. QED BY <2>1, <2>2, <2>3, <2>4, <2>5, <2>6
<1>4. CASE CreateThread
  <2>1. /\ actor[Main].pc = "next" /\ Op(Main) = "create"
        /\ wrapper' = [wrapper EXCEPT ![Round] = @ + 1]
        /\ actor' = [actor EXCEPT ![Round].pc = "wrapper", ![Main].at = @ + 1]
        /\ UNCHANGED <<mutex, row, working>>
    BY <1>4 DEF CreateThread
  <2>0. Creates
    BY <1>3, <2>1
  <2>2. /\ actor' \in [Actors -> Threads]
        /\ actor'[Main].pc = "next" /\ actor'[Main].at = a + 1
        /\ actor'[Round].pc = "wrapper" /\ actor'[Round].at = 1
        /\ \A w \in Workers \ {Round} : actor'[w] = actor[w]
        /\ wrapper' \in [Workers -> 0 .. 1] /\ wrapper'[Round] = 1
        /\ \A w \in Workers \ {Round} : wrapper'[w] = wrapper[w]
    BY <1>0, <2>0, <2>1 DEF Threads
  <2>3. (a + 1) % 6 = 4 /\ Round \in Nat /\ a + 1 <= 6 * Rounds + 1
    <3>1. (a + 1) % 6 = 4
      BY <2>0, ThreadsWhere
    <3>2. Round \in 1 .. Rounds
      BY <2>0 DEF Workers
    <3>3. Round \in Nat /\ a + 1 <= 6 * Rounds + 1
      BY <1>0, <2>0, <3>2
    <3>. QED BY <3>1, <3>3
  <2>4. OrderInv'
    <3>1. \A w \in Workers \ {Round} : actor[w].pc = "none" \/ 6 * w - 3 < a + 1
      BY <1>0, <2>0, <2>1
    <3>2. 6 * Round - 3 < a + 1
      BY <1>0, <2>0, <2>1
    <3>. HIDE DEF a
    <3>. QED BY <1>0, <2>2, <2>3, <3>1, <3>2 DEF OrderInv, InLine
  <2>5. WorkInv'
    <3>1. a + 1 <= 6 * Round - 1
      BY <1>0, <2>0, <2>1, <2>3
    <3>2. working' = 1
      BY <2>0, <2>1
    <3>3. \A w \in Workers : w = Round \/ actor'[w].pc = "none" \/ actor'[w].at > 2
      BY <2>0, <2>2
    <3>4. \A w \in Workers : actor'[w].pc # "none" /\ actor'[w].at <= 2 => w = Round
      <4>. SUFFICES ASSUME NEW w \in Workers, actor'[w].pc # "none", actor'[w].at <= 2, w # Round
                    PROVE  FALSE
        OBVIOUS
      <4>1. actor'[w].at > 2 /\ actor'[w] = actor[w] /\ actor[w].at \in Nat
        BY <1>0, <2>2, <3>3 DEF Threads
      <4>. QED BY <4>1
    <3>. HIDE DEF a, Creates
    <3>. QED BY <2>2, <2>3, <3>1, <3>2, <3>4 DEF WorkInv
  <2>6. WrapperReturned'
    BY <2>2 DEF LockInv, WrapperReturned
  <2>7. \A q \in Actors : \/ actor'[q] = actor[q]
                          \/ actor[q].pc \notin InLine /\ actor'[q].pc \notin InLine
    BY <1>0, <2>0, <2>1, <2>2 DEF InLine
  <2>. QED BY <1>0, <1>1, <2>1, <2>2, <2>4, <2>5, <2>6, <2>7
<1>5. CASE CreateFails
  <2>1. /\ actor[Main].pc = "next" /\ Op(Main) = "create"
        /\ actor' = [actor EXCEPT ![Main].at = 6 * Rounds]
        /\ UNCHANGED <<mutex, row, working, wrapper>>
    BY <1>5 DEF CreateFails
  <2>0. Creates
    BY <1>3, <2>1
  <2>2. /\ actor' \in [Actors -> Threads]
        /\ actor'[Main].pc = "next" /\ actor'[Main].at = 6 * Rounds
        /\ \A w \in Workers : actor'[w] = actor[w]
    BY <1>0, <2>1 DEF Threads
  <2>3. (6 * Rounds) % 6 = 0
    BY <1>0, Z3
  <2>4. OrderInv'
    <3>1. a <= 6 * Rounds
      BY <1>0, <2>0, <2>1 DEF Workers
    <3>2. \A w \in Workers : actor[w].pc = "none" \/ 6 * w - 3 < 6 * Rounds
      BY <1>0, <2>0, <2>1, <3>1
    <3>3. 6 * Rounds \in 1 .. 6 * Rounds + 1
      BY <1>0
    <3>. HIDE DEF a
    <3>. QED BY <1>0, <2>2, <2>3, <3>2, <3>3 DEF OrderInv, InLine
  <2>5. WorkInv'
    BY <1>0, <2>0, <2>1, <2>2, <2>3 DEF WorkInv, OrderInv
  <2>6. WrapperReturned'
    BY <2>1, <2>2 DEF LockInv, WrapperReturned
  <2>7. \A q \in Actors : \/ actor'[q] = actor[q]
                          \/ actor[q].pc \notin InLine /\ actor'[q].pc \notin InLine
    BY <1>0, <2>1, <2>2 DEF InLine
  <2>. QED BY <1>0, <1>1, <2>1, <2>2, <2>4, <2>5, <2>6, <2>7
<1>6. CASE CreateOnCore
  <2>1. /\ actor[Main].pc = "next" /\ Op(Main) = "create" /\ \A w \in Workers : Over(w)
        /\ actor' = [p \in Actors |->
                      IF p = Round THEN [actor[p] EXCEPT !.pc = "pop"]
                      ELSE IF p = Main THEN [actor[p] EXCEPT !.pc = "send"]
                      ELSE IF Over(p) THEN actor[p] ELSE [actor[p] EXCEPT !.pc = "killed"]]
        /\ UNCHANGED <<mutex, row, working, wrapper>>
    BY <1>6 DEF CreateOnCore
  <2>0. Creates
    BY <1>3, <2>1
  <2>2. Round \in Workers /\ Round # Main
    BY <1>0, <2>0, <2>1
  <2>3. /\ actor'[Main] = [actor[Main] EXCEPT !.pc = "send"]
        /\ actor'[Round] = [actor[Round] EXCEPT !.pc = "pop"]
        /\ \A w \in Workers \ {Round} : actor'[w] = actor[w]
    BY <1>0, <2>1, <2>2
  <2>4. actor[Main] \in Threads /\ actor[Round] \in Threads
    BY <1>0, <2>2
  <2>5. /\ actor'[Main].pc = "send" /\ actor'[Main].at = a
        /\ actor'[Round].pc = "pop" /\ actor'[Round].at = 1
        /\ actor'[Main] \in Threads /\ actor'[Round] \in Threads
    BY <2>0, <2>1, <2>3, <2>4 DEF Threads
  <2>6. actor' \in [Actors -> Threads]
    <3>1. \A p \in Actors : actor'[p] \in Threads
      BY <1>0, <2>2, <2>3, <2>5
    <3>2. actor' = [p \in Actors |-> actor'[p]]
      BY <2>1
    <3>. QED BY <3>1, <3>2
  <2>7. OrderInv'
    <3>. HIDE DEF a
    <3>. QED BY <1>0, <2>0, <2>1, <2>2, <2>3, <2>5 DEF OrderInv, InLine, a
  <2>8. WorkInv'
    <3>1. a <= 6 * Round - 1
      BY <1>0, <2>0, <2>1
    <3>2. a % 6 = 3 /\ working' = 1
      BY <2>0, <2>1
    <3>3. \A w \in Workers : w = Round \/ actor'[w].pc = "none" \/ actor'[w].at > 2
      BY <2>0, <2>3
    <3>4. \A w \in Workers : actor'[w].pc # "none" /\ actor'[w].at <= 2 => w = Round
      <4>. SUFFICES ASSUME NEW w \in Workers, actor'[w].pc # "none", actor'[w].at <= 2, w # Round
                    PROVE  FALSE
        OBVIOUS
      <4>1. actor'[w].at > 2 /\ actor'[w] = actor[w] /\ actor[w].at \in Nat
        BY <1>0, <2>3, <3>3 DEF Threads
      <4>. QED BY <4>1
    <3>. HIDE DEF a, Creates
    <3>. QED BY <2>5, <3>1, <3>2, <3>4 DEF WorkInv
  <2>9. WrapperReturned'
    <3>. SUFFICES ASSUME NEW w \in Workers
                  PROVE  wrapper[w] = IF actor'[w].pc = "wrapper" THEN 1 ELSE 0
      BY <2>1 DEF WrapperReturned
    <3>1. wrapper[w] = IF actor[w].pc = "wrapper" THEN 1 ELSE 0
      BY DEF LockInv, WrapperReturned
    <3>2. CASE w = Round
      BY <2>0, <2>5, <3>2
    <3>3. CASE w # Round
      BY <2>3, <3>1, <3>3
    <3>. QED BY <3>2, <3>3
  <2>10. \A q \in Actors : \/ actor'[q] = actor[q]
                           \/ actor[q].pc \notin InLine /\ actor'[q].pc \notin InLine
    BY <1>0, <2>0, <2>1, <2>3, <2>5 DEF InLine
  <2>. QED BY <1>0, <1>1, <2>1, <2>6, <2>7, <2>8, <2>9, <2>10
<1>7. ASSUME NEW w \in Workers, RunWrapper(w) \/ PopFifo(w) \/ Return(w) PROVE ConsoleInv'
  <2>1. PICK pc \in {"next", "poparg", "end"} :
          /\ actor' = Goes(w, pc, 0) /\ UNCHANGED <<mutex, row, working>>
          /\ actor[w].pc \in {"wrapper", "pop", "poparg", "next"}
          /\ pc = "poparg" => actor[w].pc \in {"pop", "poparg"}
          /\ \/ actor[w].pc = "wrapper" /\ wrapper' = [wrapper EXCEPT ![w] = @ - 1]
             \/ actor[w].pc # "wrapper" /\ wrapper' = wrapper
    BY <1>7 DEF RunWrapper, PopFifo, Return
  <2>2. /\ actor' \in [Actors -> Threads]
        /\ actor'[w].pc = pc /\ actor'[w].at = actor[w].at
        /\ \A q \in Actors \ {w} : actor'[q] = actor[q]
    <3>1. 0 \in 0 .. LineLength
      BY <1>0
    <3>. QED BY <1>0, <2>1, <3>1, ZenonT(60) DEF Goes, Threads
  <2>3. /\ wrapper' \in [Workers -> 0 .. 1] /\ wrapper'[w] = 0
        /\ \A v \in Workers \ {w} : wrapper'[v] = wrapper[v]
    BY <1>0, <2>1 DEF LockInv, WrapperReturned
  <2>4. actor[w].at \in 1 .. 4 /\ (pc = "poparg" => actor[w].at = 1)
    BY <2>1 DEF OrderInv
  <2>5. OrderInv' /\ WorkInv' /\ WrapperReturned'
    BY <2>1, <2>2, <2>3, <2>4, WorkerGoesOn
  <2>6. \A q \in Actors : \/ actor'[q] = actor[q]
                          \/ actor[q].pc \notin InLine /\ actor'[q].pc \notin InLine
    BY <2>1, <2>2 DEF InLine
  <2>. QED BY <1>0, <1>1, <2>1, <2>2, <2>3, <2>5, <2>6
<1>8. ASSUME NEW w \in Workers, Done(w) PROVE ConsoleInv'
  <2>1. /\ actor[w].pc = "next" /\ Op(w) = "done" /\ working' = working - 1
        /\ actor' = GoesOn(w) /\ UNCHANGED <<mutex, row, wrapper>>
    BY <1>8 DEF Done
  <2>2. actor[w].at = 2
    BY <2>1, WorkerScript DEF OrderInv
  <2>3. /\ actor' \in [Actors -> Threads]
        /\ actor'[w].pc = "next" /\ actor'[w].at = 3
        /\ actor'[Main] = actor[Main]
        /\ \A v \in Workers \ {w} : actor'[v] = actor[v]
    BY <1>0, <2>1, <2>2 DEF GoesOn, Threads
  <2>4. /\ working = 1 /\ a <= 6 * w - 1
        /\ 6 * w - 3 < a \/ (6 * w - 3 = a /\ actor[Main].pc = "send")
    BY <2>1, <2>2 DEF WorkInv, OrderInv
  <2>5. OrderInv'
    <3>. HIDE DEF a
    <3>. QED BY <2>1, <2>3 DEF OrderInv, InLine
  <2>6. ASSUME NEW v \in Workers \ {w}, actor[v].pc # "none", actor[v].at <= 2 PROVE FALSE
    <3>1. a <= 6 * v - 1 /\ 6 * v - 3 <= a
      BY <1>0, <2>6 DEF WorkInv, OrderInv
    <3>2. v \in Nat /\ w \in Nat
      BY <1>0
    <3>. HIDE DEF a
    <3>. QED BY <1>0, <2>4, <2>6, <3>1, <3>2
  <2>7. a % 6 \in {2, 3} => actor[Main].pc = "send"
    <3>. DEFINE q == a \div 6
                r == a % 6
    <3>1. q \in Nat /\ r \in 0 .. 5 /\ a = 6 * q + r
      BY ThreadsWhere
    <3>. HIDE DEF q, r, a
    <3>2. r \in {2, 3} => actor[Main].pc = "send"
      BY <1>0, <2>4, <3>1
    <3>. QED BY <3>2 DEF r
  <2>8. WorkInv'
    BY <1>0, <2>1, <2>3, <2>4, <2>6, <2>7 DEF WorkInv, a
  <2>9. WrapperReturned'
    BY <2>1, <2>3 DEF LockInv, WrapperReturned
  <2>10. \A q \in Actors : \/ actor'[q] = actor[q]
                           \/ actor[q].pc \notin InLine /\ actor'[q].pc \notin InLine
    BY <1>0, <2>1, <2>3 DEF InLine
  <2>11. working' \in 0 .. 1
    BY <2>1, <2>4
  <2>. QED BY <1>0, <1>1, <2>1, <2>3, <2>5, <2>8, <2>9, <2>10, <2>11
<1>9. CASE Exit
  <2>1. /\ actor[Main].pc = "next" /\ actor' = Goes(Main, "exiting", 0)
        /\ mutex' = [init |-> FALSE, owner |-> NoOne] /\ UNCHANGED <<row, working, wrapper>>
    BY <1>9 DEF Exit
  <2>2. /\ actor' \in [Actors -> Threads]
        /\ actor'[Main].pc = "exiting" /\ actor'[Main].at = actor[Main].at
        /\ \A w \in Workers : actor'[w] = actor[w]
    <3>1. 0 \in 0 .. LineLength
      BY <1>0
    <3>. HIDE DEF a
    <3>. QED BY <1>0, <2>1, <3>1, ZenonT(60) DEF Goes, Threads
  <2>3. OrderInv'
    BY <1>0, <2>1, <2>2 DEF OrderInv, InLine
  <2>4. WorkInv'
    BY <2>1, <2>2 DEF WorkInv
  <2>5. ~mutex'.init /\ mutex'.owner = NoOne
    BY <2>1
  <2>6. ConTypes'
    BY <1>0, <2>1, <2>2 DEF ConTypes
  <2>7. WrapperReturned'
    BY <2>1, <2>2 DEF LockInv, WrapperReturned
  <2>. QED BY <2>3, <2>4, <2>5, <2>6, <2>7 DEF LockInv, RowInv, OwnerRuns
<1>10. CASE ReturnMain
  BY <1>10 DEF ReturnMain, ConTypes, OrderInv, WorkInv, LockInv, RowInv, OwnerRuns, WrapperReturned, Panicking
<1>. QED BY <1>2, <1>4, <1>5, <1>6, <1>7, <1>8, <1>9, <1>10 DEF MainStep, WorkerStep

(* Threads and console: the strengthening implies what is claimed, and every step keeps it. *)
LEMMA ConsoleKept ==
  ASSUME ~ResetsRunning
  PROVE  /\ ConsoleInit => ConsoleInv
         /\ ConsoleInv => LinesWhole /\ OwnerRuns /\ WrapperReturned /\ working \in 0 .. Rounds
         /\ ConsoleInv /\ [ConsoleStep]_conVars => ConsoleInv'
<1>1. ConsoleInit => ConsoleInv
  BY ThreadsStart
<1>2. ConsoleInv => LinesWhole /\ OwnerRuns /\ WrapperReturned /\ working \in 0 .. Rounds
  BY ConsoleAssumption DEF ConsoleInv, RowInv, LinesWhole, LockInv, ConTypes
<1>3. ConsoleInv /\ ConsoleStep => ConsoleInv'
  BY ActorKept, EndLineKept, ScriptKept DEF ConsoleStep, ActorStep
<1>4. ConsoleInv /\ UNCHANGED conVars => ConsoleInv'
  BY DEF conVars, ConsoleInv, ConTypes, OrderInv, WorkInv, LockInv, RowInv, OwnerRuns, WrapperReturned,
         Panicking
<1>. QED BY <1>1, <1>2, <1>3, <1>4

-----------------------------------------------------------------------------
(* The e-paper panel.  A call that is under way has the rest of its        *)
(* commands to send; Turn is the place of the next one.                    *)
Commands ==
  CASE call.op \in {"init", "set"} -> Setup(epaper)
    [] call.op = "finalize" -> <<Do("POF"), Do("WAIT")>>
    [] call.op = "update" -> Update(call.frame)
    [] call.op = "partial" -> PartialUpdate(call.frame, call.area)
    [] OTHER -> <<>>
Lead == Len(Waits)
Turn == Len(Commands) - Len(script) + 1
IsSequence(s) == \E S : s \in Seq(S)

Joined(u, s, t, S) ==
  /\ u \in Seq(S) /\ Len(u) = Len(s) + Len(t)
  /\ \A i \in 1 .. Len(s) : u[i] = s[i]
  /\ \A i \in 1 .. Len(t) : u[Len(s) + i] = t[i]

(* A concatenation, element by element.                                    *)
LEMMA Concatenation ==
  ASSUME NEW S, NEW s \in Seq(S), NEW t \in Seq(S)
  PROVE  Joined(s \o t, s, t, S)
<1>1. /\ s \o t \in Seq(S) /\ Len(s \o t) = Len(s) + Len(t)
      /\ \A i \in 1 .. Len(s) + Len(t) : (s \o t)[i] = IF i <= Len(s) THEN s[i] ELSE t[i - Len(s)]
  BY ConcatProperties
<1>. DEFINE m == Len(s)
            n == Len(t)
            u == s \o t
<1>2. m \in Nat /\ n \in Nat
  OBVIOUS
<1>3. /\ u \in Seq(S) /\ Len(u) = m + n
      /\ \A i \in 1 .. m + n : u[i] = IF i <= m THEN s[i] ELSE t[i - m]
  BY <1>1
<1>. HIDE DEF m, n, u
<1>4. ASSUME NEW i \in 1 .. n PROVE u[m + i] = t[i]
  <2>1. m + i \in 1 .. m + n /\ ~(m + i <= m) /\ (m + i) - m = i
    BY <1>2
  <2>. QED BY <1>3, <2>1
<1>5. ASSUME NEW i \in 1 .. m PROVE u[i] = s[i]
  <2>1. i \in 1 .. m + n /\ i <= m
    BY <1>2
  <2>. QED BY <1>3, <2>1
<1>6. Joined(u, s, t, S)
  BY <1>3, <1>4, <1>5 DEF Joined, m, n
<1>. QED BY <1>6 DEF u

(* The wait that a blocking panel puts first.                              *)
LEMMA WaitsAre == /\ Waits \in Seq({Do("WAIT")}) /\ Lead \in 0 .. 1
                  /\ \A i \in 1 .. Lead : Waits[i] = Do("WAIT")
                  /\ epaper.blocking <=> Lead = 1
<1>1. CASE epaper.blocking
  BY <1>1 DEF Waits, Lead
<1>2. CASE ~epaper.blocking
  BY <1>2 DEF Waits, Lead
<1>. QED BY <1>1, <1>2

(* The commands that refresh the panel.                                    *)
LEMMA RefreshesAre ==
  /\ Refreshes \in Seq({Do("DSP"), Do("DRF"), Do("WAIT")}) /\ Len(Refreshes) = Lead + 2
  /\ Refreshes[1] = Do("DSP") /\ Refreshes[2] = Do("DRF")
  /\ \A i \in 3 .. Lead + 2 : Refreshes[i] = Do("WAIT")
<1>. DEFINE S == {Do("DSP"), Do("DRF"), Do("WAIT")}
            p == <<Do("DSP"), Do("DRF")>>
<1>1. p \in Seq(S) /\ Len(p) = 2 /\ p[1] = Do("DSP") /\ p[2] = Do("DRF")
  OBVIOUS
<1>2. Waits \in Seq(S) /\ Len(Waits) = Lead /\ Lead \in 0 .. 1
  <2>1. {Do("WAIT")} \subseteq S
    OBVIOUS
  <2>. HIDE DEF S
  <2>. QED BY <2>1, WaitsAre DEF Lead
<1>4. Refreshes = p \o Waits
  BY DEF Refreshes
<1>. HIDE DEF S, p
<1>3. /\ Refreshes \in Seq(S) /\ Len(Refreshes) = 2 + Lead
      /\ \A i \in 1 .. 2 : Refreshes[i] = p[i]
      /\ \A i \in 1 .. Lead : Refreshes[2 + i] = Waits[i]
  <2>1. 2 \in Nat /\ Lead \in Nat
    BY <1>2
  <2>2. /\ p \o Waits \in Seq(S) /\ Len(p \o Waits) = 2 + Lead
        /\ \A i \in 1 .. 2 : (p \o Waits)[i] = p[i]
        /\ \A i \in 1 .. Lead : (p \o Waits)[2 + i] = Waits[i]
    <3>1. Joined(p \o Waits, p, Waits, S)
      BY <1>1, <1>2, <2>1, Concatenation
    <3>. QED BY <1>1, <1>2, <2>1, <3>1 DEF Joined
  <2>. QED BY <1>4, <2>2
<1>5. ASSUME NEW i \in 3 .. Lead + 2 PROVE Refreshes[i] = Do("WAIT")
  <2>1. i - 2 \in 1 .. Lead /\ 2 + (i - 2) = i
    BY <1>2
  <2>. QED BY <1>3, <2>1, WaitsAre
<1>. QED BY <1>1, <1>2, <1>3, <1>5 DEF S

UpdateIs(u, frame) ==
  /\ IsSequence(u) /\ Len(u) = 2 * Lead + 6
  /\ \A i \in 1 .. 2 * Lead + 6 : (i <= Lead \/ i > Lead + 6) => u[i] = Do("WAIT")
  /\ u[Lead + 1] = Do("PON") /\ u[Lead + 2] = Do("PTOU") /\ u[Lead + 3] = Do("DTM2")
  /\ u[Lead + 4] = Data(Bytes(frame, 0, Cols * Rows))
  /\ u[Lead + 5] = Do("DSP") /\ u[Lead + 6] = Do("DRF")

(* The script of a full update, command by command.                        *)
LEMMA UpdateCommands ==
  ASSUME NEW frame
  PROVE  UpdateIs(Update(frame), frame)
<1>. DEFINE d == Data(Bytes(frame, 0, Cols * Rows))
            p == <<Do("PON"), Do("PTOU"), Do("DTM2"), d>>
            S == {Do("PON"), Do("PTOU"), Do("DTM2"), d, Do("DSP"), Do("DRF"), Do("WAIT")}
<1>1. /\ p \in Seq(S) /\ Len(p) = 4
      /\ p[1] = Do("PON") /\ p[2] = Do("PTOU") /\ p[3] = Do("DTM2") /\ p[4] = d
  OBVIOUS
<1>2. Waits \in Seq(S) /\ Refreshes \in Seq(S)
  BY WaitsAre, RefreshesAre
<1>3. Update(frame) = (Waits \o p) \o Refreshes
  BY DEF Update
<1>. HIDE DEF S, p, d
<1>6. Lead \in 0 .. 1 /\ Len(Waits) = Lead /\ Len(Refreshes) = Lead + 2
  BY WaitsAre, RefreshesAre DEF Lead
<1>. DEFINE e == Waits \o p
            u == Update(frame)
<1>4. /\ e \in Seq(S) /\ Len(e) = Lead + 4
      /\ \A i \in 1 .. Lead : e[i] = Waits[i]
      /\ \A i \in 1 .. 4 : e[Lead + i] = p[i]
  <2>1. 4 \in Nat /\ Lead \in Nat
    BY <1>6
  <2>. HIDE DEF e
  <2>2. /\ Waits \o p \in Seq(S) /\ Len(Waits \o p) = Lead + 4
        /\ \A i \in 1 .. Lead : (Waits \o p)[i] = Waits[i]
        /\ \A i \in 1 .. 4 : (Waits \o p)[Lead + i] = p[i]
    <3>1. Joined(Waits \o p, Waits, p, S)
      BY <1>1, <1>2, <1>6, <2>1, Concatenation
    <3>. QED BY <1>1, <1>2, <1>6, <2>1, <3>1 DEF Joined
  <2>. QED BY <2>2 DEF e
<1>. HIDE DEF e, u
<1>5. /\ u \in Seq(S) /\ Len(u) = (Lead + 4) + (Lead + 2)
      /\ \A i \in 1 .. Lead + 4 : u[i] = e[i]
      /\ \A i \in 1 .. Lead + 2 : u[(Lead + 4) + i] = Refreshes[i]
  <2>1. u = e \o Refreshes /\ Lead + 4 \in Nat /\ Lead + 2 \in Nat
    BY <1>3, <1>6 DEF e, u
  <2>2. /\ e \o Refreshes \in Seq(S) /\ Len(e \o Refreshes) = (Lead + 4) + (Lead + 2)
        /\ \A i \in 1 .. Lead + 4 : (e \o Refreshes)[i] = e[i]
        /\ \A i \in 1 .. Lead + 2 : (e \o Refreshes)[(Lead + 4) + i] = Refreshes[i]
    <3>1. Joined(e \o Refreshes, e, Refreshes, S)
      BY <1>2, <1>4, <1>6, <2>1, Concatenation
    <3>. QED BY <1>2, <1>4, <1>6, <2>1, <3>1 DEF Joined
  <2>. QED BY <2>1, <2>2
<1>7. u[Lead + 1] = Do("PON") /\ u[Lead + 2] = Do("PTOU") /\ u[Lead + 3] = Do("DTM2") /\ u[Lead + 4] = d
  BY <1>1, <1>4, <1>5, <1>6
<1>8. u[Lead + 5] = Do("DSP") /\ u[Lead + 6] = Do("DRF")
  <2>1. Lead + 5 = (Lead + 4) + 1 /\ Lead + 6 = (Lead + 4) + 2 /\ 1 \in 1 .. Lead + 2 /\ 2 \in 1 .. Lead + 2
    BY <1>6
  <2>. QED BY <1>5, <2>1, RefreshesAre
<1>9. \A i \in 1 .. Len(u) : i <= Lead \/ i > Lead + 6 => u[i] = Do("WAIT")
  <2>1. ASSUME NEW i \in 1 .. Len(u), i <= Lead PROVE u[i] = Do("WAIT")
    BY <1>4, <1>5, <1>6, <2>1, WaitsAre
  <2>2. ASSUME NEW i \in 1 .. Len(u), i > Lead + 6 PROVE u[i] = Do("WAIT")
    <3>1. i - (Lead + 4) \in 3 .. Lead + 2 /\ (Lead + 4) + (i - (Lead + 4)) = i
      BY <1>5, <1>6, <2>2
    <3>2. i - (Lead + 4) \in 1 .. Lead + 2
      BY <1>6, <3>1
    <3>. QED BY <1>5, <3>1, <3>2, RefreshesAre
  <2>. QED BY <2>1, <2>2
<1>10. IsSequence(u) /\ Len(u) = 2 * Lead + 6
  BY <1>5, <1>6 DEF IsSequence
<1>11. \A i \in 1 .. 2 * Lead + 6 : i <= Lead \/ i > Lead + 6 => u[i] = Do("WAIT")
  BY <1>9, <1>10
<1>12. UpdateIs(u, frame)
  BY <1>7, <1>8, <1>10, <1>11 DEF UpdateIs, d
<1>. QED BY <1>12 DEF u

PartialIs(u, frame, area) ==
  /\ IsSequence(u) /\ Len(u) = 2 * Lead + area.w + 6
  /\ \A i \in 1 .. 2 * Lead + area.w + 6 : (i <= Lead \/ i > Lead + area.w + 6) => u[i] = Do("WAIT")
  /\ u[Lead + 1] = Do("PON") /\ u[Lead + 2] = Do("PTIN")
  /\ u[Lead + 3] = [cmd |-> "PTL", window |-> Window(area)] /\ u[Lead + 4] = Do("DTM2")
  /\ \A k \in 1 .. area.w : u[Lead + 4 + k] = Column(frame, area, k - 1)
  /\ u[Lead + area.w + 5] = Do("DSP") /\ u[Lead + area.w + 6] = Do("DRF")

(* The script of a partial update, command by command.                     *)
LEMMA PartialCommands ==
  ASSUME NEW frame, NEW area, area.w \in Nat
  PROVE  PartialIs(PartialUpdate(frame, area), frame, area)
<1>. DEFINE d == [cmd |-> "PTL", window |-> Window(area)]
            n == area.w
            p == <<Do("PON"), Do("PTIN"), d, Do("DTM2")>>
            c == [k \in 1 .. n |-> Column(frame, area, k - 1)]
            S == {Do("PON"), Do("PTIN"), d, Do("DTM2"), Do("DSP"), Do("DRF"), Do("WAIT")}
                   \cup {Column(frame, area, k - 1) : k \in 1 .. n}
            u == PartialUpdate(frame, area)
<1>1. /\ p \in Seq(S) /\ Len(p) = 4
      /\ p[1] = Do("PON") /\ p[2] = Do("PTIN") /\ p[3] = d /\ p[4] = Do("DTM2")
  OBVIOUS
<1>2. Waits \in Seq(S) /\ Refreshes \in Seq(S)
  BY WaitsAre, RefreshesAre
<1>3. c \in Seq(S) /\ Len(c) = n /\ n \in Nat
  <2>. DEFINE g(k) == Column(frame, area, k - 1)
  <2>1. \A k \in 1 .. n : g(k) \in S
    OBVIOUS
  <2>. HIDE DEF g, S
  <2>2. [k \in 1 .. n |-> g(k)] \in Seq(S) /\ Len([k \in 1 .. n |-> g(k)]) = n
    BY <2>1
  <2>. QED BY <2>2 DEF g
<1>4. u = ((Waits \o p) \o c) \o Refreshes
  BY DEF PartialUpdate
<1>5. \A k \in 1 .. n : c[k] = Column(frame, area, k - 1)
  OBVIOUS
<1>6. Lead \in 0 .. 1 /\ Len(Waits) = Lead /\ Len(Refreshes) = Lead + 2
  BY WaitsAre, RefreshesAre DEF Lead
<1>. HIDE DEF S, p, d, c, n, u
<1>. DEFINE e == Waits \o p
<1>7. /\ e \in Seq(S) /\ Len(e) = Lead + 4
      /\ \A i \in 1 .. Lead : e[i] = Waits[i]
      /\ \A i \in 1 .. 4 : e[Lead + i] = p[i]
  <2>1. 4 \in Nat /\ Lead \in Nat
    BY <1>6
  <2>. HIDE DEF e
  <2>2. /\ Waits \o p \in Seq(S) /\ Len(Waits \o p) = Lead + 4
        /\ \A i \in 1 .. Lead : (Waits \o p)[i] = Waits[i]
        /\ \A i \in 1 .. 4 : (Waits \o p)[Lead + i] = p[i]
    <3>1. Joined(Waits \o p, Waits, p, S)
      BY <1>1, <1>2, <1>6, <2>1, Concatenation
    <3>. QED BY <1>1, <1>2, <1>6, <2>1, <3>1 DEF Joined
  <2>. QED BY <2>2 DEF e
<1>. HIDE DEF e
<1>. DEFINE f == e \o c
<1>8. /\ f \in Seq(S) /\ Len(f) = (Lead + 4) + n
      /\ \A i \in 1 .. Lead + 4 : f[i] = e[i]
      /\ \A i \in 1 .. n : f[(Lead + 4) + i] = c[i]
  <2>1. Lead + 4 \in Nat
    BY <1>6
  <2>2. /\ e \o c \in Seq(S) /\ Len(e \o c) = (Lead + 4) + n
        /\ \A i \in 1 .. Lead + 4 : (e \o c)[i] = e[i]
        /\ \A i \in 1 .. n : (e \o c)[(Lead + 4) + i] = c[i]
    <3>1. Joined(e \o c, e, c, S)
      BY <1>3, <1>7, <2>1, Concatenation
    <3>. QED BY <1>3, <1>7, <2>1, <3>1 DEF Joined
  <2>. QED BY <2>2
<1>. HIDE DEF f
<1>10. /\ u \in Seq(S) /\ Len(u) = ((Lead + 4) + n) + (Lead + 2)
       /\ \A i \in 1 .. (Lead + 4) + n : u[i] = f[i]
       /\ \A i \in 1 .. Lead + 2 : u[((Lead + 4) + n) + i] = Refreshes[i]
  <2>1. u = f \o Refreshes /\ (Lead + 4) + n \in Nat /\ Lead + 2 \in Nat
    BY <1>3, <1>4, <1>6 DEF e, f
  <2>2. /\ f \o Refreshes \in Seq(S) /\ Len(f \o Refreshes) = ((Lead + 4) + n) + (Lead + 2)
        /\ \A i \in 1 .. (Lead + 4) + n : (f \o Refreshes)[i] = f[i]
        /\ \A i \in 1 .. Lead + 2 : (f \o Refreshes)[((Lead + 4) + n) + i] = Refreshes[i]
    <3>1. Joined(f \o Refreshes, f, Refreshes, S)
      BY <1>2, <1>6, <1>8, <2>1, Concatenation
    <3>. QED BY <1>2, <1>6, <1>8, <2>1, <3>1 DEF Joined
  <2>. QED BY <2>1, <2>2
<1>12. /\ \A i \in 1 .. Lead : u[i] = Waits[i]
       /\ \A i \in 1 .. 4 : u[Lead + i] = p[i]
  BY <1>3, <1>6, <1>7, <1>8, <1>10
<1>13. ASSUME NEW k \in 1 .. n PROVE u[Lead + 4 + k] = c[k]
  <2>1. (Lead + 4) + k \in 1 .. (Lead + 4) + n
    BY <1>3, <1>6
  <2>. QED BY <1>8, <1>10, <2>1
<1>15. u[Lead + 1] = Do("PON") /\ u[Lead + 2] = Do("PTIN") /\ u[Lead + 3] = d /\ u[Lead + 4] = Do("DTM2")
  BY <1>1, <1>12
<1>16. u[Lead + n + 5] = Do("DSP") /\ u[Lead + n + 6] = Do("DRF")
  <2>1. /\ Lead + n + 5 = ((Lead + 4) + n) + 1 /\ Lead + n + 6 = ((Lead + 4) + n) + 2
        /\ 1 \in 1 .. Lead + 2 /\ 2 \in 1 .. Lead + 2
    BY <1>3, <1>6
  <2>. QED BY <1>10, <2>1, RefreshesAre
<1>17. \A i \in 1 .. 2 * Lead + n + 6 : i <= Lead \/ i > Lead + n + 6 => u[i] = Do("WAIT")
  <2>1. ASSUME NEW i \in 1 .. 2 * Lead + n + 6, i <= Lead PROVE u[i] = Do("WAIT")
    BY <1>6, <1>12, <2>1, WaitsAre
  <2>2. ASSUME NEW i \in 1 .. 2 * Lead + n + 6, i > Lead + n + 6 PROVE u[i] = Do("WAIT")
    <3>. DEFINE j == i - ((Lead + 4) + n)
    <3>1. j \in 3 .. Lead + 2 /\ j \in 1 .. Lead + 2 /\ ((Lead + 4) + n) + j = i
      BY <1>3, <1>6, <2>2
    <3>. HIDE DEF j
    <3>. QED BY <1>10, <3>1, RefreshesAre
  <2>. QED BY <2>1, <2>2
<1>18. IsSequence(u) /\ Len(u) = 2 * Lead + n + 6
  BY <1>3, <1>6, <1>10 DEF IsSequence
<1>19. \A k \in 1 .. n : u[Lead + 4 + k] = Column(frame, area, k - 1)
  BY <1>5, <1>13
<1>20. PartialIs(u, frame, area)
  BY <1>15, <1>16, <1>17, <1>18, <1>19 DEF d, n, PartialIs
<1>. QED BY <1>20 DEF u

CallTypes ==
  /\ epaper = [valid |-> epaper.valid, speed |-> epaper.speed,
               rotation |-> epaper.rotation, blocking |-> epaper.blocking]
  /\ epaper.speed \in Speeds
  /\ call = [op |-> call.op, area |-> call.area, frame |-> call.frame, ok |-> call.ok]
  /\ call.op \in {"none", "init", "set", "finalize", "update", "partial"}
  /\ call.op = "partial" => call.area \in Areas /\ ~Outside(call.area)

PanelTypes ==
  /\ panel = [sram |-> panel.sram, shown |-> panel.shown, area |-> panel.area, partial |-> panel.partial,
              at |-> panel.at, busy |-> panel.busy, set |-> panel.set, torn |-> panel.torn]
  /\ panel.sram = [c \in Cells |-> panel.sram[c]] /\ panel.shown = [c \in Cells |-> panel.shown[c]]
  /\ panel.set = [speed |-> panel.set.speed, rotation |-> panel.set.rotation]
  /\ panel.at \in 0 .. Cols * Rows

(* What is left of the script is the end of the call's commands.           *)
ScriptInv ==
  /\ IsSequence(script)
  /\ script # <<>> =>
       /\ Len(script) <= Len(Commands) /\ call.ok
       /\ \A i \in 1 .. Len(script) : script[i] = Commands[Len(Commands) - Len(script) + i]

(* How many columns of a partial update have been sent.                    *)
Sent == Turn - (Lead + 5)
Drawn == IF call.op = "update" THEN Lead + 6 ELSE Lead + call.area.w + 6

UpdateAt ==
  /\ Turn > Lead + 2 => ~panel.partial
  /\ Turn = Lead + 4 => panel.at = 0
  /\ Turn > Lead + 4 => \A c \in Cells : panel.sram[c] = Own(call.frame, c)
  /\ ~late /\ Turn > Drawn => panel.busy \/ \A c \in Cells : panel.shown[c] = Own(call.frame, c)

PartialAt ==
  /\ Turn > Lead + 2 => panel.partial
  /\ Turn > Lead + 3 => panel.area = Window(call.area)
  /\ Turn > Lead + 4 /\ Turn <= Lead + call.area.w + 5 =>
       /\ panel.at = Sent * Band(call.area)
       /\ \A c \in Cells : InArea(call.area, c) /\ c[1] < call.area.x + Sent =>
            panel.sram[c] = Own(call.frame, c)
  /\ Turn > Lead + call.area.w + 5 =>
       \A c \in Cells : InArea(call.area, c) => panel.sram[c] = Own(call.frame, c)
  /\ ~late /\ Turn > Drawn =>
       panel.busy \/ \A c \in Cells : InArea(call.area, c) => panel.shown[c] = Own(call.frame, c)

(* The panel rests during the calls that set it up and between the wait    *)
(* an update begins with and its last command.                             *)
Rests ==
  /\ call.op \in {"init", "set", "finalize"} => ~panel.busy
  /\ call.op \in {"update", "partial"} /\ call.ok /\ ~late /\ Turn > Lead /\ Turn <= Drawn => ~panel.busy

SetAt ==
  /\ Turn > 2 => panel.set.rotation = epaper.rotation
  /\ Turn > 1 => panel.set.speed \in {"none", epaper.speed}

Progress ==
  /\ call.op = "set" /\ call.ok => SetAt
  /\ call.op = "update" /\ call.ok => UpdateAt
  /\ call.op = "partial" /\ call.ok => PartialAt

PaperInv == CallTypes /\ PanelTypes /\ ScriptInv /\ NeverTorn /\ Rests /\ Progress

(* A multiple of the pixels of a byte is so many bytes.                    *)
LEMMA WholeBytes ==
  ASSUME NEW n \in Nat, n % PixelsPerByte = 0
  PROVE  /\ n \div PixelsPerByte \in Nat /\ (n \div PixelsPerByte) * PixelsPerByte = n
         /\ n > 0 => n \div PixelsPerByte > 0
<1>. DEFINE s == PixelsPerByte
            q == n \div s
<1>1. s \in Nat \ {0}
  BY EpaperAssumption
<1>2. n < (n + 1) * s
  BY <1>1
<1>3. q \in Nat /\ q * s + (n % s) = n
  BY <1>1, <1>2, PartsBelow
<1>. HIDE DEF s, q
<1>4. q * s = n
  BY <1>1, <1>3 DEF s
<1>5. n > 0 => q # 0
  BY <1>1, <1>4
<1>. QED BY <1>3, <1>4, <1>5 DEF s, q

(* The area of a partial update lies on the panel, and its bytes do; the   *)
(* window of one that starts with a byte is made of those bytes.           *)
LEMMA AreasFit ==
  ASSUME CallTypes, call.op = "partial"
  PROVE  /\ call.area.x \in Nat /\ call.area.w \in Nat /\ call.area.x + call.area.w <= Cols
         /\ First(call.area) \in Nat /\ Band(call.area) \in Nat
         /\ First(call.area) + Band(call.area) <= Rows
         /\ Cols \in Nat \ {0} /\ Rows \in Nat \ {0}
         /\ Aligned(call.area) =>
              /\ Window(call.area) = [x |-> call.area.x, w |-> call.area.w, y |-> First(call.area),
                                     h |-> Band(call.area)]
              /\ call.area.w > 0 /\ Band(call.area) > 0
<1>. DEFINE a == call.area
            s == PixelsPerByte
            q == First(a)
            m == Band(a)
            y == a.y
            h == a.h
<1>1. /\ a.x \in Nat /\ a.w \in Nat /\ y \in Nat /\ h \in Nat
      /\ a.x + a.w <= Cols /\ y + h <= Rows * s /\ h % s = 0 /\ y < Rows * s
      /\ s \in Nat \ {0} /\ Cols \in Nat \ {0} /\ Rows \in Nat \ {0}
  <2>1. a \in [x : Nat, y : Nat, w : Nat, h : Nat] /\ ~Outside(a)
    BY EpaperAssumption DEF CallTypes
  <2>2. Rows * s \in Nat /\ s \in Nat \ {0} /\ Cols \in Nat \ {0} /\ Rows \in Nat \ {0}
    BY EpaperAssumption
  <2>3. ~(a.x + a.w > Cols) /\ ~(y + h > Rows * s) /\ h % s = 0 /\ ~(y >= Rows * s)
    BY <2>1 DEF Outside
  <2>. QED BY <2>1, <2>2, <2>3
<1>2. m \in Nat /\ m * s = h /\ (h > 0 => m > 0)
  BY <1>1, WholeBytes DEF Band
<1>3. q \in Nat /\ q * s + (y % s) = y /\ y % s \in Nat
  <2>1. q = y \div s
    BY DEF First
  <2>. HIDE DEF q, y, s
  <2>. QED BY <1>1, <2>1, PartsBelow
<1>4. q = y \div s /\ m = h \div s
  BY DEF First, Band
<1>. HIDE DEF s, q, m, y, h
<1>5. q + m <= Rows
  <2>1. SUFFICES ASSUME ~(q + m <= Rows) PROVE FALSE
    OBVIOUS
  <2>2. Rows + 1 <= q + m
    BY <1>1, <1>2, <1>3, <2>1
  <2>3. (Rows + 1) * s <= (q + m) * s
    BY <1>1, <1>2, <1>3, <2>2
  <2>4. (Rows + 1) * s = Rows * s + s /\ (q + m) * s = q * s + m * s /\ Rows * s \in Nat
        /\ q * s \in Nat /\ m * s \in Nat
    BY <1>1, <1>2, <1>3
  <2>. QED BY <1>1, <1>2, <1>3, <2>3, <2>4
<1>6. ASSUME Aligned(a)
      PROVE  Window(a) = [x |-> a.x, w |-> a.w, y |-> q, h |-> m] /\ a.w > 0 /\ m > 0
  <2>1. y % s = 0 /\ a.w > 0 /\ h > 0
    BY <1>6 DEF Aligned, y, h, s
  <2>2. (y + h - 1) \div s + 1 - q = m
    <3>. DEFINE i == (q + (m - 1)) * s + (s - 1)
                k == q + (m - 1)
    <3>1. k \in Nat /\ s - 1 \in Nat /\ s - 1 < s /\ k < k + 1
      BY <1>1, <1>2, <1>3, <2>1
    <3>2. i \in Nat /\ i < (k + 1) * s
      BY <1>1, <3>1, PartsFit
    <3>3. k * s = q * s + m * s - s /\ q * s \in Nat /\ m * s \in Nat
      BY <1>1, <1>2, <1>3, <2>1
    <3>4. i = y + h - 1
      BY <1>1, <1>2, <1>3, <2>1, <3>3
    <3>. HIDE DEF i, k
    <3>5. i \div s \in Nat /\ i % s \in Nat /\ i % s < s /\ (i \div s) * s + (i % s) = i
      BY <1>1, <3>1, <3>2, PartsBelow
    <3>6. i = k * s + (s - 1)
      BY DEF i, k
    <3>7. i \div s = k
      BY <1>1, <3>1, <3>5, <3>6, PartsUnique
    <3>. QED BY <1>2, <1>3, <3>4, <3>7 DEF k
  <2>3. Window(a) = [x |-> a.x, w |-> a.w, y |-> q,
                     h |-> IF h = 0 THEN 0 ELSE (y + h - 1) \div s + 1 - q]
    BY DEF Window, q, y, h, s
  <2>. QED BY <1>1, <1>2, <2>1, <2>2, <2>3
<1>. QED BY <1>1, <1>2, <1>3, <1>5, <1>6 DEF q, m

(* The script of the call in progress, by its operation.                   *)
LEMMA CommandsAre ==
  ASSUME CallTypes
  PROVE  /\ IsSequence(Commands) /\ Len(Commands) \in Nat /\ Lead \in 0 .. 1
         /\ call.op = "none" => Len(Commands) = 0
         /\ call.op \in {"init", "set"} => Len(Commands) = 9 /\ Commands = Setup(epaper)
         /\ call.op = "finalize" => Len(Commands) = 2 /\ Commands = <<Do("POF"), Do("WAIT")>>
         /\ call.op = "update" => Len(Commands) = 2 * Lead + 6 /\ Commands = Update(call.frame)
         /\ call.op = "partial" => /\ Len(Commands) = 2 * Lead + call.area.w + 6
                                   /\ Commands = PartialUpdate(call.frame, call.area)
<1>1. Lead \in 0 .. 1
  BY WaitsAre
<1>2. CASE call.op = "none"
  <2>1. Commands = <<>>
    BY <1>2 DEF Commands
  <2>. QED BY <1>1, <1>2, <2>1 DEF IsSequence
<1>3. CASE call.op \in {"init", "set"}
  <2>1. Commands = Setup(epaper)
    BY <1>3 DEF Commands
  <2>. DEFINE a == Do("RESET")
              b == [cmd |-> "PSR", rotation |-> epaper.rotation]
              c == [cmd |-> "LUT", speed |-> epaper.speed]
              d == Do("PWR")
              e == Do("PON")
              f == Do("WAIT")
              g == Do("CONFIGURE")
              h == Do("POF")
  <2>2. Setup(epaper) = <<a, b, c, d, e, f, g, h, f>>
    BY DEF Setup
  <2>. HIDE DEF a, b, c, d, e, f, g, h
  <2>3. <<a, b, c, d, e, f, g, h, f>> \in Seq({a, b, c, d, e, f, g, h}) /\ Len(<<a, b, c, d, e, f, g, h, f>>) = 9
    OBVIOUS
  <2>. QED BY <1>1, <1>3, <2>1, <2>2, <2>3 DEF IsSequence
<1>4. CASE call.op = "finalize"
  <2>1. Commands = <<Do("POF"), Do("WAIT")>>
    BY <1>4 DEF Commands
  <2>2. <<Do("POF"), Do("WAIT")>> \in Seq({Do("POF"), Do("WAIT")}) /\ Len(<<Do("POF"), Do("WAIT")>>) = 2
    OBVIOUS
  <2>. QED BY <1>1, <1>4, <2>1, <2>2 DEF IsSequence
<1>5. CASE call.op = "update"
  <2>1. Commands = Update(call.frame)
    BY <1>5 DEF Commands
  <2>. QED BY <1>1, <1>5, <2>1, UpdateCommands DEF UpdateIs
<1>6. CASE call.op = "partial"
  <2>1. Commands = PartialUpdate(call.frame, call.area) /\ call.area.w \in Nat
    BY <1>6, AreasFit DEF Commands
  <2>. DEFINE u == PartialUpdate(call.frame, call.area)
              n == call.area.w
  <2>5. n \in Nat
    BY <2>1
  <2>6. PartialIs(u, call.frame, call.area)
    BY <2>5, PartialCommands DEF n, u
  <2>3. Commands = u /\ n \in Nat
    BY <2>1
  <2>. HIDE DEF u
  <2>2. IsSequence(u) /\ Len(u) = 2 * Lead + n + 6
    BY <2>6 DEF PartialIs
  <2>. HIDE DEF n
  <2>4. Len(u) \in Nat
    BY <1>1, <2>2, <2>3
  <2>. QED BY <1>1, <1>6, <2>2, <2>3, <2>4 DEF u, n
<1>. QED BY <1>2, <1>3, <1>4, <1>5, <1>6 DEF CallTypes

(* The next command of a script, and what is left of it.                   *)
LEMMA ScriptGoesOn ==
  ASSUME PaperInv, script # <<>>
  PROVE  /\ Head(script) = Commands[Turn] /\ Turn \in 1 .. Len(Commands) /\ call.ok
         /\ script' = Tail(script) /\ UNCHANGED <<epaper, call>> =>
              ScriptInv' /\ Turn' = Turn + 1 /\ Lead' = Lead /\ Commands' = Commands /\ Drawn' = Drawn
<1>1. PICK S : script \in Seq(S)
  BY DEF PaperInv, ScriptInv, IsSequence
<1>2. Len(Commands) \in Nat
  BY CommandsAre DEF PaperInv
<1>. DEFINE n == Len(script)
            l == Len(Commands)
<1>3. n \in Nat /\ n # 0 /\ n <= l /\ l \in Nat
  BY <1>1, <1>2 DEF PaperInv, ScriptInv
<1>4. Head(script) = script[1]
  BY <1>1
<1>5. \A i \in 1 .. n : script[i] = Commands[l - n + i]
  BY DEF PaperInv, ScriptInv
<1>. HIDE DEF n, l
<1>6. Turn = l - n + 1
  BY DEF Turn, n, l
<1>7. script[1] = Commands[l - n + 1]
  BY <1>3, <1>5
<1>8. ASSUME script' = Tail(script), UNCHANGED <<epaper, call>>
      PROVE  ScriptInv' /\ Turn' = Turn + 1 /\ Lead' = Lead /\ Commands' = Commands /\ Drawn' = Drawn
  <2>1. Lead' = Lead /\ Commands' = Commands
    BY <1>8 DEF Lead, Waits, Commands, Update, PartialUpdate, Refreshes, Setup, Column
  <2>2. /\ Tail(script) \in Seq(S) /\ Len(Tail(script)) = Len(script) - 1
        /\ \A i \in 1 .. Len(Tail(script)) : Tail(script)[i] = script[i + 1]
    BY <1>1, <1>3, HeadTailProperties
  <2>3. /\ script' \in Seq(S) /\ Len(script') = n - 1
        /\ \A i \in 1 .. n - 1 : script'[i] = script[i + 1]
    BY <1>8, <2>2 DEF n
  <2>4. Turn' = l - (n - 1) + 1
    BY <2>1, <2>3 DEF Turn, l
  <2>5. ASSUME NEW i \in 1 .. n - 1 PROVE script'[i] = Commands[l - (n - 1) + i]
    <3>1. i + 1 \in 1 .. n /\ l - (n - 1) + i = l - n + (i + 1)
      BY <1>3
    <3>. QED BY <1>5, <2>3, <3>1
  <2>6. IsSequence(script)' /\ Len(script') <= Len(Commands')
    <3>1. IsSequence(script)'
      BY <2>3 DEF IsSequence
    <3>2. n - 1 <= l
      BY <1>3
    <3>. QED BY <2>1, <2>3, <3>1, <3>2 DEF l
  <2>7. ScriptInv'
    BY <1>8, <2>1, <2>3, <2>5, <2>6 DEF ScriptInv, PaperInv, l
  <2>8. Drawn' = Drawn
    BY <1>8, <2>1 DEF Drawn
  <2>. QED BY <1>3, <1>6, <2>1, <2>4, <2>7, <2>8
<1>9. call.ok
  BY DEF PaperInv, ScriptInv
<1>. QED BY <1>3, <1>4, <1>6, <1>7, <1>8, <1>9 DEF l

(* What the panel does with a command.                                     *)
LEMMA PanelTakes ==
  ASSUME PanelTypes
  PROVE  /\ \A x \in {"PWR", "PON", "CONFIGURE", "POF"} : Takes(Do(x)) = panel
         /\ Takes(Do("PTIN")) = [panel EXCEPT !.partial = TRUE]
         /\ Takes(Do("PTOU")) = [panel EXCEPT !.partial = FALSE, !.area = Whole]
         /\ \A x \in {"DTM2", "DSP"} : Takes(Do(x)) = [panel EXCEPT !.at = 0]
         /\ Takes(Do("DRF")) = [panel EXCEPT !.busy = TRUE]
         /\ \A a : Takes([cmd |-> "PTL", window |-> a]) = [panel EXCEPT !.area = a]
         /\ \A r : Takes([cmd |-> "PSR", rotation |-> r]) = [panel EXCEPT !.set.rotation = r]
         /\ \A s : Takes([cmd |-> "LUT", speed |-> s]) = [panel EXCEPT !.set.speed = s]
         /\ \A b : Takes(Data(b)) = Written(b)
         /\ Takes(Do("RESET")) = [panel EXCEPT !.partial = FALSE, !.area = Whole, !.busy = FALSE,
                                               !.set = NoSettings, !.torn = @ \/ panel.busy]
BY DEF Takes, Do, Data

(* The memory of the panel after a run of bytes.                           *)
Ran(p, frame, off, n) ==
  /\ p = [panel EXCEPT !.sram = p.sram, !.at = panel.at + n, !.torn = panel.torn \/ panel.busy]
  /\ p.sram = [c \in Cells |-> p.sram[c]]
  /\ \A c \in Cells :
       (\A i \in 1 .. n : CellAt(panel.at + i - 1) # c) => p.sram[c] = panel.sram[c]
  /\ \A c \in Cells :
       ( /\ \E i \in 1 .. n : CellAt(panel.at + i - 1) = c
         /\ \A i \in 1 .. n : CellAt(panel.at + i - 1) = c => off + i - 1 = c[1] * Rows + c[2] )
       => p.sram[c] = Own(frame, c)

(* Writing a run of bytes moves the panel's cursor and fills what it passes. *)
LEMMA WrittenRun ==
  ASSUME PanelTypes, NEW frame, NEW off \in Nat, NEW n \in Nat
  PROVE  Ran(Written(Bytes(frame, off, n)), frame, off, n)
<1>. DEFINE b == Bytes(frame, off, n)
            K(c) == {i \in 1 .. Len(b) : CellAt(panel.at + i - 1) = c}
            sram == [c \in Cells |-> IF K(c) = {} THEN panel.sram[c] ELSE b[CHOOSE i \in K(c) : TRUE]]
            p == Written(b)
<1>1. Len(b) = n /\ \A i \in 1 .. n : b[i] = <<frame, off + i - 1>>
  BY DEF Bytes
<1>2. p = [panel EXCEPT !.sram = sram, !.at = panel.at + n, !.torn = panel.torn \/ panel.busy]
  <2>1. p = [panel EXCEPT !.sram = [c \in Cells |->
                  LET k == {i \in 1 .. Len(b) : CellAt(panel.at + i - 1) = c}
                  IN  IF k = {} THEN @[c] ELSE b[CHOOSE i \in k : TRUE]],
               !.at = @ + Len(b), !.torn = @ \/ panel.busy]
    BY DEF Written
  <2>. QED BY <1>1, <2>1 DEF PanelTypes
<1>3. p.sram = sram
  BY <1>2 DEF PanelTypes
<1>4. ASSUME NEW c \in Cells, \A i \in 1 .. n : CellAt(panel.at + i - 1) # c
      PROVE  p.sram[c] = panel.sram[c]
  <2>1. K(c) = {}
    BY <1>1, <1>4
  <2>. HIDE DEF K, b, p
  <2>. QED BY <1>3, <2>1
<1>5. ASSUME NEW c \in Cells, NEW j \in 1 .. n, CellAt(panel.at + j - 1) = c,
             \A i \in 1 .. n : CellAt(panel.at + i - 1) = c => off + i - 1 = c[1] * Rows + c[2]
      PROVE  p.sram[c] = Own(frame, c)
  <2>. DEFINE i == CHOOSE i \in K(c) : TRUE
  <2>1. j \in K(c)
    BY <1>1, <1>5
  <2>2. i \in K(c)
    BY <2>1
  <2>3. i \in 1 .. n /\ CellAt(panel.at + i - 1) = c
    BY <1>1, <2>2
  <2>4. p.sram[c] = b[i]
    <3>1. K(c) # {}
      BY <2>1
    <3>. HIDE DEF K, b, p
    <3>. QED BY <1>3, <3>1
  <2>. HIDE DEF i, b, p, K
  <2>5. b[i] = <<frame, off + i - 1>>
    BY <1>1, <2>3
  <2>6. off + i - 1 = c[1] * Rows + c[2]
    BY <1>5, <2>3
  <2>. QED BY <2>4, <2>5, <2>6 DEF Own
<1>6. p.sram = [c \in Cells |-> p.sram[c]]
  BY <1>3
<1>7. p = [panel EXCEPT !.sram = p.sram, !.at = panel.at + n, !.torn = panel.torn \/ panel.busy]
  BY <1>2, <1>3
<1>. HIDE DEF sram, b, K, p
<1>8. Ran(p, frame, off, n)
  BY <1>4, <1>5, <1>6, <1>7 DEF Ran
<1>. QED BY <1>8 DEF p, b

(* The bytes of a framebuffer fill the whole panel, each in its place.     *)
LEMMA WholeSent ==
  ASSUME PanelTypes, ~panel.partial, panel.at = 0, NEW frame
  PROVE  LET p == Written(Data(Bytes(frame, 0, Cols * Rows)).bytes) IN
         /\ Ran(p, frame, 0, Cols * Rows) /\ Cols * Rows \in Nat
         /\ \A c \in Cells : p.sram[c] = Own(frame, c)
<1>. DEFINE n == Cols * Rows
            p == Written(Bytes(frame, 0, n))
<1>1. Cols \in Nat /\ Rows \in Nat \ {0}
  BY EpaperAssumption
<1>2. n \in Nat
  BY <1>1
<1>3. Ran(p, frame, 0, n)
  BY <1>2, WrittenRun
<1>4. \A k \in Nat : CellAt(k) = <<k \div Rows, k % Rows>>
  BY <1>1 DEF CellAt, Area, Whole
<1>. HIDE DEF p
<1>5. ASSUME NEW c \in Cells PROVE p.sram[c] = Own(frame, c)
  <2>. DEFINE a == c[1]
              b == c[2]
              i == a * Rows + b
  <2>1. a \in 0 .. Cols - 1 /\ b \in 0 .. Rows - 1 /\ c = <<a, b>>
    BY DEF Cells
  <2>. HIDE DEF a, b
  <2>2. a \in Nat /\ a < Cols /\ b \in Nat /\ b < Rows
    BY <1>1, <2>1
  <2>3. i \in Nat /\ i < n
    BY <1>1, <2>2, PartsFit
  <2>4. /\ i \div Rows \in Nat /\ i % Rows \in Nat /\ i % Rows < Rows
        /\ (i \div Rows) * Rows + (i % Rows) = i
    BY <1>1, <2>3, PartsBelow
  <2>5. i \div Rows = a /\ i % Rows = b
    BY <1>1, <2>2, <2>4, PartsUnique
  <2>6. CellAt(i) = c
    BY <1>4, <2>1, <2>3, <2>5
  <2>7. i + 1 \in 1 .. n /\ panel.at + (i + 1) - 1 = i
    BY <1>2, <2>3
  <2>8. \E k \in 1 .. n : CellAt(panel.at + k - 1) = c
    BY <2>6, <2>7
  <2>9. ASSUME NEW k \in 1 .. n, CellAt(panel.at + k - 1) = c PROVE 0 + k - 1 = i
    <3>. DEFINE m == k - 1
    <3>1. m \in Nat /\ m < n /\ panel.at + k - 1 = m /\ 0 + k - 1 = m
      BY <1>2
    <3>. HIDE DEF m
    <3>2. CellAt(m) = <<m \div Rows, m % Rows>>
      BY <1>4, <3>1
    <3>3. m \div Rows = a /\ m % Rows = b
      BY <2>1, <2>9, <3>1, <3>2
    <3>4. (m \div Rows) * Rows + (m % Rows) = m
      BY <1>1, <3>1, PartsBelow
    <3>. QED BY <3>1, <3>3, <3>4
  <2>10. \A k \in 1 .. n : CellAt(panel.at + k - 1) = c => 0 + k - 1 = c[1] * Rows + c[2]
    BY <2>9 DEF a, b
  <2>. QED BY <1>3, <2>8, <2>10 DEF Ran
<1>6. Data(Bytes(frame, 0, n)).bytes = Bytes(frame, 0, n)
  BY DEF Data
<1>. QED BY <1>2, <1>3, <1>5, <1>6 DEF p

(* The bytes of a column of an area are a run of the framebuffer, and the  *)
(* columns of an area are no more than the panel has.                      *)
LEMMA ColumnRuns ==
  ASSUME PanelTypes, NEW area, NEW j \in Nat, NEW frame,
         area.x \in Nat, area.w \in Nat, area.x + area.w <= Cols, j < area.w,
         First(area) \in Nat, Band(area) \in Nat, First(area) + Band(area) <= Rows,
         panel.at = j * Band(area)
  PROVE  LET off == (area.x + j) * Rows + First(area) IN
         /\ Column(frame, area, j).bytes = Bytes(frame, off, Band(area))
         /\ Ran(Written(Bytes(frame, off, Band(area))), frame, off, Band(area))
         /\ panel.at + Band(area) = (j + 1) * Band(area)
         /\ (j + 1) * Band(area) \in 0 .. Cols * Rows
<1>. DEFINE x == area.x
            y == First(area)
            w == area.w
            h == Band(area)
            off == (x + j) * Rows + y
<1>1. Cols \in Nat /\ Rows \in Nat \ {0}
  BY EpaperAssumption
<1>2. /\ x \in Nat /\ y \in Nat /\ w \in Nat /\ h \in Nat
      /\ x + w <= Cols /\ y + h <= Rows /\ j < w /\ panel.at = j * h
  OBVIOUS
<1>4. Column(frame, area, j).bytes = Bytes(frame, off, h)
  BY DEF Column, Data
<1>. HIDE DEF x, y, w, h
<1>6. off \in Nat
  BY <1>1, <1>2
<1>7. Ran(Written(Bytes(frame, off, h)), frame, off, h)
  BY <1>2, <1>6, WrittenRun
<1>8. j * h + h = (j + 1) * h
  BY <1>2
<1>9. (j + 1) * h \in 0 .. Cols * Rows
  <2>1. j + 1 <= Cols /\ h <= Rows /\ j + 1 \in Nat /\ h \in Nat
    BY <1>1, <1>2
  <2>. DEFINE a == j + 1
  <2>. HIDE DEF a
  <2>2. a <= Cols /\ h <= Rows /\ a \in Nat /\ h \in Nat
    BY <2>1 DEF a
  <2>3. a * h <= a * Rows
    BY <1>1, <2>2
  <2>4. a * Rows <= Cols * Rows
    BY <1>1, <2>2
  <2>5. a * h \in Nat /\ a * Rows \in Nat /\ Cols * Rows \in Nat
    BY <1>1, <2>2
  <2>. QED BY <2>3, <2>4, <2>5 DEF a
<1>. QED BY <1>2, <1>4, <1>7, <1>8, <1>9 DEF x, y, w, h, off

(* The bytes of a column of a window fill that column and no other cell.   *)
LEMMA ColumnSent ==
  ASSUME PanelTypes, panel.partial, NEW window,
         window.x \in Nat, window.y \in Nat, window.w \in Nat \ {0}, window.h \in Nat \ {0},
         window.x + window.w <= Cols, window.y + window.h <= Rows,
         panel.area = window, NEW j \in Nat, j < window.w, panel.at = j * window.h, NEW frame
  PROVE  LET p == Written(Bytes(frame, (window.x + j) * Rows + window.y, window.h)) IN
         /\ \A c \in Cells : c[1] # window.x + j => p.sram[c] = panel.sram[c]
         /\ \A c \in Cells : Covers(window, c) /\ c[1] = window.x + j => p.sram[c] = Own(frame, c)
<1>. DEFINE x == window.x
            y == window.y
            w == window.w
            h == window.h
            off == (x + j) * Rows + y
            p == Written(Bytes(frame, off, h))
<1>1. Cols \in Nat /\ Rows \in Nat \ {0}
  BY EpaperAssumption
<1>2. /\ x \in Nat /\ y \in Nat /\ w \in Nat \ {0} /\ h \in Nat \ {0}
      /\ x + w <= Cols /\ y + h <= Rows /\ j < w /\ panel.at = j * h
  OBVIOUS
<1>3. \A k \in Nat : CellAt(k) = <<x + k \div h, y + (k % h)>>
  BY DEF CellAt, Area
<1>5. \A c \in Cells : Covers(window, c) => y <= c[2] /\ c[2] < y + h
  BY DEF Covers
<1>. HIDE DEF x, y, w, h
<1>6. off \in Nat
  BY <1>1, <1>2
<1>7. Ran(p, frame, off, h)
  BY <1>2, <1>6, WrittenRun
<1>10. ASSUME NEW i \in 1 .. h PROVE CellAt(panel.at + i - 1) = <<x + j, y + i - 1>>
  <2>. DEFINE k == j * h + (i - 1)
  <2>1. i - 1 \in Nat /\ i - 1 < h
    BY <1>2
  <2>2. k \in Nat /\ k < w * h
    BY <1>2, <2>1, PartsFit
  <2>3. /\ k \div h \in Nat /\ k % h \in Nat /\ k % h < h
        /\ (k \div h) * h + (k % h) = k
    BY <1>2, <2>2, PartsBelow
  <2>4. k \div h = j /\ k % h = i - 1
    BY <1>2, <2>1, <2>3, PartsUnique
  <2>5. panel.at + i - 1 = k
    <3>1. j * h \in Int
      BY <1>2
    <3>. QED BY <1>2, <3>1
  <2>. HIDE DEF k
  <2>6. CellAt(k) = <<x + j, y + (i - 1)>>
    BY <1>3, <2>2, <2>4
  <2>7. y + (i - 1) = y + i - 1
    BY <1>2
  <2>. QED BY <2>5, <2>6, <2>7
<1>. HIDE DEF off, p
<1>11. ASSUME NEW c \in Cells, c[1] # x + j PROVE p.sram[c] = panel.sram[c]
  <2>1. \A i \in 1 .. h : CellAt(panel.at + i - 1) # c
    BY <1>10, <1>11
  <2>. QED BY <1>7, <2>1 DEF Ran
<1>12. ASSUME NEW c \in Cells, Covers(window, c), c[1] = x + j PROVE p.sram[c] = Own(frame, c)
  <2>. DEFINE b == c[2]
  <2>1. c = <<x + j, b>> /\ b \in Int /\ y <= b /\ b < y + h
    BY <1>1, <1>5, <1>12 DEF Cells
  <2>. HIDE DEF b
  <2>2. b - y + 1 \in 1 .. h /\ y + (b - y + 1) - 1 = b
    BY <1>2, <2>1
  <2>3. \E i \in 1 .. h : CellAt(panel.at + i - 1) = c
    BY <1>10, <2>1, <2>2
  <2>4. ASSUME NEW i \in 1 .. h, CellAt(panel.at + i - 1) = c
        PROVE  off + i - 1 = c[1] * Rows + c[2]
    <3>1. y + i - 1 = b
      BY <1>10, <2>1, <2>4
    <3>2. (x + j) * Rows \in Int
      BY <1>1, <1>2
    <3>3. off + i - 1 = (x + j) * Rows + b
      BY <1>2, <3>1, <3>2 DEF off
    <3>. QED BY <1>12, <3>3 DEF b
  <2>. QED BY <1>7, <2>3, <2>4 DEF Ran
<1>. QED BY <1>2, <1>7, <1>11, <1>12 DEF x, y, w, h, off, p

(* What every command of a script keeps.                                   *)
LEMMA SentOn ==
  ASSUME PaperInv, Send
  PROVE  /\ Head(script) = Commands[Turn] /\ Turn \in 1 .. Len(Commands) /\ call.ok
         /\ panel' = Takes(Commands[Turn]) /\ Commands[Turn].cmd # "WAIT"
         /\ CallTypes' /\ ScriptInv' /\ UNCHANGED <<epaper, call, late>>
         /\ Turn' = Turn + 1 /\ Lead' = Lead /\ Drawn' = Drawn
<1>1. script # <<>> /\ Head(script).cmd # "WAIT" /\ panel' = Takes(Head(script)) /\ script' = Tail(script)
      /\ UNCHANGED <<epaper, call, late>>
  BY DEF Send
<1>2. Head(script) = Commands[Turn] /\ Turn \in 1 .. Len(Commands) /\ call.ok
      /\ ScriptInv' /\ Turn' = Turn + 1 /\ Lead' = Lead /\ Drawn' = Drawn
  BY <1>1, ScriptGoesOn
<1>3. CallTypes'
  BY <1>1 DEF PaperInv, CallTypes
<1>. QED BY <1>1, <1>2, <1>3

(* A command of the setup keeps the strengthening.                         *)
LEMMA SetupSent ==
  ASSUME PaperInv, Send, call.op \in {"init", "set"}
  PROVE  PaperInv'
<1>1. /\ Turn \in 1 .. Len(Commands) /\ call.ok
      /\ panel' = Takes(Commands[Turn]) /\ Commands[Turn].cmd # "WAIT"
      /\ CallTypes' /\ ScriptInv' /\ UNCHANGED <<epaper, call, late>>
      /\ Turn' = Turn + 1 /\ Lead' = Lead
  BY SentOn
<1>2. Len(Commands) = 9 /\ Commands = Setup(epaper)
  BY CommandsAre DEF PaperInv
<1>3. ~panel.busy /\ PanelTypes /\ NeverTorn
  BY DEF PaperInv, Rests
<1>4. SUFFICES PanelTypes' /\ ~panel'.busy /\ (panel'.torn => panel.torn)
               /\ (call.op = "set" /\ Turn' > 2 => panel'.set.rotation = epaper.rotation)
               /\ (call.op = "set" /\ Turn' > 1 => panel'.set.speed \in {"none", epaper.speed})
  BY <1>1, <1>3 DEF PaperInv, NeverTorn, Rests, Progress, SetAt
<1>5. call.op = "set" => /\ Turn > 2 => panel.set.rotation = epaper.rotation
                         /\ Turn > 1 => panel.set.speed \in {"none", epaper.speed}
  BY <1>1 DEF PaperInv, Progress, SetAt
<1>6. CASE Turn = 1
  <2>1. Commands[1] = Do("RESET")
    BY <1>2 DEF Setup
  <2>2. panel' = [panel EXCEPT !.partial = FALSE, !.area = Whole, !.busy = FALSE,
                               !.set = NoSettings, !.torn = @ \/ panel.busy]
    BY <1>1, <1>3, <1>6, <2>1, PanelTakes
  <2>3. PanelTypes'
    BY <1>3, <2>2 DEF PanelTypes, NoSettings
  <2>4. panel'.busy = FALSE /\ panel'.torn = (panel.torn \/ panel.busy) /\ panel'.set.speed = "none"
    BY <1>3, <2>2 DEF PanelTypes, NoSettings
  <2>5. ~(Turn' > 2)
    BY <1>1, <1>6
  <2>. QED BY <1>3, <2>3, <2>4, <2>5
<1>7. CASE Turn = 2
  <2>1. Commands[2] = [cmd |-> "PSR", rotation |-> epaper.rotation]
    BY <1>2 DEF Setup
  <2>2. panel' = [panel EXCEPT !.set.rotation = epaper.rotation]
    BY <1>1, <1>3, <1>7, <2>1, PanelTakes
  <2>3. PanelTypes'
    BY <1>3, <2>2 DEF PanelTypes
  <2>. QED BY <1>3, <1>5, <1>7, <2>2, <2>3 DEF PanelTypes
<1>8. CASE Turn = 3
  <2>1. Commands[3] = [cmd |-> "LUT", speed |-> epaper.speed]
    BY <1>2 DEF Setup
  <2>2. panel' = [panel EXCEPT !.set.speed = epaper.speed]
    BY <1>1, <1>3, <1>8, <2>1, PanelTakes
  <2>3. PanelTypes'
    BY <1>3, <2>2 DEF PanelTypes
  <2>. QED BY <1>3, <1>5, <1>8, <2>2, <2>3 DEF PanelTypes
<1>9. CASE Turn \in {4, 5, 7, 8}
  <2>1. \E x \in {"PWR", "PON", "CONFIGURE", "POF"} : Commands[Turn] = Do(x)
    BY <1>2, <1>9 DEF Setup
  <2>2. panel' = panel
    BY <1>1, <1>3, <2>1, PanelTakes
  <2>3. PanelTypes'
    BY <1>3, <2>2 DEF PanelTypes
  <2>. QED BY <1>3, <1>5, <1>9, <2>2, <2>3
<1>10. CASE Turn \in {6, 9}
  <2>1. Commands[Turn] = Do("WAIT")
    BY <1>2, <1>10 DEF Setup
  <2>. QED BY <1>1, <2>1 DEF Do
<1>. QED BY <1>1, <1>2, <1>6, <1>7, <1>8, <1>9, <1>10

(* A command of finalize keeps the strengthening.                          *)
LEMMA CloseSent ==
  ASSUME PaperInv, Send, call.op = "finalize"
  PROVE  PaperInv'
<1>1. /\ Turn \in 1 .. Len(Commands)
      /\ panel' = Takes(Commands[Turn]) /\ Commands[Turn].cmd # "WAIT"
      /\ CallTypes' /\ ScriptInv' /\ UNCHANGED <<epaper, call, late>>
  BY SentOn
<1>2. Len(Commands) = 2 /\ Commands = <<Do("POF"), Do("WAIT")>>
  BY CommandsAre DEF PaperInv
<1>3. Commands[1] = Do("POF") /\ Commands[2].cmd = "WAIT"
  BY <1>2 DEF Do
<1>4. Turn = 1
  BY <1>1, <1>2, <1>3
<1>5. panel' = panel
  BY <1>1, <1>3, <1>4, PanelTakes DEF PaperInv
<1>. QED BY <1>1, <1>5 DEF PaperInv, PanelTypes, NeverTorn, Rests, Progress

(* A run of bytes leaves the panel's other registers alone.                *)
LEMMA RanKeeps ==
  ASSUME PanelTypes, NEW frame, NEW off, NEW n, panel.at + n \in 0 .. Cols * Rows,
         Ran(panel', frame, off, n)
  PROVE  /\ PanelTypes' /\ panel'.at = panel.at + n
         /\ panel'.busy = panel.busy /\ (panel'.torn => panel.torn \/ panel.busy)
         /\ panel'.partial = panel.partial /\ panel'.area = panel.area
<1>. DEFINE sram == panel'.sram
            at == panel.at + n
<1>1. sram = [c \in Cells |-> sram[c]]
  BY DEF Ran
<1>2. panel' = [panel EXCEPT !.sram = sram, !.at = at, !.torn = panel.torn \/ panel.busy]
  BY DEF Ran
<1>. HIDE DEF sram, at
<1>3. panel' = [sram |-> panel'.sram, shown |-> panel'.shown, area |-> panel'.area, partial |-> panel'.partial,
                at |-> panel'.at, busy |-> panel'.busy, set |-> panel'.set, torn |-> panel'.torn]
  BY <1>2 DEF PanelTypes
<1>4. panel'.sram = sram /\ panel'.at = at /\ panel'.shown = panel.shown /\ panel'.set = panel.set
      /\ panel'.busy = panel.busy /\ panel'.torn = (panel.torn \/ panel.busy)
      /\ panel'.partial = panel.partial /\ panel'.area = panel.area
  BY <1>2 DEF PanelTypes
<1>5. at \in 0 .. Cols * Rows
  BY DEF at
<1>6. PanelTypes'
  BY <1>1, <1>3, <1>4, <1>5 DEF PanelTypes
<1>. QED BY <1>4, <1>6 DEF at

(* A command of a full update keeps the strengthening.                     *)
LEMMA UpdateSent ==
  ASSUME PaperInv, Send, call.op = "update"
  PROVE  PaperInv'
<1>. DEFINE t == Turn
            l == Lead
            u == Commands
<1>1. /\ t \in 1 .. Len(u) /\ call.ok
      /\ panel' = Takes(u[t]) /\ u[t].cmd # "WAIT"
      /\ CallTypes' /\ ScriptInv' /\ UNCHANGED <<epaper, call, late>>
      /\ Turn' = t + 1 /\ Lead' = l
  BY SentOn
<1>2. UpdateIs(u, call.frame) /\ Len(u) = 2 * l + 6 /\ l \in 0 .. 1
  BY CommandsAre, UpdateCommands DEF PaperInv
<1>3. PanelTypes /\ NeverTorn /\ UpdateAt /\ (~late /\ t > l /\ t <= l + 6 => ~panel.busy)
  BY <1>1 DEF PaperInv, Rests, Progress, Drawn
<1>4. t \in l + 1 .. l + 6
  <2>1. CASE t <= l \/ t > l + 6
    <3>1. u[t] = Do("WAIT")
      BY <1>1, <1>2, <2>1 DEF UpdateIs
    <3>. QED BY <1>1, <3>1 DEF Do
  <2>. QED BY <1>1, <1>2, <2>1
<1>5. SUFFICES PanelTypes' /\ NeverTorn' /\ UpdateAt' /\ (~late /\ t + 1 <= l + 6 => ~panel'.busy)
  <2>1. Drawn' = Lead' + 6
    BY <1>1 DEF Drawn
  <2>. QED BY <1>1, <1>5, <2>1 DEF PaperInv, Rests, Progress
<1>. DEFINE AllSent == \A c \in Cells : panel.sram[c] = Own(call.frame, c)
            Now == /\ t # l + 6 => (panel'.busy => panel.busy)
                   /\ t = l + 6 => panel'.busy
                   /\ panel'.torn => panel.torn \/ panel.busy
                   /\ t + 1 > l + 2 => ~panel'.partial
                   /\ t + 1 = l + 4 => panel'.at = 0
                   /\ t + 1 > l + 4 => AllSent'
<1>6. SUFFICES PanelTypes' /\ Now
  <2>1. NeverTorn' /\ (~late /\ t + 1 <= l + 6 => ~panel'.busy)
    BY <1>1, <1>2, <1>3, <1>4, <1>6 DEF NeverTorn
  <2>2. ~(t + 1 > l + 6) \/ panel'.busy
    BY <1>2, <1>4, <1>6
  <2>3. Turn' > Drawn' => panel'.busy
    BY <1>1, <2>2 DEF Drawn
  <2>4. UpdateAt'
    BY <1>1, <1>6, <2>3 DEF UpdateAt
  <2>. QED BY <1>6, <2>1, <2>4
<1>7. /\ u[l + 1] = Do("PON") /\ u[l + 2] = Do("PTOU") /\ u[l + 3] = Do("DTM2")
      /\ u[l + 4] = Data(Bytes(call.frame, 0, Cols * Rows))
      /\ u[l + 5] = Do("DSP") /\ u[l + 6] = Do("DRF")
  BY <1>2 DEF UpdateIs
<1>8. /\ t > l + 2 => ~panel.partial
      /\ t = l + 4 => panel.at = 0
      /\ t > l + 4 => AllSent
  BY <1>3 DEF UpdateAt
<1>. HIDE DEF t, l, u, AllSent
<1>9. CASE t = l + 1
  <2>1. panel' = panel
    BY <1>1, <1>3, <1>7, <1>9, PanelTakes
  <2>2. PanelTypes'
    BY <1>3, <2>1 DEF PanelTypes
  <2>3. panel'.sram = panel.sram /\ (panel'.busy => panel.busy) /\ (panel'.torn => panel.torn)
    BY <2>1
  <2>4. ~(t + 1 > l + 2) /\ t + 1 # l + 4 /\ ~(t + 1 > l + 4) /\ t # l + 6
    BY <1>2, <1>9
  <2>. QED BY <2>2, <2>3, <2>4
<1>10. CASE t = l + 2
  <2>1. panel' = [panel EXCEPT !.partial = FALSE, !.area = Whole]
    BY <1>1, <1>3, <1>7, <1>10, PanelTakes
  <2>2. PanelTypes'
    BY <1>3, <2>1 DEF PanelTypes
  <2>3. ~panel'.partial /\ (panel'.busy => panel.busy) /\ (panel'.torn => panel.torn)
    BY <1>3, <2>1 DEF PanelTypes
  <2>4. t + 1 # l + 4 /\ ~(t + 1 > l + 4) /\ t # l + 6
    BY <1>2, <1>10
  <2>. QED BY <2>2, <2>3, <2>4
<1>11. CASE t = l + 3
  <2>1. panel' = [panel EXCEPT !.at = 0]
    BY <1>1, <1>3, <1>7, <1>11, PanelTakes
  <2>2. PanelTypes'
    <3>1. 0 \in 0 .. Cols * Rows
      BY EpaperAssumption
    <3>. QED BY <1>3, <2>1, <3>1 DEF PanelTypes
  <2>3. panel'.at = 0 /\ panel'.partial = panel.partial /\ (panel'.busy => panel.busy) /\ (panel'.torn => panel.torn)
    BY <1>3, <2>1 DEF PanelTypes
  <2>4. t > l + 2 /\ ~(t + 1 > l + 4) /\ t # l + 6
    BY <1>2, <1>11
  <2>. QED BY <1>8, <2>2, <2>3, <2>4
<1>12. CASE t = l + 4
  <2>. DEFINE p == Written(Data(Bytes(call.frame, 0, Cols * Rows)).bytes)
  <2>1. panel.at = 0 /\ ~panel.partial
    BY <1>2, <1>8, <1>12
  <2>2. panel' = p
    <3>1. \A b : Data(b).bytes = b
      BY DEF Data
    <3>. QED BY <1>1, <1>3, <1>7, <1>12, <3>1, PanelTakes
  <2>3. /\ Ran(p, call.frame, 0, Cols * Rows) /\ Cols * Rows \in Nat
        /\ \A c \in Cells : p.sram[c] = Own(call.frame, c)
    BY <1>3, <2>1, WholeSent
  <2>. HIDE DEF p
  <2>4. panel.at + Cols * Rows \in 0 .. Cols * Rows
    BY <2>1, <2>3
  <2>5. /\ PanelTypes' /\ panel'.busy = panel.busy /\ (panel'.torn => panel.torn \/ panel.busy)
        /\ panel'.partial = panel.partial
    BY <1>3, <2>2, <2>3, <2>4, RanKeeps
  <2>6. AllSent'
    BY <1>1, <2>2, <2>3 DEF AllSent
  <2>7. t + 1 # l + 4 /\ t # l + 6
    BY <1>2, <1>12
  <2>. QED BY <2>1, <2>5, <2>6, <2>7
<1>13. CASE t = l + 5
  <2>1. panel' = [panel EXCEPT !.at = 0]
    BY <1>1, <1>3, <1>7, <1>13, PanelTakes
  <2>2. PanelTypes'
    <3>1. 0 \in 0 .. Cols * Rows
      BY EpaperAssumption
    <3>. QED BY <1>3, <2>1, <3>1 DEF PanelTypes
  <2>3. panel'.sram = panel.sram /\ panel'.busy = panel.busy /\ panel'.torn = panel.torn /\ panel'.partial = panel.partial
    BY <1>3, <2>1 DEF PanelTypes
  <2>4. ~(t + 1 = l + 4) /\ t # l + 6 /\ t > l + 4 /\ t > l + 2
    BY <1>2, <1>13
  <2>5. AllSent'
    BY <1>1, <1>8, <2>3, <2>4 DEF AllSent
  <2>. QED BY <1>8, <2>2, <2>3, <2>4, <2>5
<1>14. CASE t = l + 6
  <2>1. panel' = [panel EXCEPT !.busy = TRUE]
    BY <1>1, <1>3, <1>7, <1>14, PanelTakes
  <2>2. PanelTypes'
    BY <1>3, <2>1 DEF PanelTypes
  <2>3. panel'.sram = panel.sram /\ panel'.busy = TRUE /\ panel'.torn = panel.torn /\ panel'.partial = panel.partial
    BY <1>3, <2>1 DEF PanelTypes
  <2>4. ~(t + 1 = l + 4) /\ t = l + 6 /\ t > l + 4 /\ t > l + 2
    BY <1>2, <1>14
  <2>5. AllSent'
    BY <1>1, <1>8, <2>3, <2>4 DEF AllSent
  <2>. QED BY <1>8, <2>2, <2>3, <2>4, <2>5
<1>. QED BY <1>2, <1>4, <1>9, <1>10, <1>11, <1>12, <1>13, <1>14

(* A command of a partial update keeps the strengthening.                  *)
LEMMA PartialSent ==
  ASSUME PaperInv, Send, call.op = "partial"
  PROVE  PaperInv'
<1>. DEFINE t == Turn
            l == Lead
            u == Commands
            a == call.area
            f == call.frame
            w == a.w
            h == Band(a)
            s == Sent
            Columns(k) == \A c \in Cells : InArea(a, c) /\ c[1] < a.x + k => panel.sram[c] = Own(f, c)
            AllSent == \A c \in Cells : InArea(a, c) => panel.sram[c] = Own(f, c)
<1>1. /\ t \in 1 .. Len(u) /\ call.ok
      /\ panel' = Takes(u[t]) /\ u[t].cmd # "WAIT"
      /\ CallTypes' /\ ScriptInv' /\ UNCHANGED <<epaper, call, late>>
      /\ Turn' = t + 1 /\ Lead' = l /\ a' = a /\ f' = f
  BY SentOn
<1>2. /\ a.x \in Nat /\ First(a) \in Nat /\ w \in Nat /\ h \in Nat
      /\ a.x + w <= Cols /\ First(a) + h <= Rows
      /\ Aligned(a) => Window(a) = [x |-> a.x, w |-> w, y |-> First(a), h |-> h] /\ w > 0 /\ h > 0
  BY AreasFit DEF PaperInv
<1>3. PartialIs(u, f, a) /\ Len(u) = 2 * l + w + 6 /\ l \in 0 .. 1
  <2>1. Len(u) = 2 * Lead + call.area.w + 6 /\ u = PartialUpdate(call.frame, call.area) /\ Lead \in 0 .. 1
    BY CommandsAre DEF PaperInv
  <2>2. call.area.w \in Nat
    BY <1>2
  <2>3. PartialIs(PartialUpdate(call.frame, call.area), call.frame, call.area)
    BY <2>2, PartialCommands
  <2>. QED BY <2>1, <2>3
<1>4. PanelTypes /\ NeverTorn /\ PartialAt /\ (~late /\ t > l /\ t <= l + w + 6 => ~panel.busy)
  BY <1>1 DEF PaperInv, Rests, Progress, Drawn
<1>5. s = t - (l + 5) /\ Sent' = (t + 1) - (l + 5)
  <2>1. s = t - (l + 5) /\ Sent' = Turn' - (Lead' + 5)
    BY DEF Sent
  <2>2. Turn' = t + 1 /\ Lead' = l
    BY <1>1
  <2>. HIDE DEF t, l, s
  <2>. QED BY <2>1, <2>2
<1>6. /\ t > l + 2 => panel.partial
      /\ t > l + 3 => panel.area = Window(a)
      /\ t > l + 4 /\ t <= l + w + 5 => panel.at = s * h /\ Columns(s)
      /\ t > l + w + 5 => AllSent
  BY <1>4 DEF PartialAt
<1>7. /\ \A i \in 1 .. 2 * l + w + 6 : (i <= l \/ i > l + w + 6) => u[i] = Do("WAIT")
      /\ u[l + 1] = Do("PON") /\ u[l + 2] = Do("PTIN")
      /\ u[l + 3] = [cmd |-> "PTL", window |-> Window(a)] /\ u[l + 4] = Do("DTM2")
      /\ \A k \in 1 .. w : u[l + 4 + k] = Column(f, a, k - 1)
      /\ u[l + w + 5] = Do("DSP") /\ u[l + w + 6] = Do("DRF")
  BY <1>3 DEF PartialIs
<1>8. t \in l + 1 .. l + w + 6
  <2>1. CASE t <= l \/ t > l + w + 6
    <3>1. u[t] = Do("WAIT")
      BY <1>1, <1>3, <1>7, <2>1
    <3>. QED BY <1>1, <3>1 DEF Do
  <2>. QED BY <1>1, <1>2, <1>3, <2>1
<1>. DEFINE Now == /\ t # l + w + 6 => (panel'.busy => panel.busy)
                   /\ t = l + w + 6 => panel'.busy
                   /\ panel'.torn => panel.torn \/ panel.busy
                   /\ t + 1 > l + 2 => panel'.partial
                   /\ t + 1 > l + 3 => panel'.area = Window(a)
                   /\ t + 1 > l + 4 /\ t + 1 <= l + w + 5 => panel'.at = (s + 1) * h
                   /\ t + 1 > l + 4 /\ t + 1 <= l + w + 5 => \A c \in Cells :
                        InArea(a, c) /\ c[1] < a.x + (s + 1) => panel'.sram[c] = Own(f, c)
                   /\ t + 1 > l + w + 5 => \A c \in Cells : InArea(a, c) => panel'.sram[c] = Own(f, c)
<1>9. SUFFICES PanelTypes' /\ Now
  <2>1. Drawn' = l + w + 6
    BY <1>1 DEF Drawn
  <2>2. NeverTorn' /\ (~late /\ t + 1 <= l + w + 6 => ~panel'.busy)
    BY <1>1, <1>2, <1>3, <1>4, <1>8, <1>9 DEF NeverTorn
  <2>3. ~(t + 1 > l + w + 6) \/ panel'.busy
    BY <1>2, <1>3, <1>8, <1>9
  <2>4. Turn' > Drawn' => panel'.busy
    BY <1>1, <2>1, <2>3
  <2>5. Sent' = s + 1
    BY <1>1, <1>3, <1>5
  <2>6. PartialAt'
    <3>1. call' = call
      BY <1>1
    <3>. HIDE DEF t, l, s
    <3>. QED BY <1>1, <1>9, <2>4, <2>5, <3>1 DEF PartialAt
  <2>7. Rests'
    BY <1>1, <2>1, <2>2 DEF Rests
  <2>. QED BY <1>1, <1>9, <2>2, <2>6, <2>7 DEF PaperInv, Progress
<1>10. Cols * Rows \in Nat /\ 0 \in 0 .. Cols * Rows
  BY EpaperAssumption
<1>. HIDE DEF t, l, u, a, f, w, h, s, AllSent, Columns
<1>11. CASE t = l + 1
  <2>1. panel' = panel
    BY <1>1, <1>4, <1>7, <1>11, PanelTakes
  <2>2. PanelTypes'
    BY <1>4, <2>1 DEF PanelTypes
  <2>3. ~(t + 1 > l + 2) /\ ~(t + 1 > l + 3) /\ ~(t + 1 > l + 4) /\ ~(t + 1 > l + w + 5) /\ t # l + w + 6
    BY <1>2, <1>3, <1>11
  <2>. QED BY <2>1, <2>2, <2>3
<1>12. CASE t = l + 2
  <2>1. panel' = [panel EXCEPT !.partial = TRUE]
    BY <1>1, <1>4, <1>7, <1>12, PanelTakes
  <2>2. PanelTypes'
    BY <1>4, <2>1 DEF PanelTypes
  <2>3. panel'.partial /\ (panel'.busy => panel.busy) /\ (panel'.torn => panel.torn)
    BY <1>4, <2>1 DEF PanelTypes
  <2>4. ~(t + 1 > l + 3) /\ ~(t + 1 > l + 4) /\ ~(t + 1 > l + w + 5) /\ t # l + w + 6
    BY <1>2, <1>3, <1>12
  <2>. QED BY <2>2, <2>3, <2>4
<1>13. CASE t = l + 3
  <2>1. panel' = [panel EXCEPT !.area = Window(a)]
    BY <1>1, <1>4, <1>7, <1>13, PanelTakes
  <2>2. PanelTypes'
    BY <1>4, <2>1 DEF PanelTypes
  <2>3. panel'.area = Window(a) /\ panel'.partial = panel.partial /\ (panel'.busy => panel.busy) /\ (panel'.torn => panel.torn)
    BY <1>4, <2>1 DEF PanelTypes
  <2>4. t > l + 2 /\ ~(t + 1 > l + 4) /\ ~(t + 1 > l + w + 5) /\ t # l + w + 6
    BY <1>2, <1>3, <1>13
  <2>. QED BY <1>6, <2>2, <2>3, <2>4
<1>14. CASE t = l + 4
  <2>1. panel' = [panel EXCEPT !.at = 0]
    BY <1>1, <1>4, <1>7, <1>14, PanelTakes
  <2>2. PanelTypes'
    BY <1>4, <1>10, <2>1 DEF PanelTypes
  <2>3. panel'.at = 0 /\ panel'.area = panel.area /\ panel'.partial = panel.partial
        /\ (panel'.busy => panel.busy) /\ (panel'.torn => panel.torn)
    BY <1>4, <2>1 DEF PanelTypes
  <2>4. t > l + 2 /\ t > l + 3 /\ ~(t + 1 > l + w + 5) /\ t # l + w + 6 /\ s + 1 = 0 /\ 0 * h = 0
    BY <1>2, <1>3, <1>5, <1>14
  <2>5. ASSUME NEW c \in Cells, InArea(a, c), c[1] < a.x + (s + 1) PROVE FALSE
    <3>1. a.x <= c[1] /\ c[1] \in Int
      BY <1>2, <2>5, EpaperAssumption DEF InArea, Covers, Cells
    <3>. QED BY <1>2, <2>4, <2>5, <3>1
  <2>. QED BY <1>6, <2>2, <2>3, <2>4, <2>5
<1>15. CASE t > l + 4 /\ t <= l + w + 4
  <2>1. s \in Nat /\ s < w /\ s + 1 \in 1 .. w /\ l + 4 + (s + 1) = t /\ (s + 1) - 1 = s
    BY <1>2, <1>3, <1>5, <1>8, <1>15
  <2>2. u[t] = Column(f, a, s)
    BY <1>7, <2>1
  <2>3. panel' = Written(Column(f, a, s).bytes)
    <3>1. Column(f, a, s) = Data(Column(f, a, s).bytes)
      BY DEF Column, Data
    <3>. QED BY <1>1, <1>4, <2>2, <3>1, PanelTakes
  <2>4. panel.partial /\ panel.area = Window(a) /\ panel.at = s * h /\ Columns(s)
    BY <1>2, <1>3, <1>6, <1>8, <1>15
  <2>. DEFINE off == (a.x + s) * Rows + First(a)
  <2>9. /\ panel' = Written(Bytes(f, off, h)) /\ Ran(panel', f, off, h)
        /\ panel.at + h = (s + 1) * h /\ (s + 1) * h \in 0 .. Cols * Rows
    BY <1>2, <1>4, <2>1, <2>3, <2>4, ColumnRuns DEF w, h
  <2>5. ASSUME Aligned(a)
        PROVE  /\ \A c \in Cells : c[1] # a.x + s => panel'.sram[c] = panel.sram[c]
               /\ \A c \in Cells : InArea(a, c) /\ c[1] = a.x + s => panel'.sram[c] = Own(f, c)
    <3>. DEFINE v == Window(a)
    <3>1. v.x = a.x /\ v.w = w /\ v.y = First(a) /\ v.h = h /\ w > 0 /\ h > 0
      BY <1>2, <2>5
    <3>2. panel' = Written(Bytes(f, (v.x + s) * Rows + v.y, v.h))
      BY <2>9, <3>1
    <3>3. \A c \in Cells : InArea(a, c) => Covers(v, c)
      BY DEF InArea
    <3>4. panel.area = v /\ panel.partial
      BY <2>4
    <3>. HIDE DEF v
    <3>5. /\ \A c \in Cells : c[1] # v.x + s => panel'.sram[c] = panel.sram[c]
          /\ \A c \in Cells : Covers(v, c) /\ c[1] = v.x + s => panel'.sram[c] = Own(f, c)
      BY <1>2, <1>4, <2>1, <2>4, <3>1, <3>2, <3>4, ColumnSent
    <3>. QED BY <3>1, <3>3, <3>5
  <2>. HIDE DEF off
  <2>6. /\ PanelTypes' /\ panel'.at = (s + 1) * h
        /\ panel'.busy = panel.busy /\ (panel'.torn => panel.torn \/ panel.busy)
        /\ panel'.partial = panel.partial /\ panel'.area = panel.area
    BY <1>4, <2>9, RanKeeps
  <2>7. ASSUME NEW c \in Cells, InArea(a, c), c[1] < a.x + (s + 1) PROVE panel'.sram[c] = Own(f, c)
    <3>1. c[1] \in Int
      BY EpaperAssumption DEF Cells
    <3>2. c[1] = a.x + s \/ (c[1] # a.x + s /\ c[1] < a.x + s)
      BY <1>2, <2>1, <2>7, <3>1
    <3>3. Aligned(a)
      BY <2>7 DEF InArea
    <3>. QED BY <2>4, <2>5, <2>7, <3>2, <3>3 DEF Columns
  <2>8. ~(t + 1 > l + w + 5) /\ t # l + w + 6
    BY <1>2, <1>3, <1>8, <1>15
  <2>. QED BY <2>4, <2>6, <2>7, <2>8
<1>16. CASE t = l + w + 5
  <2>1. panel' = [panel EXCEPT !.at = 0]
    BY <1>1, <1>4, <1>7, <1>16, PanelTakes
  <2>2. PanelTypes'
    BY <1>4, <1>10, <2>1 DEF PanelTypes
  <2>3. panel'.area = panel.area /\ panel'.partial = panel.partial /\ panel'.sram = panel.sram
        /\ (panel'.busy => panel.busy) /\ (panel'.torn => panel.torn)
    BY <1>4, <2>1 DEF PanelTypes
  <2>4. t > l + 2 /\ t > l + 3 /\ t > l + 4 /\ t <= l + w + 5 /\ ~(t + 1 <= l + w + 5) /\ t # l + w + 6 /\ s = w
    BY <1>2, <1>3, <1>5, <1>16
  <2>5. ASSUME NEW c \in Cells, InArea(a, c) PROVE panel'.sram[c] = Own(f, c)
    <3>1. c[1] < a.x + w
      BY <1>2, <2>5 DEF InArea, Covers
    <3>2. Columns(w)
      BY <1>6, <2>4
    <3>. QED BY <2>3, <2>5, <3>1, <3>2 DEF Columns
  <2>. QED BY <1>6, <2>2, <2>3, <2>4, <2>5
<1>17. CASE t = l + w + 6
  <2>1. panel' = [panel EXCEPT !.busy = TRUE]
    BY <1>1, <1>4, <1>7, <1>17, PanelTakes
  <2>2. PanelTypes'
    BY <1>4, <2>1 DEF PanelTypes
  <2>3. panel'.area = panel.area /\ panel'.partial = panel.partial /\ panel'.sram = panel.sram
        /\ panel'.busy /\ (panel'.torn => panel.torn)
    BY <1>4, <2>1 DEF PanelTypes
  <2>4. t > l + 2 /\ t > l + 3 /\ t > l + w + 5 /\ ~(t + 1 <= l + w + 5)
    BY <1>2, <1>3, <1>17
  <2>5. \A c \in Cells : InArea(a, c) => panel'.sram[c] = Own(f, c)
    BY <1>6, <2>3, <2>4 DEF AllSent
  <2>. QED BY <1>6, <1>17, <2>2, <2>3, <2>4, <2>5
<1>18. t = l + 1 \/ t = l + 2 \/ t = l + 3 \/ t = l + 4 \/ (t > l + 4 /\ t <= l + w + 4) \/ t = l + w + 5 \/ t = l + w + 6
  BY <1>2, <1>3, <1>8
<1>. QED BY <1>11, <1>12, <1>13, <1>14, <1>15, <1>16, <1>17, <1>18

(* Any command that is sent keeps the strengthening.                       *)
LEMMA SendKept ==
  ASSUME PaperInv, Send
  PROVE  PaperInv'
<1>1. call.op # "none"
  <2>1. Turn \in 1 .. Len(Commands)
    BY SentOn
  <2>2. call.op = "none" => Len(Commands) = 0
    BY CommandsAre DEF PaperInv
  <2>. QED BY <2>1, <2>2
<1>2. call.op \in {"none", "init", "set", "finalize", "update", "partial"}
  BY DEF PaperInv, CallTypes
<1>. QED BY <1>1, <1>2, SetupSent, CloseSent, UpdateSent, PartialSent

(* A call that ends, with its failure returned or not.                     *)
LEMMA EndedKept ==
  ASSUME PaperInv, script' = <<>>, ~call'.ok, CallTypes', UNCHANGED <<panel, late>>,
         call'.op = call.op \/ call'.op = "none"
  PROVE  PaperInv'
<1>1. ScriptInv'
  <2>1. <<>> \in Seq({})
    OBVIOUS
  <2>2. IsSequence(<<>>)
    BY <2>1 DEF IsSequence
  <2>. QED BY <2>2 DEF ScriptInv, IsSequence
<1>2. PanelTypes' /\ NeverTorn'
  BY DEF PaperInv, PanelTypes, NeverTorn
<1>3. Rests' /\ Progress'
  BY DEF PaperInv, Rests, Progress
<1>. QED BY <1>1, <1>2, <1>3 DEF PaperInv

(* A command that fails keeps the strengthening.                           *)
LEMMA SendFailsKept ==
  ASSUME PaperInv, SendFails
  PROVE  PaperInv'
<1>. DEFINE Overlooked == Head(script).cmd = "LUT" \/ call.op = "finalize"
<1>1. script # <<>> /\ Head(script).cmd \notin {"WAIT", "RESET"} /\ UNCHANGED <<panel, late>>
  BY DEF SendFails
<1>2. Head(script) = Commands[Turn] /\ Turn \in 1 .. Len(Commands) /\ call.ok
  BY <1>1, ScriptGoesOn
<1>3. CASE ~Overlooked
  <2>1. /\ script' = <<>> /\ call' = [call EXCEPT !.ok = FALSE]
        /\ epaper' = IF call.op = "init" THEN InvalidEpaper ELSE epaper
    BY <1>3 DEF SendFails
  <2>2. CallTypes'
    <3>1. call' = [op |-> call'.op, area |-> call'.area, frame |-> call'.frame, ok |-> call'.ok]
          /\ call'.op = call.op /\ call'.area = call.area
      BY <2>1 DEF PaperInv, CallTypes
    <3>2. epaper' = [valid |-> epaper'.valid, speed |-> epaper'.speed,
                     rotation |-> epaper'.rotation, blocking |-> epaper'.blocking]
          /\ epaper'.speed \in Speeds
      BY <2>1, EpaperAssumption DEF PaperInv, CallTypes, InvalidEpaper
    <3>. QED BY <3>1, <3>2 DEF PaperInv, CallTypes, Outside
  <2>3. ~call'.ok /\ call'.op = call.op
    BY <2>1 DEF PaperInv, CallTypes
  <2>. QED BY <1>1, <2>1, <2>2, <2>3, EndedKept
<1>4. CASE Overlooked
  <2>1. script' = Tail(script) /\ UNCHANGED <<call, epaper>>
    BY <1>4 DEF SendFails
  <2>2. ScriptInv' /\ Turn' = Turn + 1
    BY <1>1, <2>1, ScriptGoesOn
  <2>3. CallTypes' /\ PanelTypes' /\ NeverTorn'
    BY <1>1, <2>1 DEF PaperInv, CallTypes, PanelTypes, NeverTorn, Outside
  <2>4. CASE call.op = "finalize"
    BY <1>1, <2>1, <2>2, <2>3, <2>4 DEF PaperInv, Rests, Progress
  <2>5. CASE call.op \in {"init", "set"}
    <3>1. Commands[1].cmd = "RESET" /\ Commands[2].cmd = "PSR" /\ Len(Commands) = 9
      <4>1. Commands = Setup(epaper) /\ Len(Commands) = 9
        BY <2>5, CommandsAre DEF PaperInv
      <4>. QED BY <4>1 DEF Setup, Do
    <3>2. Turn > 2
      BY <1>1, <1>2, <1>4, <2>5, <3>1
    <3>3. call.op = "set" => /\ panel'.set.rotation = epaper'.rotation
                             /\ panel'.set.speed \in {"none", epaper'.speed}
      BY <1>1, <1>2, <2>1, <3>2 DEF PaperInv, Progress, SetAt
    <3>. QED BY <1>1, <2>1, <2>2, <2>3, <2>5, <3>3 DEF PaperInv, Rests, Progress, SetAt
  <2>6. CASE call.op = "update"
    <3>1. /\ UpdateIs(Commands, call.frame) /\ Len(Commands) = 2 * Lead + 6 /\ Lead \in 0 .. 1
      BY <2>6, CommandsAre, UpdateCommands DEF PaperInv
    <3>. DEFINE t == Turn
                l == Lead
                u == Commands
    <3>2. t \in 1 .. 2 * l + 6 /\ u[t].cmd = "LUT" /\ l \in 0 .. 1
      BY <1>2, <1>4, <2>6, <3>1
    <3>. HIDE DEF t, l, u
    <3>3. \A x : Do(x).cmd = x /\ Data(x).cmd = "DATA"
      BY DEF Do, Data
    <3>4. /\ \A i \in 1 .. 2 * l + 6 : (i <= l \/ i > l + 6) => u[i] = Do("WAIT")
          /\ u[l + 1] = Do("PON") /\ u[l + 2] = Do("PTOU") /\ u[l + 3] = Do("DTM2")
          /\ u[l + 4].cmd = "DATA"
          /\ u[l + 5] = Do("DSP") /\ u[l + 6] = Do("DRF")
      BY <3>1, <3>3 DEF UpdateIs, t, l, u
    <3>5. t <= l \/ t > l + 6 \/ t = l + 1 \/ t = l + 2 \/ t = l + 3 \/ t = l + 4 \/ t = l + 5 \/ t = l + 6
      BY <3>2
    <3>. QED BY <3>2, <3>3, <3>4, <3>5
  <2>7. CASE call.op = "partial"
    <3>0. call.area.w \in Nat
      BY <2>7, AreasFit DEF PaperInv
    <3>9. PartialIs(PartialUpdate(call.frame, call.area), call.frame, call.area)
      BY <3>0, PartialCommands
    <3>1. /\ PartialIs(Commands, call.frame, call.area) /\ Len(Commands) = 2 * Lead + call.area.w + 6
          /\ Lead \in 0 .. 1
      BY <2>7, <3>9, CommandsAre DEF PaperInv
    <3>. DEFINE t == Turn
                l == Lead
                u == Commands
                w == call.area.w
    <3>2. t \in 1 .. 2 * l + w + 6 /\ u[t].cmd = "LUT" /\ l \in 0 .. 1 /\ w \in Nat
      BY <1>2, <1>4, <2>7, <3>0, <3>1
    <3>. HIDE DEF t, l, u, w
    <3>3. \A x : Do(x).cmd = x /\ [cmd |-> "PTL", window |-> x].cmd = "PTL"
      BY DEF Do
    <3>6. \A x, y, z : Column(x, y, z).cmd = "DATA"
      BY DEF Column, Data
    <3>4. /\ \A i \in 1 .. 2 * l + w + 6 : (i <= l \/ i > l + w + 6) => u[i] = Do("WAIT")
          /\ u[l + 1] = Do("PON") /\ u[l + 2] = Do("PTIN") /\ u[l + 3].cmd = "PTL" /\ u[l + 4] = Do("DTM2")
          /\ \A k \in 1 .. w : u[l + 4 + k].cmd = "DATA"
          /\ u[l + w + 5] = Do("DSP") /\ u[l + w + 6] = Do("DRF")
      BY <3>1, <3>3, <3>6 DEF PartialIs, t, l, u, w
    <3>5. t <= l \/ t > l + w + 6 \/ t = l + 1 \/ t = l + 2 \/ t = l + 3 \/ t = l + 4 \/ t - (l + 4) \in 1 .. w
            \/ t = l + w + 5 \/ t = l + w + 6
      BY <3>2
    <3>7. ASSUME t - (l + 4) \in 1 .. w PROVE u[t].cmd = "DATA"
      <4>1. l + 4 + (t - (l + 4)) = t
        BY <3>2
      <4>. QED BY <3>4, <3>7, <4>1
    <3>. QED BY <3>2, <3>3, <3>4, <3>5, <3>7
  <2>8. CASE call.op = "none"
    BY <1>2, <2>8, CommandsAre DEF PaperInv
  <2>. QED BY <2>4, <2>5, <2>6, <2>7, <2>8 DEF PaperInv, CallTypes
<1>. QED BY <1>3, <1>4

(* Where an update and a partial update wait.                              *)
LEMMA UpdateWaits ==
  ASSUME PaperInv, call.op = "update", Turn \in 1 .. Len(Commands), Commands[Turn].cmd = "WAIT"
  PROVE  Lead \in 0 .. 1 /\ Turn \in Nat /\ (Turn <= Lead \/ Turn > Lead + 6)
<1>. DEFINE t == Turn
            l == Lead
            u == Commands
<1>1. UpdateIs(u, call.frame) /\ Len(u) = 2 * l + 6 /\ l \in 0 .. 1
  BY CommandsAre, UpdateCommands DEF PaperInv
<1>2. t \in 1 .. 2 * l + 6 /\ u[t].cmd = "WAIT"
  BY <1>1
<1>. HIDE DEF t, l, u
<1>3. \A x : Do(x).cmd = x /\ Data(x).cmd = "DATA"
  BY DEF Do, Data
<1>4. /\ u[l + 1] = Do("PON") /\ u[l + 2] = Do("PTOU") /\ u[l + 3] = Do("DTM2")
      /\ u[l + 4].cmd = "DATA" /\ u[l + 5] = Do("DSP") /\ u[l + 6] = Do("DRF")
  BY <1>1, <1>3 DEF UpdateIs, t, l, u
<1>5. t <= l \/ t > l + 6 \/ t = l + 1 \/ t = l + 2 \/ t = l + 3 \/ t = l + 4 \/ t = l + 5 \/ t = l + 6
  BY <1>1, <1>2
<1>6. t <= l \/ t > l + 6
  BY <1>2, <1>3, <1>4, <1>5
<1>7. t \in Nat
  BY <1>2
<1>. QED BY <1>1, <1>6, <1>7 DEF t, l

(* A partial update waits before its first command or after its last row.  *)
LEMMA PartialWaits ==
  ASSUME PaperInv, call.op = "partial", Turn \in 1 .. Len(Commands), Commands[Turn].cmd = "WAIT"
  PROVE  Lead \in 0 .. 1 /\ Turn \in Nat /\ (Turn <= Lead \/ Turn > Lead + call.area.w + 6)
<1>. DEFINE t == Turn
            l == Lead
            u == Commands
            w == call.area.w
<1>1. w \in Nat
  BY AreasFit DEF PaperInv
<1>2. PartialIs(PartialUpdate(call.frame, call.area), call.frame, call.area)
  BY <1>1, PartialCommands
<1>3. PartialIs(u, call.frame, call.area) /\ Len(u) = 2 * l + w + 6 /\ l \in 0 .. 1
  BY <1>2, CommandsAre DEF PaperInv
<1>4. t \in 1 .. 2 * l + w + 6 /\ u[t].cmd = "WAIT"
  BY <1>3
<1>. HIDE DEF t, l, u, w
<1>5. \A x : Do(x).cmd = x /\ [cmd |-> "PTL", window |-> x].cmd = "PTL"
  BY DEF Do
<1>6. \A x, y, z : Column(x, y, z).cmd = "DATA"
  BY DEF Column, Data
<1>7. /\ u[l + 1] = Do("PON") /\ u[l + 2] = Do("PTIN") /\ u[l + 3].cmd = "PTL" /\ u[l + 4] = Do("DTM2")
      /\ \A k \in 1 .. w : u[l + 4 + k].cmd = "DATA"
      /\ u[l + w + 5] = Do("DSP") /\ u[l + w + 6] = Do("DRF")
  BY <1>3, <1>5, <1>6 DEF PartialIs, t, l, u, w
<1>8. t <= l \/ t > l + w + 6 \/ t = l + 1 \/ t = l + 2 \/ t = l + 3 \/ t = l + 4 \/ t - (l + 4) \in 1 .. w
        \/ t = l + w + 5 \/ t = l + w + 6
  BY <1>1, <1>3, <1>4
<1>9. ASSUME t - (l + 4) \in 1 .. w PROVE u[t].cmd = "DATA"
  <2>1. l + 4 + (t - (l + 4)) = t
    BY <1>3, <1>4
  <2>. QED BY <1>7, <1>9, <2>1
<1>10. t <= l \/ t > l + w + 6
  BY <1>4, <1>5, <1>7, <1>8, <1>9
<1>11. t \in Nat
  BY <1>4
<1>. QED BY <1>3, <1>10, <1>11 DEF t, l, w

(* Waiting on the busy line keeps the strengthening.                       *)
LEMMA WaitKept ==
  ASSUME PaperInv, BusyWait
  PROVE  PaperInv'
<1>1. /\ script # <<>> /\ Head(script).cmd = "WAIT" /\ script' = Tail(script)
      /\ late' = (late \/ panel.busy) /\ UNCHANGED <<epaper, panel, call>>
  BY DEF BusyWait
<1>2. /\ Head(script) = Commands[Turn] /\ Turn \in 1 .. Len(Commands) /\ call.ok
      /\ ScriptInv' /\ Turn' = Turn + 1 /\ Lead' = Lead /\ Drawn' = Drawn
  BY <1>1, ScriptGoesOn
<1>3. Commands[Turn].cmd = "WAIT"
  BY <1>1, <1>2
<1>4. CallTypes' /\ PanelTypes' /\ NeverTorn'
  BY <1>1 DEF PaperInv, CallTypes, PanelTypes, NeverTorn, Outside
<1>5. (~late' => ~late /\ ~panel.busy) /\ panel' = panel /\ call' = call /\ epaper' = epaper
  BY <1>1
<1>6. CASE call.op = "finalize"
  BY <1>2, <1>4, <1>5, <1>6 DEF PaperInv, Rests, Progress
<1>7. CASE call.op \in {"init", "set"}
  <2>1. Commands[1].cmd = "RESET" /\ Commands[2].cmd = "PSR" /\ Len(Commands) = 9
    <3>1. Commands = Setup(epaper) /\ Len(Commands) = 9
      BY <1>7, CommandsAre DEF PaperInv
    <3>. QED BY <3>1 DEF Setup, Do
  <2>2. Turn > 2
    BY <1>2, <1>3, <2>1
  <2>3. call.op = "set" => /\ panel'.set.rotation = epaper'.rotation
                           /\ panel'.set.speed \in {"none", epaper'.speed}
    BY <1>2, <1>5, <2>2 DEF PaperInv, Progress, SetAt
  <2>. QED BY <1>2, <1>4, <1>5, <1>7, <2>3 DEF PaperInv, Rests, Progress, SetAt
<1>8. CASE call.op = "update"
  <2>. DEFINE t == Turn
              l == Lead
  <2>1. l \in 0 .. 1 /\ t \in Nat /\ (t <= l \/ t > l + 6)
    BY <1>2, <1>3, <1>8, UpdateWaits
  <2>2. UpdateAt /\ Drawn = l + 6 /\ Drawn' = Drawn
    BY <1>2, <1>8 DEF PaperInv, Progress, Drawn
  <2>3. Turn' = t + 1 /\ Lead' = l
    BY <1>2
  <2>4. Rests'
    BY <1>5, <1>8 DEF Rests
  <2>. HIDE DEF t, l
  <2>5. (t + 1 > l + 2 => t > l + 2) /\ t + 1 # l + 4 /\ (t + 1 > l + 4 => t > l + 4) /\ (t + 1 > l + 6 => t > l + 6)
    BY <2>1
  <2>6. UpdateAt'
    <3>1. /\ t > l + 2 => ~panel.partial
          /\ t > l + 4 => \A c \in Cells : panel.sram[c] = Own(call.frame, c)
          /\ ~late /\ t > l + 6 => panel.busy \/ \A c \in Cells : panel.shown[c] = Own(call.frame, c)
      BY <2>2 DEF UpdateAt, t, l
    <3>. QED BY <1>5, <2>2, <2>3, <2>5, <3>1 DEF UpdateAt
  <2>. QED BY <1>2, <1>4, <1>5, <1>8, <2>4, <2>6 DEF PaperInv, Progress
<1>9. CASE call.op = "partial"
  <2>. DEFINE t == Turn
              l == Lead
              w == call.area.w
              s == Sent
  <2>1. l \in 0 .. 1 /\ t \in Nat /\ (t <= l \/ t > l + w + 6)
    BY <1>2, <1>3, <1>9, PartialWaits
  <2>2. PartialAt /\ Drawn = l + w + 6 /\ Drawn' = Drawn /\ w \in Nat
    BY <1>2, <1>9, AreasFit DEF PaperInv, Progress, Drawn
  <2>3. Turn' = t + 1 /\ Lead' = l
    BY <1>2
  <2>4. Rests'
    BY <1>5, <1>9 DEF Rests
  <2>. HIDE DEF t, l, w
  <2>5. /\ t + 1 > l + 2 => t > l + 2
        /\ t + 1 > l + 3 => t > l + 3
        /\ ~(t + 1 > l + 4 /\ t + 1 <= l + w + 5)
        /\ t + 1 > l + w + 5 => t > l + w + 5
        /\ t + 1 > l + w + 6 => t > l + w + 6
    BY <2>1, <2>2
  <2>6. PartialAt'
    <3>1. /\ t > l + 2 => panel.partial
          /\ t > l + 3 => panel.area = Window(call.area)
          /\ t > l + w + 5 => \A c \in Cells : InArea(call.area, c) => panel.sram[c] = Own(call.frame, c)
          /\ ~late /\ t > l + w + 6 =>
               panel.busy \/ \A c \in Cells : InArea(call.area, c) => panel.shown[c] = Own(call.frame, c)
      BY <2>2 DEF PartialAt, t, l, w
    <3>2. call'.area.w = w
      BY <1>5 DEF w
    <3>. QED BY <1>5, <2>2, <2>3, <2>5, <3>1, <3>2 DEF PartialAt
  <2>. QED BY <1>2, <1>4, <1>5, <1>9, <2>4, <2>6 DEF PaperInv, Progress
<1>10. CASE call.op = "none"
  BY <1>2, <1>10, CommandsAre DEF PaperInv
<1>. QED BY <1>6, <1>7, <1>8, <1>9, <1>10 DEF PaperInv, CallTypes

(* The end of a refresh, at any time, keeps the strengthening.             *)
LEMMA DoneKept ==
  ASSUME PaperInv, PanelDone
  PROVE  PaperInv'
<1>0. PICK cells \in Redrawn :
        panel' = [panel EXCEPT
          !.busy = FALSE,
          !.shown = [c \in Cells |-> IF c \in cells THEN panel.sram[c] ELSE @[c]]]
  BY DEF PanelDone
<1>. DEFINE shown == [c \in Cells |-> IF c \in cells THEN panel.sram[c] ELSE panel.shown[c]]
<1>1. panel.busy /\ panel' = [panel EXCEPT !.busy = FALSE, !.shown = shown] /\ UNCHANGED <<epaper, script, call, late>>
  BY <1>0 DEF PanelDone, PaperInv, PanelTypes
<1>2. shown = [c \in Cells |-> shown[c]]
  OBVIOUS
<1>3. Area.w > 0 /\ Area.h > 0 => \A c \in Cells : Covers(Area, c) => shown[c] = panel.sram[c]
  BY DEF Redrawn
<1>. HIDE DEF shown
<1>4. /\ panel'.sram = panel.sram /\ panel'.shown = shown /\ ~panel'.busy /\ panel'.at = panel.at
      /\ panel'.partial = panel.partial /\ panel'.area = panel.area /\ panel'.set = panel.set
      /\ panel'.torn = panel.torn
  BY <1>1 DEF PaperInv, PanelTypes
<1>5. panel' = [sram |-> panel'.sram, shown |-> panel'.shown, area |-> panel'.area, partial |-> panel'.partial,
                at |-> panel'.at, busy |-> panel'.busy, set |-> panel'.set, torn |-> panel'.torn]
  BY <1>1 DEF PaperInv, PanelTypes
<1>6. PanelTypes'
  BY <1>2, <1>4, <1>5 DEF PaperInv, PanelTypes
<1>7. Commands' = Commands /\ Turn' = Turn /\ Lead' = Lead /\ Drawn' = Drawn /\ Sent' = Sent
  BY <1>1 DEF Commands, Turn, Lead, Drawn, Sent, Waits, Setup, Update, PartialUpdate, Refreshes, Column
<1>8. ScriptInv' /\ CallTypes' /\ NeverTorn' /\ Rests'
  <2>1. ScriptInv' /\ CallTypes'
    BY <1>1, <1>7 DEF PaperInv, ScriptInv, IsSequence, CallTypes, Outside
  <2>. QED BY <1>1, <1>4, <2>1 DEF PaperInv, NeverTorn, Rests
<1>9. Turn \in Int /\ Lead \in 0 .. 1
  <2>1. Len(Commands) \in Nat /\ Lead \in 0 .. 1
    BY CommandsAre DEF PaperInv
  <2>2. Len(script) \in Nat
    <3>1. PICK S : script \in Seq(S)
      BY DEF PaperInv, ScriptInv, IsSequence
    <3>. QED BY <3>1
  <2>. QED BY <2>1, <2>2 DEF Turn
<1>10. ASSUME call.op = "update", call.ok PROVE UpdateAt'
  <2>1. UpdateAt
    BY <1>10 DEF PaperInv, Progress
  <2>2. Drawn = Lead + 6
    BY <1>10 DEF Drawn
  <2>3. ASSUME Turn > Lead + 6 PROVE \A c \in Cells : shown[c] = Own(call.frame, c)
    <3>1. Turn > Lead + 2 /\ Turn > Lead + 4
      BY <1>9, <2>3
    <3>2. ~panel.partial /\ \A c \in Cells : panel.sram[c] = Own(call.frame, c)
      BY <2>1, <3>1 DEF UpdateAt
    <3>3. Area.w > 0 /\ Area.h > 0 /\ \A c \in Cells : Covers(Area, c)
      BY <3>2, EpaperAssumption DEF Covers, Area, Whole, Cells
    <3>. QED BY <1>3, <3>2, <3>3
  <2>4. call'.frame = call.frame
    BY <1>1
  <2>. QED BY <1>4, <1>7, <2>1, <2>2, <2>3, <2>4 DEF UpdateAt
<1>11. ASSUME call.op = "partial", call.ok PROVE PartialAt'
  <2>1. PartialAt /\ call.area.w \in Nat
    BY <1>11, AreasFit DEF PaperInv, Progress
  <2>2. Drawn = Lead + call.area.w + 6
    BY <1>11 DEF Drawn
  <2>3. ASSUME Turn > Drawn PROVE \A c \in Cells : InArea(call.area, c) => shown[c] = Own(call.frame, c)
    <3>. DEFINE w == call.area.w
    <3>1. Turn > Lead + 2 /\ Turn > Lead + 3 /\ Turn > Lead + w + 5
      <4>. HIDE DEF w
      <4>. QED BY <1>9, <2>1, <2>2, <2>3 DEF w
    <3>2. panel.partial /\ panel.area = Window(call.area)
          /\ \A c \in Cells : InArea(call.area, c) => panel.sram[c] = Own(call.frame, c)
      BY <2>1, <3>1 DEF PartialAt
    <3>3. Area = Window(call.area)
      BY <3>2 DEF Area
    <3>4. Aligned(call.area) => Area.w > 0 /\ Area.h > 0
      BY <1>11, <3>3, AreasFit DEF PaperInv
    <3>. QED BY <1>3, <3>2, <3>3, <3>4 DEF InArea
  <2>4. call' = call
    BY <1>1
  <2>. QED BY <1>4, <1>7, <2>1, <2>3, <2>4 DEF PartialAt
<1>12. ASSUME call.op = "set", call.ok PROVE SetAt'
  BY <1>1, <1>4, <1>7, <1>12 DEF PaperInv, Progress, SetAt
<1>. QED BY <1>1, <1>6, <1>8, <1>10, <1>11, <1>12 DEF PaperInv, Progress

(* What a call that begins keeps.                                          *)
LEMMA BegunKept ==
  ASSUME PaperInv, NEW op, NEW area, NEW frame, NEW commands, Begin(op, area, frame, commands),
         CallTypes', commands = Commands', commands # <<>>,
         op \in {"init", "set", "finalize"} \/ Lead' = 0 => ~panel.busy,
         Lead' \in 0 .. 1, IsSequence(commands), Len(commands) \in Nat,
         op = "partial" => area.w \in Nat
  PROVE  PaperInv'
<1>1. /\ script' = commands /\ UNCHANGED <<panel, late>>
      /\ call' = [op |-> op, area |-> area, frame |-> frame, ok |-> TRUE]
  BY DEF Begin
<1>. DEFINE n == Len(commands)
<1>2. ScriptInv'
  <2>1. IsSequence(script)'
    BY <1>1 DEF IsSequence
  <2>2. Len(script') = n /\ Len(Commands') = n /\ script' = Commands' /\ call'.ok
    BY <1>1
  <2>. HIDE DEF n
  <2>3. n \in Nat
    BY DEF n
  <2>4. n <= n /\ \A i \in 1 .. n : script'[i] = Commands'[n - n + i]
    <3>1. \A i \in 1 .. n : n - n + i = i
      BY <2>3
    <3>. QED BY <2>2, <2>3, <3>1
  <2>. QED BY <2>1, <2>2, <2>4 DEF ScriptInv
<1>3. Turn' = 1
  <2>1. Len(script') = n /\ Len(Commands') = n
    BY <1>1
  <2>. HIDE DEF n
  <2>2. n - n + 1 = 1
    BY DEF n
  <2>. QED BY <2>1, <2>2 DEF Turn
<1>4. call'.op = op /\ call'.area = area /\ call'.frame = frame /\ panel' = panel /\ late' = late
  BY <1>1
<1>5. PanelTypes' /\ NeverTorn'
  BY <1>4 DEF PaperInv, PanelTypes, NeverTorn
<1>6. Lead' = 0 \/ Lead' = 1
  OBVIOUS
<1>7. Rests'
  <2>1. 1 > Lead' => Lead' = 0
    BY <1>6
  <2>. QED BY <1>3, <1>4, <2>1 DEF Rests
<1>8. ~(1 > 2) /\ ~(1 > Lead' + 2) /\ ~(1 > Lead' + 4) /\ 1 # Lead' + 4 /\ ~(1 > Lead' + 6) /\ ~(1 > Lead' + 3)
  <2>. DEFINE l == Lead'
  <2>1. l = 0 \/ l = 1
    BY <1>6
  <2>. HIDE DEF l
  <2>2. ~(1 > 2) /\ ~(1 > l + 2) /\ ~(1 > l + 4) /\ 1 # l + 4 /\ ~(1 > l + 6) /\ ~(1 > l + 3)
    BY <2>1
  <2>. QED BY <2>2 DEF l
<1>9. op = "set" => SetAt'
  BY <1>3, <1>8 DEF SetAt
<1>10. op = "update" => UpdateAt'
  <2>1. op = "update" => Drawn' = Lead' + 6
    BY <1>4 DEF Drawn
  <2>. QED BY <1>3, <1>8, <2>1 DEF UpdateAt
<1>11. op = "partial" => PartialAt'
  <2>. DEFINE w == area.w
  <2>. SUFFICES ASSUME op = "partial" PROVE PartialAt'
    OBVIOUS
  <2>1. Drawn' = Lead' + w + 6 /\ w \in Nat /\ call'.area.w = w
    BY <1>4 DEF Drawn
  <2>. DEFINE l == Lead'
  <2>3. l = 0 \/ l = 1
    BY <1>6
  <2>. HIDE DEF w, l
  <2>4. ~(1 > l + w + 5) /\ ~(1 > l + w + 6)
    BY <2>1, <2>3
  <2>2. ~(1 > Lead' + w + 5) /\ ~(1 > Lead' + w + 6)
    BY <2>4 DEF l
  <2>. QED BY <1>3, <1>8, <2>1, <2>2 DEF PartialAt
<1>. QED BY <1>2, <1>4, <1>5, <1>7, <1>9, <1>10, <1>11 DEF PaperInv, Progress

(* The lead follows the new setting of blocking.                           *)
LEMMA NewLead == Lead' \in 0 .. 1 /\ (epaper'.blocking <=> Lead' = 1)
<1>1. CASE epaper'.blocking
  BY <1>1 DEF Waits, Lead
<1>2. CASE ~epaper'.blocking
  BY <1>2 DEF Waits, Lead
<1>. QED BY <1>1, <1>2

(* The setup is a script of nine commands.                                 *)
LEMMA SetupIs == ASSUME NEW fields
                 PROVE  IsSequence(Setup(fields)) /\ Len(Setup(fields)) = 9 /\ Setup(fields) # <<>>
<1>. DEFINE a == Do("RESET")
            b == [cmd |-> "PSR", rotation |-> fields.rotation]
            c == [cmd |-> "LUT", speed |-> fields.speed]
            d == Do("PWR")
            e == Do("PON")
            f == Do("WAIT")
            g == Do("CONFIGURE")
            h == Do("POF")
<1>1. Setup(fields) = <<a, b, c, d, e, f, g, h, f>>
  BY DEF Setup
<1>. HIDE DEF a, b, c, d, e, f, g, h
<1>2. /\ <<a, b, c, d, e, f, g, h, f>> \in Seq({a, b, c, d, e, f, g, h})
      /\ Len(<<a, b, c, d, e, f, g, h, f>>) = 9 /\ <<a, b, c, d, e, f, g, h, f>> # <<>>
  OBVIOUS
<1>. QED BY <1>1, <1>2 DEF IsSequence

(* The lengths of the two updating scripts.                                *)
LEMMA Lengths ==
  CallTypes => /\ Lead \in 0 .. 1
               /\ call.op = "update" => Len(Commands) = 2 * Lead + 6
               /\ call.op = "partial" => Len(Commands) = 2 * Lead + call.area.w + 6
BY CommandsAre

(* Opening the panel keeps the strengthening.                              *)
LEMMA OpenKept == ASSUME PaperInv, EpaperOpen PROVE PaperInv'
<1>1. /\ ~panel.busy /\ epaper' = [InvalidEpaper EXCEPT !.valid = TRUE]
      /\ Begin("init", Whole, 0, Setup(InvalidEpaper))
  BY DEF EpaperOpen
<1>2. call' = [op |-> "init", area |-> Whole, frame |-> 0, ok |-> TRUE]
  BY <1>1 DEF Begin
<1>3. epaper' = [valid |-> TRUE, speed |-> "default", rotation |-> 0, blocking |-> TRUE]
  BY <1>1 DEF InvalidEpaper
<1>4. CallTypes'
  BY <1>2, <1>3, EpaperAssumption DEF CallTypes
<1>5. Setup(InvalidEpaper) = Commands'
  <2>1. Commands' = Setup(epaper')
    BY <1>2 DEF Commands, Setup
  <2>. QED BY <1>3, <2>1 DEF Setup, InvalidEpaper
<1>. QED BY <1>1, <1>4, <1>5, NewLead, SetupIs, BegunKept

(* A call that sets speed and rotation keeps the strengthening.            *)
LEMMA SetKept ==
  ASSUME PaperInv, NEW speed \in Speeds, NEW rotation \in Rotations, SetSettings(speed, rotation)
  PROVE  PaperInv'
<1>1. ~panel.busy /\ Begin("set", Whole, 0, Setup(epaper'))
  BY DEF SetSettings
<1>2. epaper' = [epaper EXCEPT !.speed = speed] \/ epaper' = [epaper EXCEPT !.rotation = rotation]
  BY DEF SetSettings
<1>3. call' = [op |-> "set", area |-> Whole, frame |-> 0, ok |-> TRUE]
  BY <1>1 DEF Begin
<1>4. epaper' = [valid |-> epaper'.valid, speed |-> epaper'.speed,
                 rotation |-> epaper'.rotation, blocking |-> epaper'.blocking] /\ epaper'.speed \in Speeds
  BY <1>2 DEF PaperInv, CallTypes
<1>5. CallTypes'
  BY <1>3, <1>4 DEF CallTypes
<1>6. Setup(epaper') = Commands'
  BY <1>3 DEF Commands, Setup
<1>. QED BY <1>1, <1>5, <1>6, NewLead, SetupIs, BegunKept

(* Closing the panel keeps the strengthening.                              *)
LEMMA CloseKept == ASSUME PaperInv, EpaperClose PROVE PaperInv'
<1>. DEFINE s == <<Do("POF"), Do("WAIT")>>
<1>1. ~panel.busy /\ Begin("finalize", Whole, 0, s) /\ epaper' = [epaper EXCEPT !.valid = FALSE]
  BY DEF EpaperClose
<1>2. call' = [op |-> "finalize", area |-> Whole, frame |-> 0, ok |-> TRUE]
  BY <1>1 DEF Begin
<1>3. epaper' = [valid |-> epaper'.valid, speed |-> epaper'.speed,
                 rotation |-> epaper'.rotation, blocking |-> epaper'.blocking] /\ epaper'.speed \in Speeds
  BY <1>1 DEF PaperInv, CallTypes
<1>4. CallTypes'
  BY <1>2, <1>3 DEF CallTypes
<1>5. s = Commands'
  BY <1>2 DEF Commands, Do
<1>6. IsSequence(s) /\ Len(s) = 2 /\ s # <<>>
  <2>1. s \in Seq({Do("POF"), Do("WAIT")}) /\ Len(s) = 2 /\ s # <<>>
    OBVIOUS
  <2>. QED BY <2>1 DEF IsSequence
<1>. HIDE DEF s
<1>. QED BY <1>1, <1>4, <1>5, <1>6, NewLead, BegunKept

(* Calling a full update keeps the strengthening.                          *)
LEMMA CallUpdateKept == ASSUME PaperInv, NEW frame \in Frames, CallUpdate(frame) PROVE PaperInv'
<1>1. (epaper.blocking \/ ~panel.busy) /\ Begin("update", Whole, frame, Update(frame)) /\ epaper' = epaper
  BY DEF CallUpdate
<1>2. call' = [op |-> "update", area |-> Whole, frame |-> frame, ok |-> TRUE]
  BY <1>1 DEF Begin
<1>3. CallTypes'
  BY <1>1, <1>2 DEF PaperInv, CallTypes
<1>. DEFINE u == Update(frame)
<1>4. u = Commands'
  BY <1>1, <1>2 DEF Commands, Update, Waits, Refreshes
<1>5. UpdateIs(u, frame) /\ Lead \in 0 .. 1
  BY UpdateCommands, WaitsAre
<1>. HIDE DEF u
<1>6. IsSequence(u) /\ Len(u) = 2 * Lead + 6
  BY <1>5 DEF UpdateIs
<1>7. Len(u) \in Nat /\ u # <<>>
  BY <1>5, <1>6
<1>8. Lead' = 0 => ~panel.busy
  BY <1>1, NewLead
<1>. QED BY <1>1, <1>3, <1>4, <1>6, <1>7, <1>8, NewLead, BegunKept DEF u

(* Calling a partial update keeps the strengthening.                       *)
LEMMA CallPartialKept ==
  ASSUME PaperInv, NEW frame \in Frames, NEW area \in Areas, CallPartial(frame, area)
  PROVE  PaperInv'
<1>1. (epaper.blocking \/ ~panel.busy) /\ epaper' = epaper
  BY DEF CallPartial
<1>2. CASE Outside(area)
  <2>1. script' = <<>> /\ call' = [NoPaperCall EXCEPT !.ok = FALSE] /\ UNCHANGED <<panel, late>>
    BY <1>2 DEF CallPartial
  <2>2. call' = [op |-> "none", area |-> Whole, frame |-> 0, ok |-> FALSE]
    BY <2>1 DEF NoPaperCall
  <2>3. CallTypes'
    BY <1>1, <2>2 DEF PaperInv, CallTypes
  <2>. QED BY <2>1, <2>2, <2>3, EndedKept
<1>3. CASE ~Outside(area)
  <2>. DEFINE u == PartialUpdate(frame, area)
              w == area.w
  <2>1. Begin("partial", area, frame, u)
    BY <1>3 DEF CallPartial
  <2>2. call' = [op |-> "partial", area |-> area, frame |-> frame, ok |-> TRUE]
    BY <2>1 DEF Begin
  <2>3. CallTypes'
    BY <1>1, <1>3, <2>2 DEF PaperInv, CallTypes, Outside
  <2>4. u = Commands'
    BY <1>1, <2>2 DEF Commands, PartialUpdate, Waits, Refreshes, Column
  <2>5. w \in Nat
    BY EpaperAssumption
  <2>6. PartialIs(u, frame, area) /\ Lead \in 0 .. 1
    BY <2>5, PartialCommands, WaitsAre
  <2>. HIDE DEF u
  <2>7. IsSequence(u) /\ Len(u) = 2 * Lead + w + 6
    BY <2>6 DEF PartialIs
  <2>8. Len(u) \in Nat /\ u # <<>>
    <3>. HIDE DEF w
    <3>. QED BY <2>5, <2>6, <2>7
  <2>9. Lead' = 0 => ~panel.busy
    BY <1>1, NewLead
  <2>. QED BY <2>1, <2>3, <2>4, <2>5, <2>7, <2>8, <2>9, NewLead, BegunKept
<1>. QED BY <1>2, <1>3

(* Changing blocking keeps the strengthening.                              *)
LEMMA BlockingKept ==
  ASSUME PaperInv, NEW blocking \in BOOLEAN, SetBlocking(blocking)
  PROVE  PaperInv'
<1>1. /\ script = <<>> /\ epaper' = [epaper EXCEPT !.blocking = blocking]
      /\ UNCHANGED <<panel, script, call, late>>
  BY DEF SetBlocking
<1>2. CallTypes'
  BY <1>1 DEF PaperInv, CallTypes, Outside
<1>3. ScriptInv' /\ PanelTypes' /\ NeverTorn' /\ epaper'.rotation = epaper.rotation
  BY <1>1 DEF PaperInv, ScriptInv, IsSequence, PanelTypes, NeverTorn, CallTypes
<1>4. Len(<<>>) = 0
  OBVIOUS
<1>5. Turn = Len(Commands) + 1
  <2>1. Len(Commands) \in Nat
    BY CommandsAre DEF PaperInv
  <2>. QED BY <1>1, <1>4, <2>1 DEF Turn
<1>6. Turn' = Len(Commands') - 0 + 1
  BY <1>1, <1>4 DEF Turn
<1>7. CASE call.op \in {"none", "init", "finalize"}
  BY <1>1, <1>2, <1>3, <1>7 DEF PaperInv, Rests, Progress
<1>8. CASE call.op = "set"
  <2>1. Len(Commands) = 9
    BY <1>8, CommandsAre DEF PaperInv
  <2>2. Turn > 2 /\ Turn > 1
    BY <1>5, <2>1
  <2>3. call'.ok => /\ panel'.set.rotation = epaper'.rotation
                    /\ panel'.set.speed \in {"none", epaper'.speed}
    BY <1>1, <1>3, <1>8, <2>2 DEF PaperInv, Progress, SetAt
  <2>. QED BY <1>1, <1>2, <1>3, <1>8, <2>3 DEF PaperInv, Rests, Progress, SetAt
<1>9. (CallTypes => /\ Lead \in 0 .. 1
                    /\ call.op = "update" => Len(Commands) = 2 * Lead + 6
                    /\ call.op = "partial" => Len(Commands) = 2 * Lead + call.area.w + 6)'
  BY Lengths, PTL
<1>10. call' = call /\ panel' = panel /\ late' = late
  BY <1>1
<1>. DEFINE l == Lead
            m == Lead'
            t == Turn
            v == Turn'
<1>11. CASE call.op = "update"
  <2>1. Len(Commands) = 2 * l + 6 /\ l \in 0 .. 1
    BY <1>11, CommandsAre DEF PaperInv
  <2>2. Len(Commands') = 2 * m + 6 /\ m \in 0 .. 1
    BY <1>2, <1>9, <1>10, <1>11
  <2>3. t = 2 * l + 7 /\ v = 2 * m + 7
    BY <1>5, <1>6, <2>1, <2>2
  <2>4. Drawn = l + 6 /\ Drawn' = m + 6
    BY <1>10, <1>11 DEF Drawn
  <2>5. call.ok => UpdateAt
    BY <1>11 DEF PaperInv, Progress
  <2>. HIDE DEF l, m, t, v
  <2>6. t > l + 2 /\ t > l + 4 /\ t > l + 6 /\ v # m + 4 /\ ~(v <= m + 6)
    BY <2>1, <2>2, <2>3
  <2>7. call.ok => UpdateAt'
    BY <1>10, <2>4, <2>5, <2>6 DEF UpdateAt, l, m, t, v
  <2>8. Rests'
    BY <1>10, <1>11, <2>4, <2>6 DEF Rests, v, m
  <2>. QED BY <1>2, <1>3, <1>10, <1>11, <2>7, <2>8 DEF PaperInv, Progress
<1>12. CASE call.op = "partial"
  <2>. DEFINE w == call.area.w
  <2>1. Len(Commands) = 2 * l + w + 6 /\ l \in 0 .. 1 /\ w \in Nat
    BY <1>12, CommandsAre, AreasFit DEF PaperInv
  <2>2. Len(Commands') = 2 * m + w + 6 /\ m \in 0 .. 1
    BY <1>2, <1>9, <1>10, <1>12
  <2>. HIDE DEF w
  <2>3. t = 2 * l + w + 7 /\ v = 2 * m + w + 7
    BY <1>5, <1>6, <2>1, <2>2
  <2>4. Drawn = l + w + 6 /\ Drawn' = m + w + 6
    BY <1>10, <1>12 DEF Drawn, w
  <2>5. call.ok => PartialAt
    BY <1>12 DEF PaperInv, Progress
  <2>. HIDE DEF l, m, t, v
  <2>6. /\ t > l + 2 /\ t > l + 3 /\ t > l + w + 5 /\ t > l + w + 6
        /\ ~(v <= m + w + 5) /\ ~(v <= m + w + 6)
    BY <2>1, <2>2, <2>3
  <2>7. call.ok => PartialAt'
    BY <1>10, <2>4, <2>5, <2>6 DEF PartialAt, l, m, t, v, w
  <2>8. Rests'
    BY <1>10, <1>12, <2>4, <2>6 DEF Rests, v, m
  <2>. QED BY <1>2, <1>3, <1>10, <1>12, <2>7, <2>8 DEF PaperInv, Progress
<1>. QED BY <1>7, <1>8, <1>11, <1>12 DEF PaperInv, CallTypes

(* The panel, from the first state on; what it shows when a call is done.  *)
LEMMA PaperKept ==
  /\ EpaperInit => PaperInv
  /\ PaperInv => PanelShows /\ epaper.speed \in Speeds /\ panel.at \in 0 .. Cols * Rows
  /\ PaperInv /\ [EpaperStep]_epaperVars => PaperInv'
<1>1. ASSUME EpaperInit PROVE PaperInv
  <2>. DEFINE cells == [c \in Cells |-> Own(0, c)]
  <2>1. /\ epaper = [valid |-> FALSE, speed |-> "default", rotation |-> 0, blocking |-> TRUE]
        /\ call = [op |-> "none", area |-> Whole, frame |-> 0, ok |-> TRUE]
        /\ script = <<>> /\ panel = [sram |-> cells, shown |-> cells, area |-> Whole, partial |-> FALSE, at |-> 0,
                                     busy |-> FALSE, set |-> [speed |-> "none", rotation |-> -1], torn |-> FALSE]
    BY <1>1 DEF EpaperInit, InvalidEpaper, NoPaperCall, NoSettings
  <2>2. CallTypes
    BY <2>1, EpaperAssumption DEF CallTypes
  <2>3. cells = [c \in Cells |-> cells[c]]
    OBVIOUS
  <2>. HIDE DEF cells
  <2>4. PanelTypes
    <3>1. 0 \in 0 .. Cols * Rows
      BY EpaperAssumption
    <3>. QED BY <2>1, <2>3, <3>1 DEF PanelTypes
  <2>5. ScriptInv
    <3>1. <<>> \in Seq({})
      OBVIOUS
    <3>. QED BY <2>1, <3>1 DEF ScriptInv, IsSequence
  <2>6. NeverTorn /\ Rests /\ Progress
    BY <2>1 DEF NeverTorn, Rests, Progress
  <2>. QED BY <2>2, <2>4, <2>5, <2>6 DEF PaperInv
<1>2. ASSUME PaperInv PROVE PanelShows
  <2>1. ASSUME script = <<>> PROVE Turn = Len(Commands) + 1 /\ Len(Commands) \in Nat
    <3>1. Len(<<>>) = 0
      OBVIOUS
    <3>2. Len(Commands) \in Nat
      BY <1>2, CommandsAre DEF PaperInv
    <3>. QED BY <2>1, <3>1, <3>2 DEF Turn
  <2>. DEFINE t == Turn
              l == Lead
              w == call.area.w
  <2>2. UpdateShows
    <3>. SUFFICES ASSUME Settled("update") PROVE \A c \in Cells : panel.shown[c] = Own(call.frame, c)
      BY DEF UpdateShows
    <3>1. script = <<>> /\ call.op = "update" /\ call.ok /\ ~panel.busy /\ ~late
      BY DEF Settled
    <3>2. UpdateAt /\ Drawn = l + 6
      BY <1>2, <3>1 DEF PaperInv, Progress, Drawn
    <3>3. Len(Commands) = 2 * l + 6 /\ l \in 0 .. 1
      BY <1>2, <3>1, CommandsAre DEF PaperInv
    <3>4. t = 2 * l + 7
      BY <2>1, <3>1, <3>3
    <3>. HIDE DEF t, l
    <3>5. t > l + 6
      BY <3>3, <3>4
    <3>. QED BY <3>1, <3>2, <3>5 DEF UpdateAt, t, l
  <2>3. PartialShows
    <3>. SUFFICES ASSUME Settled("partial")
                  PROVE  \A c \in Cells : InArea(call.area, c) => panel.shown[c] = Own(call.frame, c)
      BY DEF PartialShows
    <3>1. script = <<>> /\ call.op = "partial" /\ call.ok /\ ~panel.busy /\ ~late
      BY DEF Settled
    <3>2. PartialAt /\ Drawn = l + w + 6
      BY <1>2, <3>1 DEF PaperInv, Progress, Drawn
    <3>3. Len(Commands) = 2 * l + w + 6 /\ l \in 0 .. 1 /\ w \in Nat
      BY <1>2, <3>1, CommandsAre, AreasFit DEF PaperInv
    <3>. HIDE DEF w
    <3>4. t = 2 * l + w + 7
      BY <2>1, <3>1, <3>3
    <3>. HIDE DEF t, l
    <3>5. t > l + w + 6
      BY <3>3, <3>4
    <3>. QED BY <3>1, <3>2, <3>5 DEF PartialAt, t, l, w
  <2>4. SettingsReach
    <3>. SUFFICES ASSUME Settled("set")
                  PROVE  panel.set.rotation = epaper.rotation /\ panel.set.speed \in {"none", epaper.speed}
      BY DEF SettingsReach
    <3>1. script = <<>> /\ call.op = "set" /\ call.ok
      BY DEF Settled
    <3>2. Len(Commands) = 9
      BY <1>2, <3>1, CommandsAre DEF PaperInv
    <3>3. Turn > 2 /\ Turn > 1
      BY <2>1, <3>1, <3>2
    <3>. QED BY <1>2, <3>1, <3>3 DEF PaperInv, Progress, SetAt
  <2>. QED BY <1>2, <2>2, <2>3, <2>4 DEF PanelShows, PaperInv
<1>3. PaperInv => epaper.speed \in Speeds /\ panel.at \in 0 .. Cols * Rows
  BY DEF PaperInv, CallTypes, PanelTypes
<1>4. ASSUME PaperInv, EpaperStep PROVE PaperInv'
  BY <1>4, OpenKept, CloseKept, SendKept, SendFailsKept, WaitKept, DoneKept, SetKept, BlockingKept,
     CallUpdateKept, CallPartialKept DEF EpaperStep
<1>5. ASSUME PaperInv, UNCHANGED epaperVars PROVE PaperInv'
  <2>1. UNCHANGED <<epaper, panel, script, call, late>>
    BY <1>5 DEF epaperVars
  <2>2. Commands' = Commands /\ Turn' = Turn /\ Lead' = Lead /\ Drawn' = Drawn /\ Sent' = Sent
    BY <2>1 DEF Commands, Turn, Lead, Drawn, Sent, Waits, Setup, Update, PartialUpdate, Refreshes, Column
  <2>3. CallTypes' /\ PanelTypes' /\ ScriptInv' /\ NeverTorn'
    BY <1>5, <2>1, <2>2 DEF PaperInv, CallTypes, PanelTypes, ScriptInv, IsSequence, NeverTorn, Outside
  <2>4. Rests'
    BY <1>5, <2>1, <2>2 DEF PaperInv, Rests
  <2>5. Progress'
    BY <1>5, <2>1, <2>2 DEF PaperInv, Progress, SetAt, UpdateAt, PartialAt
  <2>. QED BY <2>3, <2>4, <2>5 DEF PaperInv
<1>. QED BY <1>1, <1>2, <1>3, <1>4, <1>5

-----------------------------------------------------------------------------
(* Every behaviour of the board starts each of its devices and takes only  *)
(* their steps.                                                            *)
LEMMA DevicesStart ==
  Init => /\ PinsInit /\ LedInit /\ PwmInit /\ DogInit /\ IrInit /\ AdcInit
          /\ EpaperInit /\ LcdInit /\ SensorInit /\ VolInit /\ BusInit
          /\ ConsoleInit /\ PixelsInit /\ TimersInit
BY DEF Init

(* A step of the board is a step or a stutter of each device on the chip.  *)
LEMMA ChipSteps ==
  [Next]_vars => /\ [PinsStep]_pinVars /\ [LedStep]_ledVars /\ [PwmStep]_pwmVars
                 /\ [DogStep]_dogVars /\ [IrStep]_irVars /\ [AdcStep]_adcVars
<1>1. ASSUME ChipStep
      PROVE  /\ [PinsStep]_pinVars /\ [LedStep]_ledVars /\ [PwmStep]_pwmVars
             /\ [DogStep]_dogVars /\ [IrStep]_irVars /\ [AdcStep]_adcVars
  BY <1>1 DEF ChipStep
<1>2. ASSUME UNCHANGED chipVars
      PROVE  /\ UNCHANGED pinVars /\ UNCHANGED ledVars /\ UNCHANGED pwmVars
             /\ UNCHANGED dogVars /\ UNCHANGED irVars /\ UNCHANGED adcVars
  BY <1>2 DEF chipVars
<1>3. [Next]_vars => ChipStep \/ UNCHANGED chipVars
  BY DEF Next, Step, vars
<1>. QED BY <1>1, <1>2, <1>3

(* A step of the board is a step or a stutter of each device on a bus.     *)
LEMMA BusSteps ==
  [Next]_vars => /\ [EpaperStep]_epaperVars /\ [LcdStep]_lcdVars /\ [SensorStep]_sensorVars
                 /\ [VolStep]_volVars /\ [BusIoStep]_busIoVars
<1>1. ASSUME BusStep
      PROVE  /\ [EpaperStep]_epaperVars /\ [LcdStep]_lcdVars /\ [SensorStep]_sensorVars
             /\ [VolStep]_volVars /\ [BusIoStep]_busIoVars
  BY <1>1 DEF BusStep
<1>2. ASSUME UNCHANGED busVars
      PROVE  /\ UNCHANGED epaperVars /\ UNCHANGED lcdVars /\ UNCHANGED sensorVars
             /\ UNCHANGED volVars /\ UNCHANGED busIoVars
  BY <1>2 DEF busVars
<1>3. [Next]_vars => BusStep \/ UNCHANGED busVars
  BY DEF Next, Step, vars
<1>. QED BY <1>1, <1>2, <1>3

(* A step of the board is a step or a stutter of each component beside it. *)
LEMMA HostSteps ==
  [Next]_vars => [ConsoleStep]_conVars /\ [PixelsStep]_pixVars /\ [TimersStep]_tickVars
<1>1. ASSUME HostStep PROVE [ConsoleStep]_conVars /\ [PixelsStep]_pixVars /\ [TimersStep]_tickVars
  BY <1>1 DEF HostStep
<1>2. ASSUME UNCHANGED hostVars PROVE UNCHANGED conVars /\ UNCHANGED pixVars /\ UNCHANGED tickVars
  BY <1>2 DEF hostVars
<1>3. [Next]_vars => HostStep \/ UNCHANGED hostVars
  BY DEF Next, Step, vars
<1>. QED BY <1>1, <1>2, <1>3

(* The devices that need no assumption about threads.                      *)
ChipInv == PinsInv /\ LedInv /\ PwmInv /\ DogInv /\ IrInv /\ AdcInv
AroundInv == PaperInv /\ LcdInv /\ SensorInv /\ VolInv /\ BusInv /\ PixelsInv /\ TimersInv

(* The strengthenings of the devices on the chip always hold.              *)
LEMMA ChipSafe == Spec => []ChipInv
<1>1. Init => ChipInv
  BY DevicesStart, PinsKept, LedKept, PwmKept, DogKept, IrKept, AdcKept DEF ChipInv
<1>2. ChipInv /\ [Next]_vars => ChipInv'
  BY ChipSteps, PinsKept, LedKept, PwmKept, DogKept, IrKept, AdcKept DEF ChipInv
<1>. QED BY <1>1, <1>2, PTL DEF Spec

(* The strengthenings of the devices around the chip always hold.          *)
LEMMA AroundSafe == Spec => []AroundInv
<1>1. Init => AroundInv
  BY DevicesStart, PaperKept, LcdKept, SensorKept, VolKept, BusKept, PixelsKept, TimersKept DEF AroundInv
<1>2. AroundInv /\ [Next]_vars => AroundInv'
  BY BusSteps, HostSteps, PaperKept, LcdKept, SensorKept, VolKept, BusKept, PixelsKept, TimersKept
     DEF AroundInv
<1>. QED BY <1>1, <1>2, PTL DEF Spec

(* The strengthening of the threads always holds, where nothing resets a running thread. *)
LEMMA ThreadsSafe == ASSUME ~ResetsRunning PROVE Spec => []ConsoleInv
<1>1. Init => ConsoleInv
  BY DevicesStart, ConsoleKept
<1>2. ConsoleInv /\ [Next]_vars => ConsoleInv'
  BY HostSteps, ConsoleKept
<1>. QED BY <1>1, <1>2, PTL DEF Spec

(* The types of the parts of the board.                                    *)
LEMMA TypesOK == ChipInv /\ AroundInv /\ ConsoleInv => TypeOK
<1>. SUFFICES ASSUME ChipInv, AroundInv, ConsoleInv PROVE TypeOK
  OBVIOUS
<1>1. /\ pin \in [Pins -> [func : {"NULL", "SIO"} \cup Functions, dir : {"in", "out"},
                           pull : {"none", "up", "down"}, irq : BOOLEAN]]
      /\ object \subseteq Pins /\ mode \in [Pins -> Modes \cup {Gone}]
  BY DEF ChipInv, PinsInv, PinRegisters
<1>2. led.brightness \in 0 .. Full /\ led.direction \in {-1, 0, 1} /\ level \in 0 .. Full
  BY DEF ChipInv, LedInv, LedFields
<1>3. ramp.duty \in 0 .. Percent /\ unit.wrap \in 0 .. Top - 1 /\ slice.top \in 0 .. Top - 1
  BY DEF ChipInv, PwmInv, PwmUnits, Slices
<1>4. counter \in 0 .. Off /\ quiet \in 0 .. Never /\ dog.age \in 0 .. Never /\ power.age \in 0 .. Never
  BY DEF ChipInv, DogInv, Dogs, Powers
<1>5. claimed \subseteq Machines /\ fifo \in [Machines -> 0 .. FifoSize] /\ line \in [Machines -> Lines \cup {NoLine}]
  BY DEF ChipInv, IrInv
<1>6. epaper.speed \in Speeds /\ panel.at \in 0 .. Cols * Rows
  BY PaperKept DEF AroundInv
<1>7. view.rect.x + view.rect.w <= Memory.w
  BY DEF AroundInv, LcdInv, Views, Windows
<1>8. sampling \in [Sensors -> {"sleep", "forced", "normal"}]
  BY DEF AroundInv, SensorInv
<1>9. blocks \in 0 .. Cardinality(Names) + 2
  BY VolKept DEF AroundInv
<1>10. io.reg \in Regs \cup {NoReg} /\ chip.at \in Regs \cup {NoReg}
  BY DEF AroundInv, BusInv, BusCalls, Chips
<1>11. working \in 0 .. Rounds /\ mutex.owner \in Actors \cup {NoOne}
  BY ConsoleAssumption DEF ConsoleInv, ConTypes
<1>12. sdl \subseteq {"window", "renderer", "texture"} /\ ticks \in 0 .. MaxTicks
  <2>1. sdl \subseteq {"window", "renderer", "texture"}
    <3>1. display.pc \in {"closed", "vsync", "texture", "frame", "open"}
      BY DEF AroundInv, PixelsInv, DisplayInv
    <3>. QED BY <3>1 DEF AroundInv, PixelsInv, DisplayInv, DisplayObjects
  <2>2. ticks \in 0 .. MaxTicks
    BY DEF AroundInv, PixelsInv, DisplayInv
  <2>. QED BY <2>1, <2>2
<1>13. Len(queue) <= Depth /\ gauge.percent \in 0 .. 100
  BY DEF ChipInv, AdcInv
<1>14. /\ ring.events \in 0 .. QueueSize
       /\ made \in 0 .. QueueSize + Cardinality(Slots) + Cardinality(Tasks)
  BY TimersTidy DEF AroundInv
<1>. QED BY <1>1, <1>2, <1>3, <1>4, <1>5, <1>6, <1>7, <1>8, <1>9, <1>10, <1>11, <1>12, <1>13, <1>14 DEF TypeOK

-----------------------------------------------------------------------------
(* A ramp on a PWM slice: wherever its interrupt comes between the steps   *)
(* of hw_pwm_stop, hw_pwm_set_config and hw_pwm_finalize (pwm.c, and the   *)
(* example that ramps), the level fits the slice, the period is that of    *)
(* the last configuration, and a finalized slice is still.                 *)
THEOREM RampSafe == Spec => []RampHolds
<1>1. ChipInv => RampHolds
  BY PwmInvRamp DEF ChipInv
<1>. QED BY <1>1, ChipSafe, PTL

(* The LED shows what the last call asked for and its fields say so, with  *)
(* the timer of a blink or a fade running between the steps of a call.     *)
THEOREM LedSafe == Spec => []LedFollows
<1>1. ChipInv => LedFollows
  BY DEF ChipInv, LedInv
<1>. QED BY <1>1, ChipSafe, PTL

(* However late its polls come, an application is reset only if it asked   *)
(* for it or did not poll for longer than half of the longest time-out,    *)
(* though watchdog.h:99-101 allows the whole; the callback of power has    *)
(* been told the source the handle records, and the battery gauge, which   *)
(* shares the converter with single readings, takes the mean of the supply.*)
THEOREM PowerSafe == Spec => []PowerKept
<1>1. ChipInv => PowerKept
  BY NeverRunsOut DEF ChipInv, DogInv, AdcInv, PowerKept
<1>. QED BY <1>1, ChipSafe, PTL

(* Transfers over SPI and I2C that fail half-way release what they hold    *)
(* and report what was moved; two sensors on a bus are not mixed up.       *)
THEOREM BusSafe == Spec => []TransfersTrue
<1>1. AroundInv => TransfersTrue
  BY BusKept DEF AroundInv, SensorInv, TransfersTrue
<1>. QED BY <1>1, AroundSafe, PTL

(* Writes and syncs that fail half-way and a host that stops at any moment *)
(* lose nothing that a caller was told is stored, and touch no other file; *)
(* the positions of open files are those of littlefs unless a seek failed; *)
(* and the memory of files, directories and volumes is freed once          *)
(* (volume.c, file.c, vol_file.c over littlefs).                           *)
THEOREM VolumeSafe == Spec => []FilesSafe
<1>1. AroundInv => FilesSafe
  BY VolKept DEF AroundInv
<1>. QED BY <1>1, AroundSafe, PTL

(* The e-paper panel, on which any command may fail half-way and which may *)
(* still be busy: no picture is torn unless a wait gave up, and it shows   *)
(* what the full and partial updates that succeeded have sent, each byte   *)
(* in its place.                                                           *)
THEOREM PaperSafe == Spec => []PanelShows
<1>1. AroundInv => PanelShows
  BY PaperKept DEF AroundInv
<1>. QED BY <1>1, AroundSafe, PTL

(* What the displays draw is where their drivers put it, whatever was set  *)
(* or failed before: a rectangle where it was asked, on panels without an  *)
(* offset (st7789.c:545-555 adds none), a fill all over any panel that was *)
(* just set up, a cleared rectangle in the frame and nowhere else; and     *)
(* frames are an interval apart.                                           *)
THEOREM ScreensSafe == Spec => ScreensDraw
<1>1. AroundInv => RectShows /\ ClearsRect /\ NothingLeft
  BY FrameShows DEF AroundInv, LcdInv
<1>2. AroundInv /\ [Next]_vars =>
        [drawn'.op \in {"rect", "torn", "fill"} =>
           \A dot \in Dots : pixels'[dot] # pixels[dot] => In(drawn'.rect, dot)]_lcdVars
  BY BusSteps, LcdKept DEF AroundInv
<1>3. AroundInv /\ [Next]_vars =>
        [drawn.op = "configured" /\ drawn'.op = "fill" =>
           \A dot \in Dots :
             IF In(Screen(lcd.kind, view.rotation), dot) THEN pixels'[dot] = <<drawn'.of, 0>>
             ELSE pixels'[dot] = pixels[dot]]_lcdVars
  BY BusSteps, LcdKept DEF AroundInv
<1>4. AroundInv /\ [Next]_vars =>
        [ran' # ran /\ ran > 0 /\ ran' # Undrawn => ran' - ran >= Interval]_pixVars
  BY HostSteps, PixelsKept DEF AroundInv
<1>5. Spec => RectOnly /\ FillAfterRotation /\ Paced
  BY <1>2, <1>3, <1>4, AroundSafe, PTL DEF Spec, RectOnly, FillAfterRotation, Paced
<1>6. Spec => []RectShows /\ [](ClearsRect /\ NothingLeft)
  BY <1>1, AroundSafe, PTL
<1>. QED BY <1>5, <1>6, PTL DEF ScreensDraw

(* A line with a context has a machine and a handler.                      *)
LEMMA Backed == IrInv => ContextBacked
<1>. SUFFICES ASSUME IrInv, busy = NoCall PROVE marked = claimed
  BY DEF IrInv, ContextBacked
<1>1. busy.at = "idle"
  BY DEF NoCall
<1>2. \A m \in claimed, s \in {"line", "clear", "mark", "release"} : At(s, m).at = s
  BY DEF At
<1>. QED BY <1>1, <1>2 DEF IrInv

(* Pins read as their mode says, only inputs interrupt, one that nobody    *)
(* answers was silenced by the mode of another pin (gpio.c:81), and a      *)
(* context of a receiver that is marked is backed by a machine, which the  *)
(* shared handler may read.                                                *)
THEOREM PinsSafe == Spec => [](ModeReads /\ OnlyInputsInterrupt /\ InputsAnswered /\ ContextBacked)
<1>1. ChipInv => ModeReads /\ OnlyInputsInterrupt /\ InputsAnswered /\ ContextBacked
  BY Backed DEF ChipInv, PinsInv
<1>. QED BY <1>1, ChipSafe, PTL

(* The same with the types of all the parts of the board, which hold when  *)
(* a thread is started only after the last one is done with its work.      *)
THEOREM InterruptsSafe == ASSUME ~ResetsRunning PROVE Spec => []InterruptsFit
<1>1. ChipInv /\ AroundInv /\ ConsoleInv => InterruptsFit
  BY TypesOK, Backed DEF ChipInv, PinsInv, InterruptsFit
<1>. QED BY <1>1, ChipSafe, AroundSafe, ThreadsSafe, PTL

(* Threads that print and timers that call back in threads of their own,   *)
(* with panics, resets and finalizers between: lines are whole, memory is  *)
(* freed once, nothing is used after its owner returned.                   *)
THEOREM ThreadsTidied == ASSUME ~ResetsRunning PROVE Spec => []ThreadsTidy
<1>1. ChipInv /\ AroundInv /\ ConsoleInv => ThreadsTidy
  BY TypesOK, TimersTidy, ConsoleKept DEF AroundInv, ThreadsTidy
<1>. QED BY <1>1, ChipSafe, AroundSafe, ThreadsSafe, PTL
=============================================================================
