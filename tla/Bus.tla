-------------------------------- MODULE Bus ---------------------------------
(***************************************************************************)
(* SPI and I2C (runtime-hw/pico): registers of a chip are written and read *)
(* by transfers, any part of which may fail, over SPI, where the chip      *)
(* listens while its select pin is active, or over I2C, where it listens   *)
(* to what follows its address up to a stop. The second part is a sensor   *)
(* driver over such a bus.                                                 *)
(***************************************************************************)
EXTENDS Integers, Sequences, FiniteSets

CONSTANTS
  Regs, Vals  \* the chip's registers, and what they hold: registers among it
ASSUME BusAssumption == Regs \subseteq Nat /\ Vals # {}

VARIABLES
  port,    \* the SPI or I2C interface: bus, open, activeLow, cs
  chip,    \* what the chip knows: its registers, the one it is at, and
           \* whether the bus is held for it
  io       \* the call under way, and the outcome of the last

busIoVars == <<port, chip, io>>

NoReg == -1
NoBusCall == [pc |-> "idle", op |-> "none", reg |-> NoReg, val |-> NoReg, got |-> NoReg, done |-> 0]

BusInit ==
  /\ port \in {[bus |-> b, open |-> FALSE, activeLow |-> low, cs |-> FALSE] :
                 b \in {"spi", "i2c"}, low \in BOOLEAN}
  /\ chip = [regs |-> [r \in Regs |-> CHOOSE v \in Vals : TRUE], at |-> NoReg, held |-> FALSE]
  /\ io = NoBusCall

Active == ~port.activeLow
Selected == port.open /\ port.cs = Active

-----------------------------------------------------------------------------
(* The chip (external): the first byte it hears names a register, the next *)
(* one is put there; what it answers is what is in the register.           *)
Hears(c, byte) ==
  IF c.at = NoReg THEN [c EXCEPT !.at = byte]
  ELSE [c EXCEPT !.regs[c.at] = byte]

(* hw_spi_init: the chip is not selected.  hw_i2c_init has no pin for it.  *)
PortInit ==
  /\ ~port.open
  /\ port' = [port EXCEPT !.open = TRUE, !.cs = ~Active]
  /\ UNCHANGED <<chip, io>>

PortFinalize ==
  /\ port.open /\ io.pc = "idle"
  /\ port' = [port EXCEPT !.open = FALSE]
  /\ io' = NoBusCall
  /\ UNCHANGED chip

Calls == {"read", "write", "xfr"}

Transfer(op, reg, val) ==
  /\ port.open /\ io.pc = "idle"
  /\ io' = [pc |-> "begin", op |-> op, reg |-> reg, val |-> val, got |-> NoReg, done |-> 0]
  /\ UNCHANGED <<port, chip>>

(* hw_spi_read, hw_spi_write and a hw_spi_xfr of both bytes.               *)
Select ==
  /\ port.bus = "spi" /\ io.pc = "begin"
  /\ port' = [port EXCEPT !.cs = Active]
  /\ chip' = [chip EXCEPT !.at = NoReg]
  /\ io' = [io EXCEPT !.pc = "reg"]

SpiReg ==
  /\ port.bus = "spi" /\ io.pc = "reg"
  /\ \/ chip' = (IF Selected THEN Hears(chip, io.reg) ELSE chip) /\ io' = [io EXCEPT !.pc = "data"]
     \/ UNCHANGED chip /\ io' = [io EXCEPT !.pc = "end"]
  /\ UNCHANGED port

SpiData ==
  /\ port.bus = "spi" /\ io.pc = "data"
  /\ IF io.op = "read"
     THEN /\ io' \in {[io EXCEPT !.pc = "end", !.got = IF Selected THEN chip.regs[chip.at] ELSE NoReg,
                                 !.done = 1], [io EXCEPT !.pc = "end"]}
          /\ UNCHANGED chip
     ELSE \/ /\ chip' = IF Selected THEN Hears(chip, io.val) ELSE chip
             /\ io' = [io EXCEPT !.pc = "end", !.done = 1]
          \/ UNCHANGED chip /\ io' = [io EXCEPT !.pc = "end"]
  /\ UNCHANGED port

(* The path of a failed transfer returns at once.                          *)
DeselectDone ==
  /\ port.bus = "spi" /\ io.pc = "end"
  /\ port' = [port EXCEPT !.cs = IF io.done = 0 THEN @ ELSE ~Active]
  /\ io' = [io EXCEPT !.pc = "idle"]
  /\ UNCHANGED chip

(* Every path ends here.                                                   *)
Deselect ==
  /\ port.bus = "spi" /\ io.pc = "end"
  /\ port' = [port EXCEPT !.cs = ~Active]
  /\ io' = [io EXCEPT !.pc = "idle"]
  /\ UNCHANGED chip

-----------------------------------------------------------------------------
(* hw_i2c_xfr: one write of tx bytes and then one read, each with a stop;  *)
(* nobody at the address, and a timeout, end it with a stop and a 0.       *)
I2cFails ==
  /\ chip' = [chip EXCEPT !.at = NoReg, !.held = FALSE]
  /\ io' = [io EXCEPT !.pc = "idle", !.done = 0]

I2cXfr ==
  /\ port.bus = "i2c" /\ io.pc = "begin" /\ io.op = "xfr"
  /\ \/ I2cFails
     \/ /\ chip' = Hears([chip EXCEPT !.at = io.reg], io.val)
        /\ io' = [io EXCEPT !.pc = "idle", !.done = 2]
  /\ UNCHANGED port

(* hw_i2c_read: the register's name is written, then it is read.           *)
I2cReadReg ==
  /\ port.bus = "i2c" /\ io.pc = "begin" /\ io.op = "read"
  /\ \/ I2cFails
     \/ chip' = [chip EXCEPT !.at = io.reg] /\ io' = [io EXCEPT !.pc = "data"]
  /\ UNCHANGED port

I2cReadData ==
  /\ port.bus = "i2c" /\ io.pc = "data" /\ io.op = "read"
  /\ \/ I2cFails
     \/ io' = [io EXCEPT !.pc = "idle", !.got = chip.regs[chip.at], !.done = 1] /\ UNCHANGED chip
  /\ UNCHANGED port

(* hw_i2c_write: the register's name is written with no stop, and then the *)
(* data in a transfer of their own: it starts over, and names a register.  *)
I2cWriteReg ==
  /\ port.bus = "i2c" /\ io.pc = "begin" /\ io.op = "write"
  /\ \/ I2cFails
     \/ chip' = [chip EXCEPT !.at = io.reg, !.held = TRUE] /\ io' = [io EXCEPT !.pc = "data"]
  /\ UNCHANGED port

I2cWriteData ==
  /\ port.bus = "i2c" /\ io.pc = "data" /\ io.op = "write"
  /\ \/ I2cFails
     \/ /\ chip' = [chip EXCEPT !.at = IF io.val \in Regs THEN io.val ELSE NoReg, !.held = FALSE]
        /\ io' = [io EXCEPT !.pc = "idle", !.done = 1]
  /\ UNCHANGED port

-----------------------------------------------------------------------------
BusIoStep ==
  \/ PortInit \/ PortFinalize
  \/ \E op \in Calls, r \in Regs, v \in Vals : Transfer(op, r, v)
  \/ Select \/ SpiReg \/ SpiData \/ Deselect
  \/ I2cXfr \/ I2cReadReg \/ I2cReadData \/ I2cWriteReg \/ I2cWriteData

-----------------------------------------------------------------------------
(* Between calls the chip is not selected and the bus not held, on every   *)
(* path out of a transfer, the failed ones included.                       *)
BusReleased == io.pc = "idle" => ~Selected /\ ~chip.held

(* What a call reports is so: a read that returns bytes returns what the   *)
(* register holds, and a write that reports bytes has put them there       *)
(* (hw_i2c_write, whose data name a register, is left out).                *)
ReportsTrue ==
  io.pc = "idle" /\ io.done > 0 =>
    /\ io.op = "read" => io.got = chip.regs[io.reg]
    /\ io.op = "xfr" \/ (io.op = "write" /\ port.bus = "spi") => chip.regs[io.reg] = io.val

-----------------------------------------------------------------------------
(***************************************************************************)
(* drivers/bme280/bme280.c: sensors that share an I2C bus.  The vendor's   *)
(* driver (external) does the transfers and finds the address in a         *)
(* reserved field of the bus, which every call sets first.  A sensor       *)
(* measures by itself, and in sleep mode not at all.                       *)
(***************************************************************************)

CONSTANT Sensors
ASSUME SensorAssumption == IsFiniteSet(Sensors)

VARIABLES
  ready,    \* sensors whose driver structure is valid
  address,  \* the reserved field of the bus: the sensor it leads to
  sampling, \* the mode of each sensor: "sleep", "forced" or "normal"
  stock,    \* what its registers hold, seen from the call: "old" or "new"
  read,     \* the call of read_data that runs
  reading   \* what the last read_data returned

sensorVars == <<ready, address, sampling, stock, read, reading>>

Nobody == "nobody"
NoRead == [at |-> "idle", by |-> Nobody, slept |-> FALSE, waited |-> FALSE]
NoReading == [ok |-> FALSE, by |-> Nobody, of |-> Nobody, slept |-> FALSE, fresh |-> FALSE]

SensorInit ==
  /\ ready = {} /\ address = Nobody
  /\ sampling = [s \in Sensors |-> "sleep"] /\ stock = [s \in Sensors |-> "old"]
  /\ read = NoRead /\ reading = NoReading

(* _driver_bme280_dev.                                                     *)
Addressed(s) == address' = s

-----------------------------------------------------------------------------
(* driver_bme280_i2c_init resets the sensor.                               *)
SensorOpen(s) ==
  /\ read = NoRead /\ s \notin ready
  /\ Addressed(s)
  /\ \/ ready' = ready \cup {s} /\ sampling' = [sampling EXCEPT ![s] = "sleep"]
     \/ UNCHANGED <<ready, sampling>>
  /\ UNCHANGED <<stock, read, reading>>

(* driver_bme280_finalize, driver_bme280_reset and driver_bme280_set_mode. *)
Switch(s, to) ==
  /\ read = NoRead /\ s \in ready
  /\ Addressed(s)
  /\ \/ sampling' = [sampling EXCEPT ![address'] = to] \/ UNCHANGED sampling
  /\ ready' \in {ready, ready \ IF to = "sleep" THEN {s} ELSE {}}
  /\ UNCHANGED <<stock, read, reading>>

(* driver_bme280_read_data: the mode first.                                *)
ReadMode(s) ==
  /\ read = NoRead /\ s \in ready
  /\ Addressed(s)
  /\ stock' = [other \in Sensors |-> "old"]
  /\ \/ read' = [NoRead EXCEPT !.at = IF sampling[address'] = "sleep" THEN "force" ELSE "data",
                               !.by = s, !.slept = sampling[address'] = "sleep"]
     \/ UNCHANGED read
  /\ reading' = NoReading
  /\ UNCHANGED <<ready, sampling>>

ForceMode ==
  /\ read.at = "force"
  /\ \/ sampling' = [sampling EXCEPT ![address] = "forced"] /\ read' = [read EXCEPT !.at = "wait"]
     \/ UNCHANGED sampling /\ read' = NoRead
  /\ UNCHANGED <<ready, address, stock, reading>>

(* The time the sensor's settings ask for, or 10 ms, which may be too      *)
(* short, when they cannot be read.                                        *)
Wait ==
  /\ read.at = "wait"
  /\ \/ sampling[address] # "forced" /\ read' = [read EXCEPT !.at = "data", !.waited = TRUE]
     \/ read' = [read EXCEPT !.at = "data"]
  /\ UNCHANGED <<ready, address, sampling, stock, reading>>

ReadSensor ==
  /\ read.at = "data"
  /\ \/ reading' = [ok |-> TRUE, by |-> read.by, of |-> address,
                    slept |-> read.slept /\ read.waited, fresh |-> stock[address] = "new"]
     \/ UNCHANGED reading
  /\ read' = NoRead
  /\ UNCHANGED <<ready, address, sampling, stock>>

(* A measurement ends; a forced one leaves the sensor asleep.              *)
Measured(s) ==
  /\ sampling[s] # "sleep"
  /\ stock' = [stock EXCEPT ![s] = "new"]
  /\ sampling' = [sampling EXCEPT ![s] = IF @ = "forced" THEN "sleep" ELSE @]
  /\ UNCHANGED <<ready, address, read, reading>>

SensorStep ==
  \/ \E s \in Sensors : SensorOpen(s) \/ ReadMode(s) \/ Measured(s)
  \/ \E s \in Sensors, to \in {"sleep", "forced", "normal"} : Switch(s, to)
  \/ ForceMode \/ Wait \/ ReadSensor

-----------------------------------------------------------------------------
(* What read_data returns is what the sensor it was asked for measured,    *)
(* however the calls for the sensors of a bus alternate.                   *)
OwnSensor == reading.ok => reading.of = reading.by

(* A sensor that slept was measured during the call.  One that was already *)
(* in forced mode is read at once, and may give what it measured before.   *)
FreshWhenAsleep == reading.ok /\ reading.slept => reading.fresh

(* A transfer tells its caller the truth and gives the bus back, and a     *)
(* sensor that shares its bus reads its own measurement.                   *)
TransfersTrue ==
  /\ BusReleased
  /\ ReportsTrue
  /\ OwnSensor
  /\ FreshWhenAsleep
=============================================================================
